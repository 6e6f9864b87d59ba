---------------------------- MODULE LedgerAudit ----------------------------
(***************************************************************************)
(* The auditor's checks of intents, claims and runs.  It shares the tables *)
(* of transitions and replay_claim_events with the code it audits; all the *)
(* rest it works out again, by walks along the ledger of its own.  Every   *)
(* operator returns the errors it finds, as <<code, what it is about>>.    *)
(***************************************************************************)
EXTENDS LedgerEvents

(* A walk that carries a value for every key along the ledger.             *)
WalkOf(L, start, step(_, _)) ==
  LET at[k \in 0 .. Len(L)] == IF k = 0 THEN start ELSE step(at[k - 1], k)
  IN  at[Len(L)]

---------------------------------------------------------------------------
(* History.                                                                *)

(* The type of the latest earlier event of those types that is about the   *)
(* same intent or run.                                                     *)
PreviousType(L, types, field, k) ==
  LET rows == {m \in 1 .. k - 1 : L[m].type \in types /\ L[m][field] = L[k][field]}
  IN  IF rows = {} THEN "none" ELSE L[LastOf(rows)].type

CheckIntentTransitions(L) ==
  LET previous(k) == PreviousType(L, IntentTypes, "intent", k)
  IN  {<<"ILLEGAL_TRANSITION", k>> :
         k \in {m \in DOMAIN L :
                  /\ L[m].type \in IntentTypes
                  /\ IF previous(m) = "none"
                     THEN L[m].type \notin {"intent_submitted", "intent_rejected"}
                     ELSE L[m].type \notin AllowedIntentTransitions[previous(m)]}}

CheckDuplicateClaims(L) ==
  LET claimed == {k \in DOMAIN L : L[k].type = "intent_claimed"}
  IN  {<<"DUPLICATE_CLAIM", L[k].intent>> :
         k \in {m \in claimed : \E j \in claimed : j < m /\ L[j].intent = L[m].intent}}

CheckLifecycleTransitions(L) ==
  LET previous(k) == PreviousType(L, RunTypes, "run", k)
  IN  {<<"ILLEGAL_TRANSITION", k>> :
         k \in {m \in DOMAIN L :
                  /\ L[m].type \in RunTypes
                  /\ IF previous(m) = "none" THEN L[m].type # "run_created"
                     ELSE L[m].type \notin AllowedRunTransitions[previous(m)]}}

(* An artifact belongs to a run that was created.                          *)
CheckArtifactSchema(L) ==
  {<<"ARTIFACT_SCHEMA_INVALID", k>> :
     k \in {m \in DOMAIN L :
              /\ L[m].type = "artifact_written"
              /\ \A c \in DOMAIN L : L[c].type # "run_created" \/ L[c].run # L[m].run}}

(* check_claim_history carries the active claim of each intent: a second   *)
(* claim is an error and changes nothing, a release ends the active claim  *)
(* or is an error, a release of nothing is neither.                        *)
CheckClaimHistory(L) ==
  LET start == [active |-> [i \in Intents |-> NoId], errors |-> {}]
      step(was, k) ==
        LET active == was.active[L[k].intent]
        IN  CASE L[k].type = "intent_claim_established" /\ active # NoId ->
                   [was EXCEPT !.errors = @ \union {<<"DUPLICATE_ACTIVE_CLAIM", k>>}]
              [] L[k].type = "intent_claim_established" /\ active = NoId ->
                   [was EXCEPT !.active[L[k].intent] = k]
              [] L[k].type = "intent_released" /\ active # NoId ->
                   IF L[k].claim = L[active].claim /\ L[k].owner = L[active].owner
                   THEN [was EXCEPT !.active[L[k].intent] = NoId]
                   ELSE [was EXCEPT !.errors = @ \union {<<"RELEASE_OWNER_MISMATCH", k>>}]
              [] OTHER -> was
  IN  WalkOf(L, start, step).errors

HistoryErrors(L) ==
  CheckIntentTransitions(L) \union CheckDuplicateClaims(L)
    \union CheckLifecycleTransitions(L) \union CheckArtifactSchema(L)
    \union CheckClaimHistory(L)

---------------------------------------------------------------------------
(* Tables.                                                                 *)

ExpectedLiveStatus(L) ==      \* mutant: expects inbox_entries to follow the work
  WalkOf(L, [i \in Intents |-> "NONE"],
         LAMBDA was, k :
           IF L[k].type \in IntentTypes
           THEN [was EXCEPT ![L[k].intent] = StatusByType[L[k].type]] ELSE was)

(* compute_expected_submission_status: the last submission wins.           *)
ExpectedSubmission(L) ==
  WalkOf(L, [i \in Intents |-> "NONE"],
         LAMBDA was, k :
           IF L[k].type \in {"intent_submitted", "intent_rejected"}
           THEN [was EXCEPT ![L[k].intent] = StatusByType[L[k].type]] ELSE was)

(* compute_expected_intents: the latest event until an outcome.            *)
ExpectedIntents(L) ==
  LET final == {StatusByType[t] : t \in TerminalTypes}
  IN  WalkOf(L, [i \in Intents |-> [status |-> "NONE", event |-> NoId]],
             LAMBDA was, k :
               IF L[k].type \in IntentTypes /\ was[L[k].intent].status \notin final
               THEN [was EXCEPT ![L[k].intent] =
                       [status |-> StatusByType[L[k].type], event |-> k]]
               ELSE was)

(* Rows that should not be there are not looked for.                       *)
CheckIntents(L, inbox, table) ==
  {<<"INBOX", i>> : i \in {j \in Intents : ExpectedSubmission(L)[j] \notin {"NONE", inbox[j]}}}
    \union {<<"INTENT_PROJECTION", i>> :
              i \in {j \in Intents : ExpectedIntents(L)[j].status # "NONE"
                                       /\ ExpectedIntents(L)[j] # table[j]}}

CheckClaimProjection(L, table) ==
  LET expected(i) == IF ReplayClaim(L, i) = NoId THEN [claim |-> NoId, owner |-> NoOwner]
                     ELSE [claim |-> ReplayClaim(L, i), owner |-> L[ReplayClaim(L, i)].owner]
  IN  {<<"CLAIM_PROJECTION", i>> : i \in {j \in Intents : expected(j) # table[j]}}

(* compute_expected_projection and check_projections: a run that is not    *)
(* expected is not looked for.                                             *)
CheckProjections(L, table) ==
  LET rows(r) == {k \in DOMAIN L : L[k].type \in RunTypes /\ L[k].run = r}
      expected(r) == [run |-> r, state |-> L[LastOf(rows(r))].type, event |-> LastOf(rows(r))]
  IN  {<<"PROJECTION", r>> :
         r \in {L[k].run : k \in {m \in DOMAIN L :
                  /\ L[m].type \in RunTypes
                  /\ {row \in table : row.run = L[m].run} # {expected(L[m].run)}}}}

===========================================================================
