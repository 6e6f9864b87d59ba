----------------------------- MODULE Receipts -----------------------------
(***************************************************************************)
(* Receipts: everything the ledger holds about one intent, found again on  *)
(* every call.  receipt_projection keeps the outline of the bundle that    *)
(* was made last (first event, last event, number of events); it is        *)
(* refreshed only when somebody asks.                                      *)
(***************************************************************************)
EXTENDS RecordLedger

VARIABLE receiptTable   \* receipt_projection: the row of each intent

receiptVars == <<receiptTable>>

NoReceipt == [first |-> NoId, last |-> NoId, count |-> 0]

Outline(rows) ==
  IF rows = {} THEN NoReceipt
  ELSE [first |-> FirstOf(rows), last |-> LastOf(rows), count |-> Cardinality(rows)]

MentionedRows(L, i) == {k \in DOMAIN L : Mentions(L[k], i)}      \* mutant: no runs

(* list_receipt_events: what mentions the intent, the runs created for it, *)
(* and what carries the id of such a run.                                  *)
ReceiptRows(L, i) ==
  LET created == {k \in OfType(L, {"run_created"}) : L[k].op = i}
  IN  {k \in DOMAIN L : Mentions(L[k], i)}
        \union created
        \union {k \in OfType(L, RunTypes) : L[k].id \in {L[c].id : c \in created}}

(* get_receipt_bundle, and export_receipt_bundle, which is its bundle as a *)
(* dict: no bundle, no row; a row that cannot be written stays as it was.  *)
GetReceiptBundle(i) ==
  /\ "receipts" \in scope.parts
  /\ ReceiptRows(ledger, i) # {}
  /\ \/ receiptTable' = [receiptTable EXCEPT ![i] = Outline(ReceiptRows(ledger, i))] /\ NoFault
     \/ UNCHANGED receiptTable /\ Fault
  /\ UNCHANGED <<ledger, stale, clock, scope>>

(* rebuild_receipt_projection: the intents that were submitted.            *)
SubmittedIntents(L) == {L[k].intent : k \in OfType(L, SubmissionTypes)}

RebuiltReceiptTable(L) ==
  [i \in Intents |->
     IF i \in SubmittedIntents(L) THEN Outline(ReceiptRows(L, i)) ELSE NoReceipt]

RebuildReceiptProjection ==
  /\ "receipts" \in scope.parts
  /\ receiptTable' = RebuiltReceiptTable(ledger)
  /\ UNCHANGED ledgerVars

ReceiptInit == receiptTable = [i \in Intents |-> NoReceipt]

ReceiptStep ==
  \/ \E i \in Intents : GetReceiptBundle(i)
  \/ RebuildReceiptProjection

ReceiptTypeOK == receiptTable \in [Intents -> [first : Nat, last : Nat, count : Nat]]

===========================================================================
