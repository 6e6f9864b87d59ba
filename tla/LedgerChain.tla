---------------------------- MODULE LedgerChain ----------------------------
(***************************************************************************)
(* ledger_events as LedgerKernel keeps it: rows chained by hash, appended  *)
(* by append_event, checked by validate_chain, and, outside both, damaged  *)
(* by accidents: a stray UPDATE, a lost or displaced row, a bad merge.     *)
(*                                                                         *)
(* A row keeps three kinds of columns: content (event_type, worker_id,     *)
(* artifact_hash, payload_json and created_at: what the hash covers),      *)
(* label (id and operation_id: what it does not), parent and hash.         *)
(*                                                                         *)
(* SHA-256 is taken to be free of collisions: the hash of a parent hash    *)
(* and a content is the sequence of all contents hashed so far, genesis is *)
(* the empty one.  Garbage stands for anything that was never hashed into  *)
(* this ledger: a corrupted hash, or the history of another ledger.        *)
(*                                                                         *)
(* Bounds: MaxRows rows, MaxAccidents accidents.  An accident writes what  *)
(* is lying around; it never computes a hash that fits, which takes intent *)
(* and which the kernel's docstring puts out of scope.                     *)
(***************************************************************************)
EXTENDS Naturals, Sequences

CONSTANTS
  Contents,      \* what an event may say
  Garbage,       \* what no append_event ever hashed
  Labels,        \* values of the columns that the hash leaves out
  MaxRows, MaxAccidents

ASSUME GarbageAssumption == Garbage \notin Contents
ASSUME MaxRowsAssumption == MaxRows \in Nat
ASSUME MaxAccidentsAssumption == MaxAccidents \in Nat

VARIABLES
  rows,       \* ledger_events, in rowid order
  issued,     \* every event_hash that append_event returned
  recorded,   \* the contents that append_event reported recorded, in order
  accidents,  \* accidents so far
  tailLost    \* did one of them lose the last row?

vars == <<rows, issued, recorded, accidents, tailLost>>

Hashes == Seq(Contents \union {Garbage})
Row == [parent : Hashes, content : Contents, label : Labels, hash : Hashes]

Genesis == <<>>

(* compute_event_hash.                                                     *)
EventHash(parent, content) == Append(parent, content)

---------------------------------------------------------------------------
(* LedgerKernel.append_event.  It links to the row with the highest rowid, *)
(* whatever that row says, and validates nothing that is already there.    *)

HeadHashOldest ==      \* mutant: ORDER BY rowid ASC
  IF rows = <<>> THEN Genesis ELSE rows[1].hash

HeadHashUnset ==      \* mutant: no GENESIS_PARENT_HASH
  IF rows = <<>> THEN <<"none">> ELSE rows[Len(rows)].hash

HeadHash == IF rows = <<>> THEN Genesis ELSE rows[Len(rows)].hash

NewRow(parent, c, l) ==
  [parent |-> parent, content |-> c, label |-> l, hash |-> EventHash(parent, c)]

AppendEvent(c, l) ==
  /\ Len(rows) < MaxRows
  /\ rows' = Append(rows, NewRow(HeadHash, c, l))
  /\ issued' = issued \union {EventHash(HeadHash, c)}
  /\ recorded' = Append(recorded, c)
  /\ UNCHANGED <<accidents, tailLost>>

---------------------------------------------------------------------------
(* LedgerKernel.validate_chain: the first row whose parent_event_hash is   *)
(* not the hash of the row before it, or whose event_hash is not the hash  *)
(* of its own columns, ends the check.                                     *)

ExpectedParent(R, k) == IF k = 1 THEN Genesis ELSE R[k - 1].hash

MismatchOnly(R, k) ==      \* mutant: the link to the previous row is not checked
  R[k].hash = EventHash(R[k].parent, R[k].content)

LinkOnly(R, k) ==      \* mutant: the hash is not recomputed
  R[k].parent = ExpectedParent(R, k)

RowOK(R, k) ==
  /\ R[k].parent = ExpectedParent(R, k)
  /\ R[k].hash = EventHash(R[k].parent, R[k].content)

ValidHead(R) ==      \* mutant: only the newest row is checked
  R # <<>> => RowOK(R, Len(R))

Valid(R) == \A k \in 1 .. Len(R) : RowOK(R, k)

(* n rows have been checked and found good (events_checked of the result). *)
Vouched(R, n) == n \in 0 .. Len(R) /\ \A k \in 1 .. n : RowOK(R, k)

---------------------------------------------------------------------------
(* Accidents.  No code of the repository performs them: the triggers of    *)
(* schema.sql refuse UPDATE and DELETE, so these reach the file some other *)
(* way, as in test_tampering_with_payload_json_....                        *)

Accident == accidents < MaxAccidents /\ accidents' = accidents + 1

Without(R, k) == SubSeq(R, 1, k - 1) \o SubSeq(R, k + 1, Len(R))
With(R, k, r) == SubSeq(R, 1, k) \o <<r>> \o SubSeq(R, k + 1, Len(R))

AtHand == {rows[k].hash : k \in DOMAIN rows} \union {Genesis, <<Garbage>>}

StrayUpdate(k) ==
  /\ Accident
  /\ \/ \E c \in Contents : rows' = [rows EXCEPT ![k].content = c]
     \/ \E l \in Labels : rows' = [rows EXCEPT ![k].label = l]
     \/ \E h \in AtHand : rows' = [rows EXCEPT ![k].parent = h]
     \/ \E h \in AtHand : rows' = [rows EXCEPT ![k].hash = h]
  /\ UNCHANGED <<issued, recorded, tailLost>>

LostRow(k) ==
  /\ Accident
  /\ rows' = Without(rows, k)
  /\ tailLost' = (tailLost \/ k = Len(rows))
  /\ UNCHANGED <<issued, recorded>>

SwappedRows(k) ==
  /\ Accident
  /\ k < Len(rows)
  /\ rows' = [rows EXCEPT ![k] = rows[k + 1], ![k + 1] = rows[k]]
  /\ UNCHANGED <<issued, recorded, tailLost>>

(* A bad merge: a row of another ledger, or one of this ledger again.      *)
MergedRow(k) ==
  /\ Accident
  /\ Len(rows) < MaxRows
  /\ \E r \in {NewRow(<<Garbage>>, c, l) : c \in Contents, l \in Labels}
              \union {rows[m] : m \in DOMAIN rows} :
       rows' = With(rows, k, r)
  /\ UNCHANGED <<issued, recorded, tailLost>>

---------------------------------------------------------------------------

Init ==
  /\ rows = <<>>
  /\ issued = {}
  /\ recorded = <<>>
  /\ accidents = 0
  /\ tailLost = FALSE

Next ==
  \/ \E c \in Contents, l \in Labels : AppendEvent(c, l)
  \/ \E k \in DOMAIN rows : StrayUpdate(k) \/ LostRow(k) \/ SwappedRows(k)
  \/ \E k \in 0 .. Len(rows) : MergedRow(k)

Spec == Init /\ [][Next]_vars

---------------------------------------------------------------------------
(*                              Properties                                 *)

(* The possible values of every variable.                                  *)
TypeOK ==
  /\ rows \in Seq(Row)
  /\ issued \subseteq Hashes
  /\ recorded \in Seq(Contents)
  /\ accidents \in 0 .. MaxAccidents
  /\ tailLost \in BOOLEAN

ContentsUpTo(R, n) == [k \in 1 .. n |-> R[k].content]

(* validate_chain never cries wolf: rows that only append_event wrote are  *)
(* always found good.                                                      *)
IntactChainValidates == accidents = 0 => Valid(rows)

(* What validate_chain vouches for is history: however many accidents there*)
(* were and whatever was appended on top of them, the rows it has checked  *)
(* when it stops, or succeeds, are a history that append_event recorded.   *)
VouchedIsRecorded ==
  \A n \in 1 .. Len(rows) : Vouched(rows, n) => ContentsUpTo(rows, n) \in issued

(* A single accident is never silent, except the loss of the last row: the *)
(* ledger says exactly what was recorded, or validate_chain fails, and     *)
(* that stays so however much is appended afterwards.                      *)
NoSilentLoss ==
  accidents <= 1 /\ ~tailLost /\ Valid(rows)
    => ContentsUpTo(rows, Len(rows)) = recorded

(* Nothing is repaired: once validate_chain fails, no append makes it pass *)
(* again.                                                                  *)
DetectionIsPermanent ==
  [][ ~Valid(rows) /\ accidents' = accidents => ~Valid(rows') ]_vars

===========================================================================
