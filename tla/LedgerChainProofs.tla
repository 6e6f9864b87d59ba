------------------------- MODULE LedgerChainProofs -------------------------
(***************************************************************************)
(* Theorems about LedgerChain, for any contents, any number of rows and    *)
(* any number of accidents.                                                *)
(***************************************************************************)
EXTENDS LedgerChain, SequenceTheorems, WellFoundedInduction, TLAPS

LEMMA TypeInit == Init => TypeOK
<1> SUFFICES ASSUME Init PROVE TypeOK
  OBVIOUS
<1>1. <<>> \in Seq(Row) /\ <<>> \in Seq(Contents)
  OBVIOUS
<1>2. rows \in Seq(Row) /\ recorded \in Seq(Contents)
  BY <1>1 DEF Init
<1>3. issued \subseteq Hashes /\ accidents \in 0 .. MaxAccidents
  BY MaxAccidentsAssumption DEF Init
<1>4. tailLost \in BOOLEAN
  BY DEF Init
<1> QED
  BY <1>2, <1>3, <1>4 DEF TypeOK

LEMMA RowsTyped ==
  ASSUME TypeOK
  PROVE  /\ Len(rows) \in Nat
         /\ DOMAIN rows = 1 .. Len(rows)
         /\ \A k \in 1 .. Len(rows) : rows[k] \in Row
BY LenProperties, ElementOfSeq DEF TypeOK

LEMMA RowFields ==
  ASSUME NEW r \in Row
  PROVE  /\ r.parent \in Hashes
         /\ r.content \in Contents
         /\ r.label \in Labels
         /\ r.hash \in Hashes
BY DEF Row

LEMMA SomeHashes == Genesis \in Hashes /\ <<Garbage>> \in Hashes
<1>1. Genesis \in Hashes
  BY EmptySeq DEF Genesis, Hashes
<1>2. <<Garbage>> \in Hashes
  BY DEF Hashes
<1> QED
  BY <1>1, <1>2

LEMMA RowTyped ==
  ASSUME NEW p \in Hashes, NEW c \in Contents, NEW l \in Labels
  PROVE  NewRow(p, c, l) \in Row
BY DEF NewRow, Row, Hashes, EventHash

LEMMA HeadHashTyped == ASSUME TypeOK PROVE HeadHash \in Hashes
<1>1. CASE rows = <<>>
  BY <1>1, SomeHashes DEF HeadHash
<1>2. CASE rows # <<>>
  <2>1. Len(rows) \in 1 .. Len(rows)
    BY <1>2, EmptySeq DEF TypeOK
  <2> QED
    BY <1>2, <2>1, RowsTyped, RowFields DEF HeadHash
<1> QED
  BY <1>1, <1>2

LEMMA AtHandTyped == ASSUME TypeOK PROVE AtHand \subseteq Hashes
BY RowsTyped, RowFields, SomeHashes DEF AtHand

(* What a stray UPDATE of one column leaves in the row.                    *)
LEMMA UpdatedRow ==
  ASSUME TypeOK, NEW k \in DOMAIN rows, StrayUpdate(k)
  PROVE  \E r \in Row :
           /\ rows' = [rows EXCEPT ![k] = r]
           /\ r.hash = rows[k].hash \/ r.hash \in AtHand
<1>1. rows[k] \in Row
  BY RowsTyped
<1>3. CASE \E c \in Contents : rows' = [rows EXCEPT ![k].content = c]
  <2>1. PICK c \in Contents : rows' = [rows EXCEPT ![k].content = c]
    BY <1>3
  <2> DEFINE r == [rows[k] EXCEPT !.content = c]
  <2>2. r \in Row /\ r.hash = rows[k].hash
    BY <1>1 DEF Row
  <2>3. rows' = [rows EXCEPT ![k] = r]
    BY <2>1
  <2> QED
    BY <2>2, <2>3
<1>4. CASE \E l \in Labels : rows' = [rows EXCEPT ![k].label = l]
  <2>1. PICK l \in Labels : rows' = [rows EXCEPT ![k].label = l]
    BY <1>4
  <2> DEFINE r == [rows[k] EXCEPT !.label = l]
  <2>2. r \in Row /\ r.hash = rows[k].hash
    BY <1>1 DEF Row
  <2>3. rows' = [rows EXCEPT ![k] = r]
    BY <2>1
  <2> QED
    BY <2>2, <2>3
<1>5. CASE \E h \in AtHand : rows' = [rows EXCEPT ![k].parent = h]
  <2>1. PICK h \in AtHand : rows' = [rows EXCEPT ![k].parent = h]
    BY <1>5
  <2> DEFINE r == [rows[k] EXCEPT !.parent = h]
  <2>2. r \in Row /\ r.hash = rows[k].hash
    BY <1>1, AtHandTyped DEF Row
  <2>3. rows' = [rows EXCEPT ![k] = r]
    BY <2>1
  <2> QED
    BY <2>2, <2>3
<1>6. CASE \E h \in AtHand : rows' = [rows EXCEPT ![k].hash = h]
  <2>1. PICK h \in AtHand : rows' = [rows EXCEPT ![k].hash = h]
    BY <1>6
  <2> DEFINE r == [rows[k] EXCEPT !.hash = h]
  <2>2. r \in Row /\ r.hash = h
    BY <1>1, AtHandTyped DEF Row
  <2>3. rows' = [rows EXCEPT ![k] = r]
    BY <2>1
  <2> QED
    BY <2>2, <2>3
<1> QED
  BY <1>3, <1>4, <1>5, <1>6 DEF StrayUpdate

(* A row taken out or put in leaves the others as they are.                *)
LEMMA WithoutRows ==
  ASSUME NEW R \in Seq(Row), NEW k \in 1 .. Len(R)
  PROVE  /\ Without(R, k) \in Seq(Row)
         /\ Len(Without(R, k)) = Len(R) - 1
         /\ \A m \in 1 .. Len(R) - 1 : Without(R, k)[m] = IF m < k THEN R[m] ELSE R[m + 1]
         /\ \A m \in 1 .. Len(Without(R, k)) :
              \E n \in 1 .. Len(R) : Without(R, k)[m] = R[n]
<1> DEFINE A == SubSeq(R, 1, k - 1)
           B == SubSeq(R, k + 1, Len(R))
<1>1. Len(R) \in Nat /\ \A n \in 1 .. Len(R) : R[n] \in Row
  BY LenProperties, ElementOfSeq
<1>2. /\ A \in Seq(Row) /\ Len(A) = k - 1
      /\ \A i \in 1 .. k - 1 : A[i] = R[i]
  BY <1>1
<1>3. /\ B \in Seq(Row) /\ Len(B) = Len(R) - k
      /\ \A i \in 1 .. Len(R) - k : B[i] = R[k + i]
  BY <1>1
<1>4. Without(R, k) = A \o B
  BY DEF Without
<1> HIDE DEF A, B
<1>5. /\ A \o B \in Seq(Row) /\ Len(A \o B) = Len(R) - 1
      /\ \A m \in 1 .. Len(R) - 1 : (A \o B)[m] = IF m < k THEN R[m] ELSE R[m + 1]
  <2>1. /\ A \o B \in Seq(Row) /\ Len(A \o B) = Len(A) + Len(B)
        /\ \A m \in 1 .. Len(A) + Len(B) :
             (A \o B)[m] = IF m <= Len(A) THEN A[m] ELSE B[m - Len(A)]
    BY <1>2, <1>3, ConcatProperties
  <2>2. \A m \in 1 .. Len(R) - 1 : ~(m < k) =>
          m - (k - 1) \in 1 .. Len(R) - k /\ k + (m - (k - 1)) = m + 1
    BY <1>1
  <2>3. \A m \in 1 .. Len(R) - 1 : ~(m < k) => B[m - (k - 1)] = R[m + 1]
    BY <1>3, <2>2
  <2>4. Len(A) + Len(B) = Len(R) - 1
    BY <1>1, <1>2, <1>3
  <2>5. \A m \in 1 .. Len(R) - 1 : m < k => m <= Len(A) /\ A[m] = R[m]
    BY <1>1, <1>2
  <2>6. \A m \in 1 .. Len(R) - 1 : ~(m < k) => ~(m <= Len(A))
    BY <1>1, <1>2
  <2> QED
    BY <1>2, <2>1, <2>3, <2>4, <2>5, <2>6
<1>6. \A m \in 1 .. Len(A \o B) : \E n \in 1 .. Len(R) : (A \o B)[m] = R[n]
  <2> TAKE m \in 1 .. Len(A \o B)
  <2>1. CASE m < k
    <3>1. m \in 1 .. Len(R) /\ (A \o B)[m] = R[m]
      BY <1>1, <1>5, <2>1
    <3> QED
      BY <3>1
  <2>2. CASE ~(m < k)
    <3>1. m + 1 \in 1 .. Len(R) /\ (A \o B)[m] = R[m + 1]
      BY <1>1, <1>5, <2>2
    <3> QED
      BY <3>1
  <2> QED
    BY <2>1, <2>2
<1> QED
  BY <1>4, <1>5, <1>6

LEMMA WithRows ==
  ASSUME NEW R \in Seq(Row), NEW k \in 0 .. Len(R), NEW r \in Row
  PROVE  /\ With(R, k, r) \in Seq(Row)
         /\ Len(With(R, k, r)) = Len(R) + 1
         /\ \A m \in 1 .. k : With(R, k, r)[m] = R[m]
         /\ With(R, k, r)[k + 1] = r
         /\ \A m \in k + 2 .. Len(R) + 1 : With(R, k, r)[m] = R[m - 1]
         /\ \A m \in 1 .. Len(With(R, k, r)) :
              \/ With(R, k, r)[m] = r
              \/ \E n \in 1 .. Len(R) : With(R, k, r)[m] = R[n]
<1> DEFINE A == SubSeq(R, 1, k)
           B == SubSeq(R, k + 1, Len(R))
<1>1. Len(R) \in Nat /\ \A n \in 1 .. Len(R) : R[n] \in Row
  BY LenProperties, ElementOfSeq
<1>2. /\ A \in Seq(Row) /\ Len(A) = k
      /\ \A i \in 1 .. k : A[i] = R[i]
  BY <1>1
<1>3. /\ B \in Seq(Row) /\ Len(B) = Len(R) - k
      /\ \A i \in 1 .. Len(R) - k : B[i] = R[k + i]
  BY <1>1
<1> DEFINE C == A \o <<r>>
<1>4. With(R, k, r) = C \o B
  BY DEF With
<1>5. /\ C \in Seq(Row) /\ Len(C) = k + 1
      /\ \A m \in 1 .. k + 1 : C[m] = IF m <= k THEN R[m] ELSE r
  <2>1. <<r>> \in Seq(Row) /\ Len(<<r>>) = 1 /\ <<r>>[1] = r
    OBVIOUS
  <2>2. /\ C \in Seq(Row) /\ Len(C) = Len(A) + 1
        /\ \A m \in 1 .. Len(A) + 1 :
             C[m] = IF m <= Len(A) THEN A[m] ELSE <<r>>[m - Len(A)]
    <3> HIDE DEF A
    <3> QED
      BY <1>2, <2>1, ConcatProperties
  <2> HIDE DEF A, C
  <2>3. Len(A) = k /\ k \in Nat
    BY <1>1, <1>2
  <2>4. C \in Seq(Row) /\ Len(C) = k + 1
    BY <2>2, <2>3
  <2>5. ASSUME NEW m \in 1 .. k + 1, m <= k PROVE C[m] = R[m]
    <3>1. m \in 1 .. k
      BY <2>3, <2>5
    <3> QED
      BY <1>2, <2>2, <2>3, <2>5, <3>1
  <2>6. ASSUME NEW m \in 1 .. k + 1, ~(m <= k) PROVE C[m] = r
    <3>1. m = k + 1 /\ m - k = 1
      BY <2>3, <2>6
    <3> QED
      BY <2>1, <2>2, <2>3, <3>1
  <2> QED
    BY <2>4, <2>5, <2>6
<1> HIDE DEF A, B, C
<1>6. /\ C \o B \in Seq(Row) /\ Len(C \o B) = Len(R) + 1
      /\ \A m \in 1 .. Len(R) + 1 :
           (C \o B)[m] = IF m <= k + 1 THEN C[m] ELSE R[m - 1]
  <2>1. /\ C \o B \in Seq(Row) /\ Len(C \o B) = Len(C) + Len(B)
        /\ \A m \in 1 .. Len(C) + Len(B) :
             (C \o B)[m] = IF m <= Len(C) THEN C[m] ELSE B[m - Len(C)]
    BY <1>3, <1>5, ConcatProperties
  <2>2. \A m \in 1 .. Len(R) + 1 : ~(m <= k + 1) =>
          m - (k + 1) \in 1 .. Len(R) - k /\ k + (m - (k + 1)) = m - 1
    BY <1>1
  <2>3. \A m \in 1 .. Len(R) + 1 : ~(m <= k + 1) => B[m - (k + 1)] = R[m - 1]
    BY <1>3, <2>2
  <2>4. Len(C) + Len(B) = Len(R) + 1
    BY <1>1, <1>3, <1>5
  <2> QED
    BY <1>5, <2>1, <2>3, <2>4
<1>7. \A m \in 1 .. Len(C \o B) :
        (C \o B)[m] = r \/ \E n \in 1 .. Len(R) : (C \o B)[m] = R[n]
  <2> TAKE m \in 1 .. Len(C \o B)
  <2>1. CASE m <= k + 1
    <3>1. (C \o B)[m] = C[m] /\ m \in 1 .. k + 1
      BY <1>1, <1>6, <2>1
    <3>2. m <= k => m \in 1 .. Len(R) /\ C[m] = R[m]
      BY <1>1, <1>5, <3>1
    <3>3. ~(m <= k) => C[m] = r
      BY <1>5, <3>1
    <3> QED
      BY <3>1, <3>2, <3>3
  <2>2. CASE ~(m <= k + 1)
    <3>1. m - 1 \in 1 .. Len(R) /\ (C \o B)[m] = R[m - 1]
      BY <1>1, <1>6, <2>2
    <3> QED
      BY <3>1
  <2> QED
    BY <2>1, <2>2
<1>8. /\ \A m \in 1 .. k : (C \o B)[m] = R[m]
      /\ (C \o B)[k + 1] = r
      /\ \A m \in k + 2 .. Len(R) + 1 : (C \o B)[m] = R[m - 1]
  <2>1. ASSUME NEW m \in 1 .. k PROVE (C \o B)[m] = R[m]
    <3>1. m \in 1 .. Len(R) + 1 /\ m \in 1 .. k + 1 /\ m <= k + 1 /\ m <= k
      BY <1>1
    <3> QED
      BY <1>5, <1>6, <3>1
  <2>2. (C \o B)[k + 1] = r
    <3>1. k + 1 \in 1 .. Len(R) + 1 /\ k + 1 \in 1 .. k + 1 /\ k + 1 <= k + 1 /\ ~(k + 1 <= k)
      BY <1>1
    <3> QED
      BY <1>5, <1>6, <3>1
  <2>3. ASSUME NEW m \in k + 2 .. Len(R) + 1 PROVE (C \o B)[m] = R[m - 1]
    <3>1. m \in 1 .. Len(R) + 1 /\ ~(m <= k + 1)
      BY <1>1
    <3> QED
      BY <1>6, <3>1
  <2> QED
    BY <2>1, <2>2, <2>3
<1> QED
  BY <1>4, <1>6, <1>7, <1>8

LEMMA TypeNext == TypeOK /\ [Next]_vars => TypeOK'
<1> SUFFICES ASSUME TypeOK, [Next]_vars PROVE TypeOK'
  OBVIOUS
<1>1. ASSUME NEW c \in Contents, NEW l \in Labels, AppendEvent(c, l) PROVE TypeOK'
  <2>1. NewRow(HeadHash, c, l) \in Row
    BY RowTyped, HeadHashTyped
  <2>2. EventHash(HeadHash, c) \in Hashes
    BY HeadHashTyped DEF EventHash, Hashes
  <2> QED
    BY <1>1, <2>1, <2>2 DEF TypeOK, AppendEvent
<1>2. ASSUME NEW k \in DOMAIN rows, StrayUpdate(k) PROVE TypeOK'
  <2>1. PICK r \in Row : rows' = [rows EXCEPT ![k] = r]
    BY <1>2, UpdatedRow
  <2>2. rows' \in Seq(Row)
    BY <2>1, ExceptSeq, RowsTyped DEF TypeOK
  <2> QED
    BY <1>2, <2>2, MaxAccidentsAssumption DEF TypeOK, StrayUpdate, Accident
<1>3. ASSUME NEW k \in DOMAIN rows, LostRow(k) PROVE TypeOK'
  <2>1. rows' \in Seq(Row)
    BY <1>3, WithoutRows DEF TypeOK, LostRow
  <2> QED
    BY <1>3, <2>1, MaxAccidentsAssumption DEF TypeOK, LostRow, Accident
<1>4. ASSUME NEW k \in DOMAIN rows, SwappedRows(k) PROVE TypeOK'
  <2>1. rows' \in Seq(Row)
    BY <1>4 DEF TypeOK, SwappedRows
  <2> QED
    BY <1>4, <2>1, MaxAccidentsAssumption DEF TypeOK, SwappedRows, Accident
<1>5. ASSUME NEW k \in 0 .. Len(rows), MergedRow(k) PROVE TypeOK'
  <2>1. <<Garbage>> \in Hashes
    BY DEF Hashes
  <2>2. PICK r \in {NewRow(<<Garbage>>, c, l) : c \in Contents, l \in Labels}
                     \union {rows[m] : m \in DOMAIN rows} : rows' = With(rows, k, r)
    BY <1>5 DEF MergedRow
  <2>3. r \in Row
    BY <2>1, <2>2, RowTyped DEF TypeOK
  <2>4. rows' \in Seq(Row)
    BY <2>2, <2>3, WithRows DEF TypeOK
  <2> QED
    BY <1>5, <2>4, MaxAccidentsAssumption DEF TypeOK, MergedRow, Accident
<1>6. CASE UNCHANGED vars
  BY <1>6 DEF TypeOK, vars
<1> QED
  BY <1>1, <1>2, <1>3, <1>4, <1>5, <1>6 DEF Next

(* Every variable keeps to its possible values.                            *)
THEOREM TypeCorrect == Spec => []TypeOK
BY TypeInit, TypeNext, PTL DEF Spec

---------------------------------------------------------------------------
(* append_event adds one good row to whatever is there.                    *)

LEMMA AppendKeepsRows ==
  ASSUME TypeOK, NEW c \in Contents, NEW l \in Labels, AppendEvent(c, l)
  PROVE  /\ Len(rows') = Len(rows) + 1
         /\ \A k \in 1 .. Len(rows) : rows'[k] = rows[k]
         /\ rows'[Len(rows')] = NewRow(HeadHash, c, l)
BY DEF AppendEvent, TypeOK

LEMMA AppendedRowOK ==
  ASSUME TypeOK, NEW c \in Contents, NEW l \in Labels, AppendEvent(c, l)
  PROVE  /\ RowOK(rows', Len(rows'))
         /\ \A k \in 1 .. Len(rows) : RowOK(rows', k) <=> RowOK(rows, k)
<1>1. Len(rows) \in Nat
  BY DEF TypeOK
<1>2. HeadHash = ExpectedParent(rows', Len(rows'))
  <2>1. CASE rows = <<>>
    BY <2>1, AppendKeepsRows DEF HeadHash, ExpectedParent
  <2>2. CASE rows # <<>>
    <3>1. Len(rows) \in 1 .. Len(rows)
      BY <2>2, EmptySeq DEF TypeOK
    <3> QED
      BY <2>2, <3>1, AppendKeepsRows, <1>1 DEF HeadHash, ExpectedParent
  <2> QED
    BY <2>1, <2>2
<1>3. RowOK(rows', Len(rows'))
  <2>1. PICK r : r = NewRow(HeadHash, c, l)
    OBVIOUS
  <2>2. r.parent = HeadHash /\ r.hash = EventHash(HeadHash, c) /\ r.content = c
    BY <2>1 DEF NewRow
  <2> QED
    BY <2>1, <2>2, AppendKeepsRows, <1>2 DEF RowOK
<1>4. \A k \in 1 .. Len(rows) : RowOK(rows', k) <=> RowOK(rows, k)
  BY AppendKeepsRows, <1>1 DEF RowOK, ExpectedParent
<1> QED
  BY <1>3, <1>4

LEMMA AppendValid ==
  ASSUME TypeOK, NEW c \in Contents, NEW l \in Labels, AppendEvent(c, l)
  PROVE  Valid(rows') <=> Valid(rows)
BY AppendKeepsRows, AppendedRowOK DEF Valid, TypeOK

LEMMA AccidentCounts ==
  ASSUME TypeOK, [Next]_vars
  PROVE  \/ \E c \in Contents, l \in Labels : AppendEvent(c, l)
         \/ UNCHANGED vars
         \/ accidents' = accidents + 1
BY DEF Next, StrayUpdate, LostRow, SwappedRows, MergedRow, Accident

(* validate_chain finds no fault with a ledger that only append_event ever *)
(* wrote, however long it is.                                              *)
THEOREM IntactChainIsValid == Spec => []IntactChainValidates
<1>1. Init => IntactChainValidates
  BY DEF Init, IntactChainValidates, Valid
<1>2. TypeOK /\ IntactChainValidates /\ [Next]_vars => IntactChainValidates'
  <2> SUFFICES ASSUME TypeOK, IntactChainValidates, [Next]_vars, accidents' = 0
               PROVE  Valid(rows')
    BY DEF IntactChainValidates
  <2>1. CASE \E c \in Contents, l \in Labels : AppendEvent(c, l)
    BY <2>1, AppendValid DEF IntactChainValidates, AppendEvent
  <2>2. CASE UNCHANGED vars
    BY <2>2 DEF IntactChainValidates, vars
  <2> QED
    BY <2>1, <2>2, AccidentCounts DEF TypeOK
<1> QED
  BY <1>1, <1>2, TypeCorrect, PTL DEF Spec

(* A chain that validate_chain rejects is never accepted again because of  *)
(* what append_event adds to it.                                           *)
THEOREM NothingIsRepaired == Spec => DetectionIsPermanent
<1>1. TypeOK /\ [Next]_vars
        => [~Valid(rows) /\ accidents' = accidents => ~Valid(rows')]_vars
  <2> SUFFICES ASSUME TypeOK, [Next]_vars, ~Valid(rows), accidents' = accidents
               PROVE  ~Valid(rows') \/ UNCHANGED vars
    OBVIOUS
  <2> QED
    BY AccidentCounts, AppendValid DEF TypeOK
<1> QED
  BY <1>1, TypeCorrect, PTL DEF Spec, DetectionIsPermanent

---------------------------------------------------------------------------
(* What validate_chain vouches for.  The hashes in the file are hashes that*)
(* append_event issued, or genesis, or go back to garbage; and the hash of *)
(* a row that was checked spells out the contents up to it.                *)

Tainted(h) == h # <<>> /\ h[1] = Garbage

HashesKnown ==
  \A k \in 1 .. Len(rows) :
    rows[k].hash \in issued \/ rows[k].hash = Genesis \/ Tainted(rows[k].hash)

LEMMA RowsAlreadyKnown ==
  ASSUME HashesKnown, issued' = issued,
         \A m \in 1 .. Len(rows') : \E n \in 1 .. Len(rows) : rows'[m] = rows[n]
  PROVE  HashesKnown'
<1> SUFFICES ASSUME NEW m \in 1 .. Len(rows')
             PROVE  \/ rows'[m].hash \in issued
                    \/ rows'[m].hash = Genesis \/ Tainted(rows'[m].hash)
  BY DEF HashesKnown
<1>1. PICK n \in 1 .. Len(rows) : rows'[m] = rows[n]
  OBVIOUS
<1> QED
  BY <1>1 DEF HashesKnown

(* Every hash in the file was issued by append_event, or is genesis, or    *)
(* goes back to garbage: accidents move hashes, they never make new ones.  *)
THEOREM HashesStayKnown == Spec => []HashesKnown
<1>1. Init => HashesKnown
  BY DEF Init, HashesKnown
<1>2. TypeOK /\ HashesKnown /\ [Next]_vars => HashesKnown'
  <2> SUFFICES ASSUME TypeOK, HashesKnown, [Next]_vars PROVE HashesKnown'
    OBVIOUS
  <2> DEFINE Fine(h) == h \in issued \/ h = Genesis \/ Tainted(h)
  <2>1. ASSUME NEW c \in Contents, NEW l \in Labels, AppendEvent(c, l) PROVE HashesKnown'
    <3>1. rows'[Len(rows')].hash \in issued'
      BY <2>1, AppendKeepsRows DEF NewRow, AppendEvent
    <3> QED
      BY <2>1, <3>1, AppendKeepsRows DEF HashesKnown, AppendEvent, TypeOK
  <2>2. \A h \in AtHand : Fine(h)
    <3>1. Fine(Genesis) /\ Fine(<<Garbage>>)
      BY DEF Tainted
    <3> QED
      BY <3>1, RowsTyped DEF HashesKnown, AtHand
  <2>3. ASSUME NEW k \in DOMAIN rows, StrayUpdate(k) PROVE HashesKnown'
    <3>1. /\ Len(rows') = Len(rows) /\ issued' = issued
          /\ \A m \in 1 .. Len(rows) :
               rows'[m].hash = rows[m].hash \/ rows'[m].hash \in AtHand
      <4>1. PICK r \in Row :
              /\ rows' = [rows EXCEPT ![k] = r]
              /\ r.hash = rows[k].hash \/ r.hash \in AtHand
        BY <2>3, UpdatedRow
      <4>2. issued' = issued
        BY <2>3 DEF StrayUpdate
      <4> QED
        BY <4>1, <4>2, RowsTyped, ExceptSeq DEF TypeOK
    <3> QED
      BY <2>2, <3>1 DEF HashesKnown
  <2>4. ASSUME NEW k \in DOMAIN rows, LostRow(k) PROVE HashesKnown'
    <3>1. issued' = issued /\ rows' = Without(rows, k) /\ rows \in Seq(Row) /\ k \in 1 .. Len(rows)
      BY <2>4, RowsTyped DEF LostRow, TypeOK
    <3>2. \A m \in 1 .. Len(rows') : \E n \in 1 .. Len(rows) : rows'[m] = rows[n]
      BY <3>1, WithoutRows
    <3> QED
      BY <3>1, <3>2, RowsAlreadyKnown
  <2>5. ASSUME NEW k \in DOMAIN rows, SwappedRows(k) PROVE HashesKnown'
    <3>1. /\ rows' = [rows EXCEPT ![k] = rows[k + 1], ![k + 1] = rows[k]]
          /\ issued' = issued
          /\ rows \in Seq(Row) /\ k + 1 \in DOMAIN rows
      BY <2>5, LenProperties DEF SwappedRows, TypeOK
    <3>2. DOMAIN rows = 1 .. Len(rows) /\ DOMAIN rows' = DOMAIN rows /\ Len(rows') = Len(rows)
      BY <3>1
    <3>3. ASSUME NEW m \in 1 .. Len(rows') PROVE \E n \in 1 .. Len(rows) : rows'[m] = rows[n]
      <4>1. CASE m = k + 1
        BY <2>5, <3>1, <3>2, <4>1
      <4>2. CASE m # k + 1 /\ m = k
        BY <2>5, <3>1, <3>2, <4>2
      <4>3. CASE m # k + 1 /\ m # k
        BY <3>1, <3>2, <3>3, <4>3
      <4> QED
        BY <4>1, <4>2, <4>3
    <3> QED
      BY <3>1, <3>3, RowsAlreadyKnown
  <2>6. ASSUME NEW k \in 0 .. Len(rows), MergedRow(k) PROVE HashesKnown'
    <3>1. PICK r \in Row : rows' = With(rows, k, r) /\ Fine(r.hash)
      <4>1. PICK r \in {NewRow(<<Garbage>>, c, l) : c \in Contents, l \in Labels}
                         \union {rows[m] : m \in DOMAIN rows} : rows' = With(rows, k, r)
        BY <2>6 DEF MergedRow
      <4>2. Fine(r.hash)
        BY <4>1 DEF NewRow, EventHash, Tainted, HashesKnown, TypeOK
      <4>3. r \in Row
        BY <4>1, SomeHashes, RowTyped, RowsTyped
      <4> QED
        BY <4>1, <4>2, <4>3
    <3>2. rows \in Seq(Row) /\ issued' = issued
      BY <2>6 DEF MergedRow, TypeOK
    <3>3. \A m \in 1 .. Len(rows') : rows'[m] = r \/ \E n \in 1 .. Len(rows) : rows'[m] = rows[n]
      BY <2>6, <3>1, <3>2, WithRows
    <3> QED
      BY <3>1, <3>2, <3>3 DEF HashesKnown
  <2>7. CASE UNCHANGED vars
    BY <2>7 DEF HashesKnown, vars
  <2> QED
    BY <2>1, <2>3, <2>4, <2>5, <2>6, <2>7 DEF Next
<1> QED
  BY <1>1, <1>2, TypeCorrect, PTL DEF Spec

(* A set of positions that is not empty has a least member.                *)
LEMMA LeastPosition ==
  ASSUME NEW S \in SUBSET Nat, S # {}
  PROVE  \E k \in S : \A m \in S : k <= m
<1>1. PICK k \in S : \A m \in S : <<m, k>> \notin OpToRel(<, Nat)
  BY WFMin, NatLessThanWellFounded
<1>2. \A m \in S : ~(m < k)
  BY <1>1 DEF OpToRel
<1> QED
  BY <1>2

(* By the least row for which it fails: the hash of a row checked with all *)
(* the rows before it is the contents of those rows.                       *)
LEMMA VouchedHash ==
  ASSUME NEW R \in Seq(Row), NEW n \in 1 .. Len(R), Vouched(R, n)
  PROVE  R[n].hash = ContentsUpTo(R, n)
<1> DEFINE Wrong == {k \in 1 .. n : R[k].hash # ContentsUpTo(R, k)}
<1>1. SUFFICES ASSUME Wrong # {} PROVE FALSE
  OBVIOUS
<1>2. PICK k \in Wrong : \A m \in Wrong : k <= m
  <2>1. Wrong \in SUBSET Nat
    OBVIOUS
  <2> QED
    BY <1>1, <2>1, LeastPosition
<1>3. R[k].hash = Append(R[k].parent, R[k].content) /\ R[k].parent = ExpectedParent(R, k)
  BY <1>2 DEF Vouched, RowOK, EventHash
<1>4. CASE k = 1
  BY <1>2, <1>3, <1>4 DEF ExpectedParent, Genesis, ContentsUpTo, Row
<1>5. CASE k # 1
  <2>1. R[k - 1].hash = ContentsUpTo(R, k - 1)
    BY <1>2, <1>5
  <2>2. Append(ContentsUpTo(R, k - 1), R[k].content) = ContentsUpTo(R, k)
    BY <1>2, <1>5 DEF ContentsUpTo, Row
  <2> QED
    BY <1>2, <1>3, <1>5, <2>1, <2>2 DEF ExpectedParent
<1> QED
  BY <1>4, <1>5

(* Whatever accidents the file suffered, the rows that validate_chain has  *)
(* found good are a history that append_event recorded.                    *)
THEOREM VouchedHistoryWasRecorded == Spec => []VouchedIsRecorded
<1>1. TypeOK /\ HashesKnown => VouchedIsRecorded
  <2> SUFFICES ASSUME TypeOK, HashesKnown, NEW n \in 1 .. Len(rows), Vouched(rows, n)
               PROVE  ContentsUpTo(rows, n) \in issued
    BY DEF VouchedIsRecorded
  <2>1. rows[n].hash = ContentsUpTo(rows, n)
    BY VouchedHash DEF TypeOK
  <2>2. ContentsUpTo(rows, n) \in Seq(Contents) /\ Len(ContentsUpTo(rows, n)) = n
    BY RowsTyped, RowFields DEF ContentsUpTo
  <2>3. ContentsUpTo(rows, n)[1] \in Contents
    BY RowsTyped, RowFields DEF ContentsUpTo
  <2>4. ContentsUpTo(rows, n) # Genesis /\ ~Tainted(ContentsUpTo(rows, n))
    BY <2>2, <2>3, GarbageAssumption DEF Genesis, Tainted
  <2> QED
    BY <2>1, <2>4 DEF HashesKnown
<1> QED
  BY <1>1, TypeCorrect, HashesStayKnown, PTL

---------------------------------------------------------------------------
(* One accident is noticed.                                                *)

(* In a good chain every hash is as long as the history it stands for, so  *)
(* no two rows have the same place in it.                                  *)
LEMMA GoodChain ==
  ASSUME TypeOK, Valid(rows), NEW k \in 1 .. Len(rows)
  PROVE  /\ rows[k].parent = ExpectedParent(rows, k)
         /\ rows[k].hash = Append(rows[k].parent, rows[k].content)
         /\ Len(rows[k].hash) = k /\ Len(rows[k].parent) = k - 1
         /\ rows[k].hash[k] = rows[k].content /\ rows[k].content \in Contents
<1>1. rows \in Seq(Row) /\ Len(rows) \in Nat /\ rows[k] \in Row
  BY RowsTyped DEF TypeOK
<1>2. Vouched(rows, k) /\ RowOK(rows, k)
  BY <1>1 DEF Valid, Vouched
<1>3. rows[k].hash = ContentsUpTo(rows, k) /\ k \in Nat
  BY <1>1, <1>2, VouchedHash
<1>4. rows[k].hash \in Seq(Contents \union {Garbage}) /\ rows[k].parent \in Seq(Contents \union {Garbage})
  BY <1>1, RowFields DEF Hashes
<1>5. Len(rows[k].hash) = k
  <2>1. ContentsUpTo(rows, k) \in Seq(Contents) /\ DOMAIN ContentsUpTo(rows, k) = 1 .. k
    BY <1>1, <1>3, RowsTyped, RowFields DEF ContentsUpTo
  <2> QED
    BY <1>3, <2>1, LenProperties
<1>6. rows[k].hash = Append(rows[k].parent, rows[k].content)
  BY <1>2 DEF RowOK, EventHash
<1>7. Len(rows[k].parent) = k - 1
  BY <1>3, <1>4, <1>5, <1>6
<1>8. rows[k].hash[k] = rows[k].content
  BY <1>3 DEF ContentsUpTo
<1> QED
  BY <1>1, <1>2, <1>5, <1>6, <1>7, <1>8, RowFields DEF RowOK

LEMMA BrokenRow ==
  ASSUME NEW R, NEW k \in 1 .. Len(R),
         R[k].parent # ExpectedParent(R, k) \/ R[k].hash # EventHash(R[k].parent, R[k].content)
  PROVE  ~Valid(R)
BY DEF Valid, RowOK

(* What one accident does to a good chain.                                 *)
SaysTheSame == Len(rows') = Len(rows) /\ \A m \in 1 .. Len(rows) : rows'[m].content = rows[m].content

LEMMA UpdateIsNoticed ==
  ASSUME TypeOK, Valid(rows), NEW k \in DOMAIN rows, StrayUpdate(k)
  PROVE  ~Valid(rows') \/ SaysTheSame
<1>1. /\ rows \in Seq(Row) /\ DOMAIN rows = 1 .. Len(rows) /\ Len(rows) \in Nat
      /\ \A m \in 1 .. Len(rows) : rows[m] \in Row
  BY RowsTyped DEF TypeOK
<1>2. CASE \E c \in Contents : rows' = [rows EXCEPT ![k].content = c]
  <2>1. PICK c \in Contents : rows' = [rows EXCEPT ![k].content = c]
    BY <1>2
  <2>2. Len(rows') = Len(rows) /\ rows'[k] = [rows[k] EXCEPT !.content = c]
    BY <1>1, <2>1
  <2>3. CASE c = rows[k].content
    BY <1>1, <2>1, <2>3 DEF SaysTheSame, Row
  <2>4. CASE c # rows[k].content
    <3>1. rows'[k].hash = rows[k].hash /\ rows'[k].parent = rows[k].parent /\ rows'[k].content = c
      BY <1>1, <2>2 DEF Row
    <3>2. rows[k].parent \in Seq(Contents \union {Garbage})
      BY <1>1, RowFields DEF Hashes
    <3>3. Append(rows[k].parent, c) # Append(rows[k].parent, rows[k].content)
      <4>1. /\ Append(rows[k].parent, c)[Len(rows[k].parent) + 1] = c
            /\ Append(rows[k].parent, rows[k].content)[Len(rows[k].parent) + 1] = rows[k].content
        BY <3>2
      <4> QED
        BY <2>4, <4>1
    <3>4. rows'[k].hash # EventHash(rows'[k].parent, rows'[k].content)
      BY <1>1, <3>1, <3>3, GoodChain DEF EventHash
    <3> QED
      BY <1>1, <2>2, <3>4, BrokenRow
  <2> QED
    BY <2>3, <2>4
<1>3. CASE \E l \in Labels : rows' = [rows EXCEPT ![k].label = l]
  BY <1>1, <1>3 DEF SaysTheSame, Row
<1>4. CASE \E h \in AtHand : rows' = [rows EXCEPT ![k].parent = h]
  BY <1>1, <1>4 DEF SaysTheSame, Row
<1>5. CASE \E h \in AtHand : rows' = [rows EXCEPT ![k].hash = h]
  BY <1>1, <1>5 DEF SaysTheSame, Row
<1> QED
  BY <1>2, <1>3, <1>4, <1>5 DEF StrayUpdate

(* The row behind the gap is linked to the row that is gone.               *)
LEMMA LossIsNoticed ==
  ASSUME TypeOK, Valid(rows), NEW k \in DOMAIN rows, LostRow(k), ~tailLost'
  PROVE  ~Valid(rows')
<1>1. rows \in Seq(Row) /\ DOMAIN rows = 1 .. Len(rows) /\ Len(rows) \in Nat
  BY RowsTyped DEF TypeOK
<1>2. rows' = Without(rows, k) /\ k \in 1 .. Len(rows) - 1 /\ k + 1 \in 1 .. Len(rows)
  <2>1. rows' = Without(rows, k) /\ k # Len(rows)
    BY Zenon DEF LostRow
  <2> QED
    BY <1>1, <2>1
<1>3. /\ Len(rows') = Len(rows) - 1 /\ k \in 1 .. Len(rows')
      /\ rows'[k] = rows[k + 1]
      /\ k # 1 => rows'[k - 1] = rows[k - 1]
  <2>1. /\ Len(rows') = Len(rows) - 1
        /\ \A m \in 1 .. Len(rows) - 1 : rows'[m] = IF m < k THEN rows[m] ELSE rows[m + 1]
    BY <1>1, <1>2, WithoutRows
  <2>2. k # 1 => k - 1 \in 1 .. Len(rows) - 1 /\ k - 1 < k
    BY <1>1, <1>2
  <2> QED
    BY <1>1, <1>2, <2>1, <2>2
<1>4. ExpectedParent(rows', k) = ExpectedParent(rows, k)
  BY <1>3 DEF ExpectedParent
<1>5. rows'[k].parent # ExpectedParent(rows', k)
  <2>1. /\ Len(rows[k + 1].parent) = (k + 1) - 1
        /\ Len(rows[k].parent) = k - 1
    BY <1>1, <1>2, GoodChain
  <2>2. rows[k].parent = ExpectedParent(rows, k)
    BY <1>1, GoodChain
  <2> QED
    BY <1>1, <1>3, <1>4, <2>1, <2>2
<1> QED
  BY <1>3, <1>5, BrokenRow

LEMMA SwapIsNoticed ==
  ASSUME TypeOK, Valid(rows), NEW k \in DOMAIN rows, SwappedRows(k)
  PROVE  ~Valid(rows')
<1>1. rows \in Seq(Row) /\ DOMAIN rows = 1 .. Len(rows) /\ Len(rows) \in Nat
  BY RowsTyped DEF TypeOK
<1>2. k \in 1 .. Len(rows) /\ k + 1 \in 1 .. Len(rows)
  BY <1>1 DEF SwappedRows
<1>3. /\ Len(rows') = Len(rows)
      /\ rows'[k] = rows[k + 1]
      /\ k # 1 => rows'[k - 1] = rows[k - 1]
  BY <1>1, <1>2 DEF SwappedRows
<1>4. ExpectedParent(rows', k) = ExpectedParent(rows, k)
  BY <1>3 DEF ExpectedParent
<1>5. rows'[k].parent # ExpectedParent(rows', k)
  <2>1. /\ Len(rows[k + 1].parent) = (k + 1) - 1
        /\ Len(rows[k].parent) = k - 1
    BY <1>1, <1>2, GoodChain
  <2>2. rows[k].parent = ExpectedParent(rows, k)
    BY <1>1, GoodChain
  <2> QED
    BY <1>1, <1>3, <1>4, <2>1, <2>2
<1> QED
  BY <1>2, <1>3, <1>5, BrokenRow

(* A row of another ledger does not link to this one; a row of this one has*)
(* its place already, wherever it is put.                                  *)
LEMMA MergeIsNoticed ==
  ASSUME TypeOK, Valid(rows), NEW k \in 0 .. Len(rows), MergedRow(k)
  PROVE  ~Valid(rows')
<1>1. rows \in Seq(Row) /\ DOMAIN rows = 1 .. Len(rows) /\ Len(rows) \in Nat /\ k \in Nat
  BY RowsTyped DEF TypeOK
<1>2. PICK r : /\ rows' = With(rows, k, r)
               /\ \/ \E c \in Contents, l \in Labels : r = NewRow(<<Garbage>>, c, l)
                  \/ \E m \in 1 .. Len(rows) : r = rows[m]
  BY <1>1 DEF MergedRow
<1>3. r \in Row
  BY <1>1, <1>2, SomeHashes, RowTyped, RowsTyped
<1>4. /\ Len(rows') = Len(rows) + 1 /\ k + 1 \in 1 .. Len(rows')
      /\ rows'[k + 1] = r
      /\ k \in 1 .. Len(rows) => rows'[k] = rows[k]
      /\ k < Len(rows) => k + 2 \in 1 .. Len(rows') /\ rows'[k + 2] = rows[k + 1]
  <2>1. /\ Len(rows') = Len(rows) + 1
        /\ \A m \in 1 .. k : rows'[m] = rows[m]
        /\ rows'[k + 1] = r
        /\ \A m \in k + 2 .. Len(rows) + 1 : rows'[m] = rows[m - 1]
    BY <1>1, <1>2, <1>3, WithRows
  <2>2. k < Len(rows) => k + 2 \in k + 2 .. Len(rows) + 1 /\ (k + 2) - 1 = k + 1
    BY <1>1
  <2>3. k + 1 \in 1 .. Len(rows) + 1 /\ (k < Len(rows) => k + 2 \in 1 .. Len(rows) + 1)
    BY <1>1
  <2> QED
    BY <1>1, <2>1, <2>2, <2>3
<1> DEFINE last == IF k = 0 THEN Genesis ELSE rows[k].hash
<1>5. ExpectedParent(rows', k + 1) = last
  BY <1>1, <1>4 DEF ExpectedParent
<1>6. Len(last) = k
  BY <1>1, GoodChain DEF Genesis
<1>7. ASSUME NEW c \in Contents, NEW l \in Labels, r = NewRow(<<Garbage>>, c, l) PROVE ~Valid(rows')
  <2>1. r.parent = <<Garbage>>
    BY <1>7 DEF NewRow
  <2>2. last # <<Garbage>>
    <3>1. CASE k = 1
      <4>1. 1 \in 1 .. Len(rows) /\ last = rows[1].hash
        BY <1>1, <3>1
      <4>2. rows[1].hash[1] \in Contents
        BY <4>1, GoodChain
      <4> HIDE DEF last
      <4> QED
        BY <4>1, <4>2, GarbageAssumption
    <3>2. CASE k # 1
      <4>1. Len(<<Garbage>>) = 1
        OBVIOUS
      <4> HIDE DEF last
      <4> QED
        BY <1>6, <3>2, <4>1
    <3> QED
      BY <3>1, <3>2
  <2> QED
    BY <1>4, <1>5, <2>1, <2>2, BrokenRow
<1>8. ASSUME NEW m \in 1 .. Len(rows), r = rows[m], Valid(rows') PROVE FALSE
  <2>1. r.parent = last
    <3>1. RowOK(rows', k + 1)
      BY <1>4, <1>8 DEF Valid
    <3> HIDE DEF last
    <3> QED
      BY <1>4, <1>5, <3>1 DEF RowOK
  <2>2. m = k + 1
    <3>1. Len(r.parent) = m - 1
      BY <1>8, GoodChain
    <3> HIDE DEF last
    <3> QED
      BY <1>1, <1>6, <2>1, <3>1
  <2>3. k < Len(rows)
    BY <1>1, <2>2
  <2>4. ExpectedParent(rows', k + 2) = r.hash
    BY <1>1, <1>4 DEF ExpectedParent
  <2>5. rows[k + 1].parent = r.hash
    <3>1. RowOK(rows', k + 2)
      BY <1>4, <1>8, <2>3 DEF Valid
    <3> QED
      BY <1>4, <2>3, <2>4, <3>1 DEF RowOK
  <2>6. Len(rows[k + 1].parent) = k /\ Len(r.hash) = k + 1
    BY <1>1, <1>8, <2>2, GoodChain
  <2> QED
    BY <1>1, <2>5, <2>6
<1> QED
  BY <1>2, <1>7, <1>8

(* The ledger says what was recorded, until an accident that shows.        *)
SaysRecorded == ContentsUpTo(rows, Len(rows)) = recorded

OneAccident == accidents <= 1 /\ ~tailLost => ~Valid(rows) \/ SaysRecorded

IntactSays == accidents = 0 => SaysRecorded

LEMMA AppendSays ==
  ASSUME TypeOK, SaysRecorded, NEW c \in Contents, NEW l \in Labels, AppendEvent(c, l)
  PROVE  SaysRecorded'
<1>1. /\ rows \in Seq(Row) /\ Len(rows) \in Nat /\ recorded \in Seq(Contents)
      /\ recorded' = Append(recorded, c)
  BY RowsTyped DEF TypeOK, AppendEvent
<1>2. recorded = [k \in 1 .. Len(rows) |-> rows[k].content]
  BY DEF SaysRecorded, ContentsUpTo
<1>3. Len(recorded) = Len(rows) /\ \A k \in 1 .. Len(rows) : recorded[k] = rows[k].content
  BY <1>1, <1>2, LenProperties
<1>4. recorded' = [k \in 1 .. Len(rows) + 1 |-> IF k = Len(rows) + 1 THEN c ELSE rows[k].content]
  <2>1. Append(recorded, c)
          = [k \in 1 .. Len(recorded) + 1 |-> IF k = Len(recorded) + 1 THEN c ELSE recorded[k]]
    <3> DEFINE A == Append(recorded, c)
               n == Len(recorded)
    <3>1. /\ A \in Seq(Contents) /\ Len(A) = n + 1 /\ A[n + 1] = c
          /\ \A k \in 1 .. n : A[k] = recorded[k]
      BY <1>1, AppendProperties
    <3>2. \A k \in 1 .. n + 1 : k = n + 1 \/ k \in 1 .. n
      BY <1>1, LenProperties
    <3> HIDE DEF A, n
    <3>3. A \in [1 .. n + 1 -> Contents]
      BY <3>1, LenProperties
    <3>4. \A k \in 1 .. n + 1 : A[k] = IF k = n + 1 THEN c ELSE recorded[k]
      BY <3>1, <3>2
    <3> QED
      BY <3>3, <3>4 DEF A, n
  <2>2. \A k \in 1 .. Len(rows) + 1 : k # Len(rows) + 1 => recorded[k] = rows[k].content
    BY <1>1, <1>3
  <2> QED
    BY <1>1, <1>3, <2>1, <2>2
<1>5. /\ Len(rows') = Len(rows) + 1
      /\ \A k \in 1 .. Len(rows) + 1 :
           rows'[k].content = IF k = Len(rows) + 1 THEN c ELSE rows[k].content
  <2>1. NewRow(HeadHash, c, l).content = c
    BY DEF NewRow
  <2>2. /\ Len(rows') = Len(rows) + 1
        /\ \A k \in 1 .. Len(rows) : rows'[k] = rows[k]
        /\ rows'[Len(rows) + 1].content = c
    BY <2>1, AppendKeepsRows
  <2>3. \A k \in 1 .. Len(rows) + 1 : k # Len(rows) + 1 => k \in 1 .. Len(rows)
    BY <1>1
  <2> QED
    BY <2>2, <2>3
<1> QED
  BY <1>4, <1>5 DEF SaysRecorded, ContentsUpTo

LEMMA NothingElseSaid ==
  ASSUME SaysRecorded, SaysTheSame, recorded' = recorded PROVE SaysRecorded'
BY DEF SaysRecorded, SaysTheSame, ContentsUpTo

LEMMA OneAccidentNext ==
  TypeOK /\ IntactChainValidates /\ IntactSays /\ OneAccident /\ [Next]_vars
    => (IntactSays /\ OneAccident)'
<1> SUFFICES ASSUME TypeOK, IntactChainValidates, IntactSays, OneAccident, [Next]_vars
             PROVE  (IntactSays /\ OneAccident)'
  OBVIOUS
<1>1. accidents \in Nat /\ tailLost \in BOOLEAN
  BY MaxAccidentsAssumption DEF TypeOK
<1>2. CASE \E c \in Contents, l \in Labels : AppendEvent(c, l)
  <2>1. UNCHANGED <<accidents, tailLost>>
    BY <1>2 DEF AppendEvent
  <2> QED
    BY <1>2, <2>1, AppendSays, AppendValid DEF IntactSays, OneAccident
<1>3. CASE UNCHANGED vars
  BY <1>3 DEF vars, IntactSays, OneAccident, SaysRecorded
<1>4. CASE \/ \E k \in DOMAIN rows : StrayUpdate(k) \/ LostRow(k) \/ SwappedRows(k)
           \/ \E k \in 0 .. Len(rows) : MergedRow(k)
  <2>1. accidents' = accidents + 1 /\ recorded' = recorded
    BY <1>4 DEF StrayUpdate, LostRow, SwappedRows, MergedRow, Accident
  <2>2. IntactSays'
    BY <1>1, <2>1 DEF IntactSays
  <2>3. ASSUME accidents' <= 1, ~tailLost' PROVE ~Valid(rows') \/ SaysRecorded'
    <3>1. Valid(rows) /\ SaysRecorded
      BY <1>1, <2>1, <2>3 DEF IntactChainValidates, IntactSays
    <3>2. ~Valid(rows') \/ SaysTheSame
      BY <1>4, <2>3, <3>1, UpdateIsNoticed, LossIsNoticed, SwapIsNoticed, MergeIsNoticed
    <3> QED
      BY <2>1, <3>1, <3>2, NothingElseSaid
  <2> QED
    BY <2>2, <2>3 DEF OneAccident
<1> QED
  BY <1>2, <1>3, <1>4 DEF Next

(* One accident to the file is never silent, except the loss of the newest *)
(* row: either validate_chain fails from then on, or the ledger still says *)
(* exactly what was recorded.                                              *)
THEOREM OneAccidentShows == Spec => []NoSilentLoss
<1>1. Init => IntactSays /\ OneAccident
  <2>1. Init => SaysRecorded
    BY DEF Init, SaysRecorded, ContentsUpTo
  <2> QED
    BY <2>1 DEF IntactSays, OneAccident
<1>2. OneAccident => NoSilentLoss
  BY DEF OneAccident, NoSilentLoss, SaysRecorded
<1> QED
  BY <1>1, <1>2, OneAccidentNext, IntactChainIsValid, TypeCorrect, PTL DEF Spec

===========================================================================
