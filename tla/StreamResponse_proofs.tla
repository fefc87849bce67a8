------------------------ MODULE StreamResponse_proofs ------------------------
(***************************************************************************)
(* The safety properties of StreamResponse for streams of any length, any  *)
(* number of provider calls and of database failures.                      *)
(***************************************************************************)
EXTENDS StreamResponse, TLAPS

(* Until the client has been sent something, another call may start over;  *)
(* from then on what it has been sent is what the adapter has assembled.   *)
TextInv ==
    /\ at \in {"admit", "open"} => ~Started
    /\ at \in {"read", "usage", "audit", "completed"} => sent = assembled

(* The row is written by a request whose stream came to its end, and       *)
(* nothing is read or called after that.                                   *)
RowInv ==
    /\ at \in {"admit", "open", "read", "usage"} => row = "none"
    /\ at \in {"audit", "completed"} => row = Row
    /\ at \in {"read", "usage", "audit"} => ~cut
    /\ at \in {"usage", "audit"} => ~Incomplete /\ ~IsBlank(assembled)
    /\ at = "completed" => audited

(* Where a stream can be aborted: at its end, or at one of the inserts,    *)
(* and nothing is audited before there is a row.                           *)
AbortInv ==
    /\ row # "none" => ~idReused
    /\ at \in {"admit", "open", "read", "usage"} => ~audited
    /\ AbortedStreamIsWhole

StreamInv == TypeOK /\ TextInv /\ RowInv /\ BilledStreamIsWhole /\ AbortInv

-----------------------------------------------------------------------------
(* The chunks of a dialect leave an adapter with token counts.             *)
LEMMA TokensAreCounts ==
    ASSUME TypeOK, NEW c
    PROVE  TokensAfter(c) \in SUBSET Counts
  BY DEF TypeOK, TokensAfter, Counts

LEMMA InitHasInv == ASSUME Init PROVE StreamInv
<1>1. TypeOK
  <2>1. at \in Awaits /\ sent \in Seq(Pieces) /\ assembled \in Seq(Pieces)
    BY DEF Init, Awaits, Pieces
  <2>2. chunks \in 0..MaxChunks /\ tries \in 0..MaxTries /\ dbFaults \in 0..MaxDbFaults
    BY StreamAssumption DEF Init
  <2>3. hasId \in BOOLEAN /\ cut \in BOOLEAN /\ audited \in BOOLEAN /\ idReused \in BOOLEAN
    BY Zenon DEF Init
  <2>4. dialect \in DOMAIN Chunks /\ tokens \in SUBSET Counts /\ row = "none"
    BY Zenon DEF Init
  <2> QED
    BY <2>1, <2>3, <2>4, <2>2 DEF TypeOK
<1>2. TextInv /\ RowInv /\ BilledStreamIsWhole /\ AbortInv
  BY DEF Init, TextInv, RowInv, BilledStreamIsWhole, AbortInv, AbortedStreamIsWhole, Started
<1> QED
  BY <1>1, <1>2 DEF StreamInv

(* Reading, up to the end of the stream, bills nothing.                    *)
LEMMA ReadKeepsInv ==
    ASSUME StreamInv,
           Cut \/ EndOfStream \/ \E c \in UNION {Chunks[d] : d \in DOMAIN Chunks} : Chunk(c)
    PROVE  StreamInv'
<1> USE DEF StreamInv, Raise, Escape, Started
<1>1. CASE Cut
  <2>1. TypeOK'
    BY <1>1 DEF Cut, TypeOK, stores, Awaits, Endings, Rejections
  <2> QED
    BY <1>1, <2>1
       DEF Cut, TypeOK, TextInv, RowInv, BilledStreamIsWhole, AbortInv, AbortedStreamIsWhole,
           stores
<1>2. CASE EndOfStream
  <2>1. TypeOK'
    BY <1>2 DEF EndOfStream, Finish, TypeOK, adapter, stores, Awaits, Endings, Rejections
  <2> QED
    BY <1>2, <2>1
       DEF EndOfStream, Finish, Incomplete, IsBlank, TypeOK, TextInv, RowInv,
           BilledStreamIsWhole, AbortInv, AbortedStreamIsWhole, adapter, stores
<1>3. ASSUME NEW c \in UNION {Chunks[d] : d \in DOMAIN Chunks}, Chunk(c)
      PROVE  StreamInv'
  <2>1. /\ at = "read" /\ row = "none" /\ ~cut
        /\ UNCHANGED <<idReused, dialect, cut, row, audited, tries, dbFaults>>
    BY <1>3 DEF Chunk, stores, RowInv
  <2>2. tokens' \in SUBSET Counts /\ hasId' \in BOOLEAN /\ chunks' \in 0..MaxChunks
    BY <1>3, TokensAreCounts, StreamAssumption DEF Chunk, TypeOK
  <2>3. \/ Raise /\ UNCHANGED <<assembled, sent>>
        \/ /\ c \in Pieces
           /\ assembled' = Append(assembled, c) /\ sent' = Append(sent, c) /\ at' = "read"
        \/ UNCHANGED <<at, assembled, sent>>
    BY <1>3, <2>1 DEF Chunk
  <2>4. assembled' \in Seq(Pieces) /\ sent' \in Seq(Pieces)
    <3>1. assembled \in Seq(Pieces) /\ sent \in Seq(Pieces)
      BY DEF TypeOK
    <3>2. ASSUME c \in Pieces
          PROVE  Append(assembled, c) \in Seq(Pieces) /\ Append(sent, c) \in Seq(Pieces)
      BY <3>1, <3>2
    <3> QED
      BY <2>3, <3>1, <3>2
  <2>5. at' \in {"read", "open", "unavailable", "error"}
    BY <2>1, <2>3
  <2>6. TypeOK'
    BY <2>1, <2>2, <2>4, <2>5 DEF TypeOK, Awaits, Endings, Rejections
  <2>7. TextInv'
    BY <2>1, <2>3, <2>5 DEF TextInv
  <2> QED
    BY <2>1, <2>5, <2>6, <2>7
       DEF RowInv, BilledStreamIsWhole, AbortInv, AbortedStreamIsWhole
<1> QED
  BY <1>1, <1>2, <1>3

(* The two inserts: only a stream that was read to its end comes here.     *)
LEMMA InsertKeepsInv ==
    ASSUME StreamInv, RecordUsage \/ RecordUsageFails \/ Audit \/ AuditFails
    PROVE  StreamInv'
<1> USE DEF StreamInv, Started, Escape, Row, adapter
<1>1. CASE RecordUsage
  BY <1>1
     DEF RecordUsage, TypeOK, TextInv, RowInv, BilledStreamIsWhole, AbortInv,
         AbortedStreamIsWhole, Awaits, Rejections, Incomplete, IsBlank
<1>2. CASE RecordUsageFails
  <2>1. at = "usage" /\ at' = "aborted"
    BY <1>2 DEF RecordUsageFails, TextInv, RowInv, IsBlank, TypeOK
  <2>2. dbFaults' \in 0..MaxDbFaults
    BY <1>2, StreamAssumption DEF RecordUsageFails, TypeOK
  <2>3. UNCHANGED <<idReused, adapter, sent, audited, tries>>
        /\ row' \in {"none", "uncounted", "counted"}
    BY <1>2 DEF RecordUsageFails, TypeOK
  <2>4. TypeOK'
    BY <2>1, <2>2, <2>3 DEF TypeOK, Endings
  <2>5. /\ sent = assembled /\ ~cut /\ ~Incomplete /\ ~IsBlank(assembled)
        /\ row = "none" /\ ~audited
    BY <2>1 DEF TextInv, RowInv, AbortInv
  <2>6. row' # "none" => ~idReused /\ dbFaults' > 0
    BY <1>2, <2>5, <2>2 DEF RecordUsageFails, TypeOK
  <2>7. idReused \/ dbFaults' > 0
    BY <1>2, <2>2 DEF RecordUsageFails, TypeOK
  <2>8. AbortInv'
    BY <2>1, <2>3, <2>5, <2>6, <2>7
       DEF AbortInv, AbortedStreamIsWhole, Incomplete, IsBlank
  <2> QED
    BY <2>1, <2>3, <2>4, <2>8 DEF TextInv, RowInv, BilledStreamIsWhole, Incomplete, Rejections
<1>3. CASE Audit
  BY <1>3
     DEF Audit, TypeOK, TextInv, RowInv, BilledStreamIsWhole, AbortInv, AbortedStreamIsWhole,
         Endings, Rejections, Incomplete
<1>4. CASE AuditFails
  <2>1. at = "audit" /\ at' = "aborted"
    BY <1>4 DEF AuditFails, TextInv, RowInv, IsBlank, TypeOK
  <2>2. dbFaults' \in 0..MaxDbFaults
    BY <1>4, StreamAssumption DEF AuditFails, TypeOK
  <2>3. UNCHANGED <<idReused, adapter, sent, row, tries>> /\ audited' \in BOOLEAN
    BY <1>4 DEF AuditFails
  <2>4. TypeOK'
    BY <2>1, <2>2, <2>3 DEF TypeOK, Endings
  <2>5. /\ sent = assembled /\ ~cut /\ ~Incomplete /\ ~IsBlank(assembled)
        /\ row = Row /\ ~idReused
    BY <2>1 DEF TextInv, RowInv, AbortInv
  <2>6. dbFaults' > 0
    BY <1>4, <2>2 DEF AuditFails, TypeOK
  <2>7. AbortInv'
    BY <2>1, <2>3, <2>5, <2>6 DEF AbortInv, AbortedStreamIsWhole, Incomplete, IsBlank
  <2> QED
    BY <2>1, <2>3, <2>4, <2>7 DEF TextInv, RowInv, BilledStreamIsWhole, Incomplete, Rejections
<1> QED
  BY <1>1, <1>3, <1>2, <1>4

(* A cancelled request may still have committed what it was committing.    *)
LEMMA CancelKeepsInv ==
    ASSUME StreamInv, NEW ending \in {"closed", "crashed"}, at \in Awaits, Cancel(ending)
    PROVE  StreamInv'
<1> USE DEF StreamInv, Cancel, adapter, Row
<1>1. TypeOK'
  BY DEF TypeOK, Endings
<1>2. TextInv' /\ RowInv'
  BY DEF TextInv, RowInv
<1>3. BilledStreamIsWhole'
  BY DEF BilledStreamIsWhole, RowInv, Incomplete, Rejections, Awaits
<1>4. AbortInv'
  BY DEF AbortInv, AbortedStreamIsWhole, RowInv, Awaits
<1> QED
  BY <1>1, <1>2, <1>3, <1>4

LEMMA StepKeepsInv == ASSUME StreamInv, [Next]_vars PROVE StreamInv'
<1>1. CASE Admit
  BY <1>1
     DEF Admit, StreamInv, TypeOK, TextInv, RowInv, BilledStreamIsWhole, AbortInv,
         AbortedStreamIsWhole, Started, Awaits, Endings, Rejections, adapter, stores
<1>2. CASE Open
  <2>1. sent = <<>> /\ assembled' = <<>> /\ UNCHANGED <<sent, stores>> /\ row = "none"
    BY <1>2 DEF Open, StreamInv, TextInv, RowInv, Started
  <2>2. at' = "read" /\ ~cut' /\ tokens' = {} /\ ~hasId' /\ chunks' = 0
    BY <1>2 DEF Open
  <2>3. TypeOK'
    <3>1. tries' \in 0..MaxTries /\ chunks' \in 0..MaxChunks
      BY <1>2, StreamAssumption DEF Open, StreamInv, TypeOK
    <3>2. assembled' \in Seq(Pieces)
      BY <2>1 DEF Pieces
    <3>3. hasId' \in BOOLEAN /\ cut' \in BOOLEAN /\ dialect' \in DOMAIN Chunks
      BY <1>2, Zenon DEF Open
    <3>4. UNCHANGED <<idReused, sent, row, audited, dbFaults>>
      BY <1>2 DEF Open, stores
    <3> QED
      BY <2>2, <3>2, <3>4, <3>1, <3>3 DEF StreamInv, TypeOK, Awaits
  <2> QED
    BY <1>2, <2>1, <2>2, <2>3
       DEF Open, StreamInv, TextInv, RowInv, BilledStreamIsWhole, AbortInv,
           AbortedStreamIsWhole, stores
<1>3. CASE OpenRefused
  BY <1>3
     DEF OpenRefused, StreamInv, TypeOK, TextInv, RowInv, BilledStreamIsWhole, AbortInv,
         AbortedStreamIsWhole, Started, Endings, Rejections, adapter, stores
<1>4. CASE Disconnect \/ Crash
  BY <1>4, CancelKeepsInv DEF Disconnect, Crash
<1>5. CASE UNCHANGED vars
  BY <1>5
     DEF vars, adapter, stores, StreamInv, TypeOK, TextInv, RowInv, BilledStreamIsWhole,
         AbortInv, AbortedStreamIsWhole, Started, Row, Incomplete, IsBlank
<1> QED
  BY <1>1, <1>3, <1>5, <1>2, <1>4, ReadKeepsInv, InsertKeepsInv DEF Next, Idle

-----------------------------------------------------------------------------
(* The inductive invariant.                                                *)
THEOREM StreamInvariance == Spec => []StreamInv
<1>1. Init => StreamInv
  BY InitHasInv
<1>2. StreamInv /\ [Next]_vars => StreamInv'
  BY StepKeepsInv
<1> QED
  BY <1>1, <1>2, PTL DEF Spec

(* Every reachable state of the stream is well typed.                      *)
THEOREM StreamTypeCorrect == Spec => []TypeOK
<1>1. StreamInv => TypeOK
  BY DEF StreamInv
<1> QED
  BY <1>1, StreamInvariance, PTL

(* response.completed carries what was streamed, and comes after the usage *)
(* row and the audit event.                                                *)
THEOREM CompletedAlwaysStreamedAndBilled == Spec => []CompletedIsStreamedAndBilled
<1>1. StreamInv => CompletedIsStreamedAndBilled
  BY DEF StreamInv, TextInv, RowInv, CompletedIsStreamedAndBilled
<1> QED
  BY <1>1, StreamInvariance, PTL

(* No stream is billed that broke off or ended with an error frame.        *)
THEOREM BilledAlwaysWhole == Spec => []BilledStreamIsWhole
<1>1. StreamInv => BilledStreamIsWhole
  BY DEF StreamInv
<1> QED
  BY <1>1, StreamInvariance, PTL

(* A started stream that ends without a last event was whole, and is       *)
(* billed only after a database failure.                                   *)
THEOREM AbortedAlwaysWhole == Spec => []AbortedStreamIsWhole
<1>1. StreamInv => AbortedStreamIsWhole
  BY DEF StreamInv, AbortInv
<1> QED
  BY <1>1, StreamInvariance, PTL
=============================================================================
