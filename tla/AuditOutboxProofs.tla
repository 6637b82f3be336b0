------------------------- MODULE AuditOutboxProofs -------------------------
(***************************************************************************)
(* Proofs about AuditOutbox, for any number of traces, events, crashes,    *)
(* faults and replacements and any batch size.                             *)
(***************************************************************************)
EXTENDS AuditOutbox, SequenceTheorems, TLAPS

(***************************************************************************)
(* A record FileChain.Log appends is a Record.                             *)
(***************************************************************************)
LEMMA NewRecordType ==
    ASSUME TypeOK, NEW trace \in Traces
    PROVE  NewRecord(trace) \in Record /\ NewRecord(trace).event = events + 1
BY DEF TypeOK, NewRecord, Record

(***************************************************************************)
(* What ShipOnce reads is a stretch of the journal after Start.            *)
(***************************************************************************)
LEMMA ChunkProperties ==
    ASSUME TypeOK, cursor # Corrupt
    PROVE  /\ Start \in Nat
           /\ Start <= Len(lines)
           /\ Chunk \in Seq(Record)
           /\ Start + Len(Chunk) <= Len(lines)
           /\ \A k \in 1..Len(Chunk) : Chunk[k] = lines[Start + k]
<1>1. lines \in Seq(Record) /\ Len(lines) \in Nat /\ cursor \in Nat /\ BatchSize \in Nat
  BY OutboxAssumption DEF TypeOK
<1>2. Start \in Nat /\ Start <= Len(lines)
  BY <1>1 DEF Start
<1> DEFINE n == Lesser(Start + BatchSize, Len(lines))
<1>3. n \in Nat /\ n <= Len(lines)
  BY <1>1, <1>2 DEF Lesser
<1>4. \A i \in (Start + 1)..n : lines[i] \in Record
  BY <1>1, <1>2, <1>3, ElementOfSeq
<1> HIDE DEF n
<1>5. /\ SubSeq(lines, Start + 1, n) \in Seq(Record)
      /\ Len(SubSeq(lines, Start + 1, n)) = IF Start + 1 <= n THEN n - (Start + 1) + 1 ELSE 0
      /\ \A k \in 1..(n - (Start + 1) + 1) :
            SubSeq(lines, Start + 1, n)[k] = lines[(Start + 1) + k - 1]
  BY <1>2, <1>3, <1>4, SubSeqProperties
<1>6. Chunk = SubSeq(lines, Start + 1, n)
  BY DEF Chunk, n
<1>7. Chunk \in Seq(Record) /\ Len(Chunk) = IF Start + 1 <= n THEN n - Start ELSE 0
  BY <1>2, <1>3, <1>5, <1>6
<1>8. Start + Len(Chunk) <= Len(lines)
  BY <1>1, <1>2, <1>3, <1>7
<1>9. \A k \in 1..Len(Chunk) : Chunk[k] = lines[Start + k]
  BY <1>2, <1>3, <1>5, <1>6, <1>7
<1> QED BY <1>2, <1>7, <1>8, <1>9

(***************************************************************************)
(* The variables keep their types through every handler.                   *)
(***************************************************************************)
LEMMA InitType == Init => TypeOK
<1>1. <<>> \in Seq(Record)
  BY EmptySeq
<1> SUFFICES ASSUME Init PROVE TypeOK
  OBVIOUS
<1>2. lines \in Seq(Record) /\ batch \in Seq(Record) /\ (tail = "whole" => last \in Record)
  BY <1>1 DEF Init
<1> QED BY <1>2 DEF Init, TypeOK

LEMMA NextType == TypeOK /\ [Next]_vars => TypeOK'
<1> SUFFICES ASSUME TypeOK, [Next]_vars PROVE TypeOK'
  OBVIOUS
<1> USE DEF TypeOK, diskVars, chainVars, shipVars
<1>1. CASE NewFileChain
  <2> DEFINE all == IF tail = "whole" THEN Append(lines, last) ELSE lines
  <2>1. all \in Seq(Record) /\ Len(all) \in Nat
    BY AppendProperties
  <2>2. all # <<>> => all[Len(all)] \in Record
    BY <2>1, ElementOfSeq, EmptySeq
  <2>3. sequence' \in Nat /\ head' \in Nat
    BY <1>1, <2>1, <2>2 DEF NewFileChain, Record
  <2> QED BY <1>1, <2>3 DEF NewFileChain
<1>2. ASSUME NEW trace \in Traces, Log(trace) PROVE TypeOK'
  BY <1>2, NewRecordType, AppendProperties DEF Log, Logging, WriteLine
<1>3. ASSUME NEW trace \in Traces, SyncFails(trace) PROVE TypeOK'
  BY <1>3, NewRecordType, AppendProperties DEF SyncFails, Logging, WriteLine, Fault
<1>4. ASSUME NEW trace \in Traces, WriteFails(trace) PROVE TypeOK'
  BY <1>4, NewRecordType DEF WriteFails, Logging, Fault
<1>5. CASE ReadBatch
  BY <1>5, ChunkProperties DEF ReadBatch
<1>6. CASE Publish \/ PublishFails
  <2>1. \A i \in DOMAIN batch : batch[i] \in Record
    BY LenProperties, ElementOfSeq
  <2>2. \A indices \in SUBSET DOMAIN batch : Events(indices) \subseteq Nat
    BY <2>1 DEF Events, Record
  <2>3. evidence' \subseteq Nat
    BY <1>6, <2>2 DEF Publish, PublishFails
  <2>4. <<>> \in Seq(Record)
    BY EmptySeq
  <2>5. CASE Publish
    BY <2>3, <2>5 DEF Publish, publishUnchanged
  <2>6. CASE PublishFails
    BY <2>3, <2>4, <2>6 DEF PublishFails, publishUnchanged
  <2> QED BY <1>6, <2>5, <2>6
<1>7. CASE writeCursor \/ writeCursorFails
  <2>1. <<>> \in Seq(Record)
    BY EmptySeq
  <2>2. CASE writeCursor
    BY <2>1, <2>2 DEF writeCursor, cursorUnchanged
  <2>3. CASE writeCursorFails
    BY <2>1, <2>3 DEF writeCursorFails, cursorUnchanged, Fault
  <2> QED BY <1>7, <2>2, <2>3
<1>8. CASE Crash \/ ReplaceJournal
  <2>1. <<>> \in Seq(Record)
    BY EmptySeq
  <2>2. CASE Crash
    <3>1. batch' \in Seq(Record) /\ batch' = <<>> /\ spc' = "idle"
      BY <2>1, <2>2 DEF Crash
    <3>2. UNCHANGED <<lines, tail, last, sequence, head, lastErr, cursor, next, evidence, logged,
                      events, faults, replaced>>
      BY <2>2 DEF Crash
    <3>3. up' = FALSE /\ crashes' = crashes + 1
      BY <2>2, Zenon DEF Crash
    <3>4. up' \in BOOLEAN
      BY <3>3, Zenon
    <3>5. crashes' \in Nat
      BY <3>3
    <3> QED BY <3>1, <3>2, <3>4, <3>5
  <2>3. CASE ReplaceJournal
    <3>1. lines' \in Seq(Record) /\ tail' = "none"
      BY <2>1, <2>3 DEF ReplaceJournal
    <3>2. /\ UNCHANGED <<up, sequence, head, lastErr, cursor, spc, batch, next, evidence, logged,
                        events, crashes, faults>>
          /\ replaced' \in Nat
      BY <2>3 DEF ReplaceJournal
    <3>3. spc' = "idle" => batch' = <<>>
      BY <3>2
    <3>4. tail' \in {"none", "torn", "whole"} /\ (tail' = "whole" => last' \in Record)
      BY <3>1
    <3> QED BY <3>1, <3>2, <3>3, <3>4
  <2> QED BY <1>8, <2>2, <2>3
<1>9. CASE UNCHANGED vars
  BY <1>9 DEF vars
<1> QED BY <1>1, <1>2, <1>3, <1>4, <1>5, <1>6, <1>7, <1>8, <1>9 DEF Next

(***************************************************************************)
(* Type correctness of the journal and the shipper.                        *)
(***************************************************************************)
THEOREM OutboxTypeCorrect == Spec => []TypeOK
BY InitType, NextType, PTL DEF Spec

(***************************************************************************)
(* The inductive invariant.  Events are numbered in the order of the       *)
(* lines, Ernest holds no event that was not logged, and, until an operator*)
(* moves the journal away, the batch in hand is the stretch of the journal *)
(* that ends at `next' and everything before it has reached Ernest.        *)
(***************************************************************************)
Numbered ==
    /\ \A i \in 1..Len(lines) : lines[i].event <= events
    /\ \A i, j \in 1..Len(lines) : i < j => lines[i].event < lines[j].event
    /\ \A e \in evidence : e <= events

Acked(n) == \A i \in 1..n : ~lines[i].joined /\ lines[i].event \in evidence

InHand ==
    /\ cursor <= next
    /\ next <= Len(lines)
    /\ Len(batch) <= next
    /\ \A k \in 1..Len(batch) : batch[k] = lines[next - Len(batch) + k] /\ ~batch[k].joined
    /\ Acked(next - Len(batch))
    /\ spc = "advance" => Acked(next)

CursorAcked == cursor # Corrupt => cursor <= Len(lines) /\ Acked(cursor)

InOrder ==
    \A i, j \in 1..Len(lines) :
        i < j /\ lines[i].trace = lines[j].trace /\ lines[j].event \in evidence
            => lines[i].event \in evidence

IInv ==
    /\ TypeOK
    /\ spc # "idle" => up /\ cursor # Corrupt
    /\ replaced = 0 => Numbered /\ CursorAcked /\ InOrder /\ (spc # "idle" => InHand)

LEMMA LineType ==
    ASSUME TypeOK
    PROVE  \A i \in 1..Len(lines) : lines[i].event \in Nat /\ lines[i].joined \in BOOLEAN
<1>1. \A i \in 1..Len(lines) : lines[i] \in Record
  BY ElementOfSeq DEF TypeOK
<1> QED BY <1>1 DEF Record

LEMMA InitInv == Init => IInv
<1> SUFFICES ASSUME Init PROVE IInv
  OBVIOUS
<1>1. TypeOK
  BY InitType
<1>2. Len(lines) = 0
  BY EmptySeq DEF Init
<1>3. Numbered /\ CursorAcked /\ InOrder
  BY <1>2 DEF Init, Numbered, CursorAcked, Acked, InOrder
<1> QED BY <1>1, <1>3 DEF IInv, Init

(***************************************************************************)
(* Appending a line: nothing that was acknowledged moves, and the new      *)
(* event is in no evidence yet.                                            *)
(***************************************************************************)
LEMMA WriteKeeps ==
    ASSUME IInv, NEW trace \in Traces, WriteLine(trace), events' = events + 1,
           UNCHANGED <<up, cursor, shipVars, evidence, replaced>>,
           TypeOK'
    PROVE  IInv'
<1> DEFINE n == Len(lines)
<1>1. /\ NewRecord(trace) \in Record /\ NewRecord(trace).event = events + 1
      /\ n \in Nat
  BY NewRecordType DEF IInv, TypeOK
<1>2. /\ Len(lines') = n + 1
      /\ \A i \in 1..n : lines'[i] = lines[i]
      /\ lines'[n + 1] = NewRecord(trace)
  BY <1>1, AppendProperties DEF WriteLine, IInv, TypeOK
<1>3. cursor \in Nat \cup {Corrupt} /\ next \in Nat /\ events \in Nat /\ Len(batch) \in Nat
  BY DEF IInv, TypeOK
<1>4. \A i \in 1..n : lines[i].event \in Nat
  BY LineType DEF IInv
<1> SUFFICES ASSUME replaced = 0
             PROVE  /\ Numbered' /\ CursorAcked' /\ InOrder'
                    /\ spc # "idle" => InHand'
  BY DEF IInv, shipVars
<1>5. Numbered /\ CursorAcked /\ InOrder /\ (spc # "idle" => InHand)
  BY DEF IInv
<1>6. \A m \in Nat : m <= n /\ Acked(m) => Acked(m)'
  BY <1>1, <1>2 DEF Acked
<1> HIDE DEF n
<1>7. Numbered'
  <2>1. \A i \in 1..(n + 1) : i \in 1..n \/ i = n + 1
    BY <1>1 DEF n
  <2>2. \A i \in 1..n : lines'[i].event = lines[i].event /\ lines[i].event <= events
    BY <1>2, <1>5 DEF Numbered, n
  <2>3. lines'[n + 1].event = events + 1
    BY <1>1, <1>2
  <2>4. \A i \in 1..(n + 1) : lines'[i].event <= events'
    BY <1>3, <1>4, <2>1, <2>2, <2>3
  <2>5. \A i, j \in 1..(n + 1) : i < j => lines'[i].event < lines'[j].event
    <3> SUFFICES ASSUME NEW i \in 1..(n + 1), NEW j \in 1..(n + 1), i < j
                 PROVE  lines'[i].event < lines'[j].event
      OBVIOUS
    <3>1. i \in 1..n
      BY <1>1 DEF n
    <3>2. CASE j \in 1..n
      BY <1>5, <2>2, <3>1, <3>2 DEF Numbered, n
    <3>3. CASE j = n + 1
      BY <1>3, <1>4, <2>2, <2>3, <3>1, <3>3
    <3> QED BY <2>1, <3>2, <3>3
  <2>6. \A e \in evidence' : e <= events'
    BY <1>3, <1>5 DEF Numbered, IInv, TypeOK
  <2> QED BY <1>2, <2>4, <2>5, <2>6 DEF Numbered
<1>8. CursorAcked'
  BY <1>1, <1>2, <1>3, <1>5, <1>6 DEF CursorAcked, n
<1>9. InOrder'
  <2> SUFFICES ASSUME NEW i \in 1..(n + 1), NEW j \in 1..(n + 1), i < j,
                      lines'[i].trace = lines'[j].trace, lines'[j].event \in evidence
               PROVE  lines'[i].event \in evidence
    BY <1>2 DEF InOrder
  <2>1. i \in 1..n /\ (j \in 1..n \/ j = n + 1)
    BY <1>1
  <2>2. CASE j \in 1..n
    <3>1. lines'[i] = lines[i] /\ lines'[j] = lines[j]
      BY <1>2, <2>1, <2>2
    <3> QED BY <1>5, <2>1, <2>2, <3>1 DEF InOrder, n
  <2>3. j # n + 1
    <3>1. \A e \in evidence : e <= events
      BY <1>5 DEF Numbered
    <3>2. lines'[n + 1].event = events + 1
      BY <1>1, <1>2
    <3> QED BY <1>3, <3>1, <3>2
  <2> QED BY <2>1, <2>2, <2>3
<1>10. spc # "idle" => InHand'
  <2> SUFFICES ASSUME spc # "idle" PROVE InHand'
    OBVIOUS
  <2>1. InHand /\ UNCHANGED <<spc, batch, next>>
    BY <1>5 DEF shipVars
  <2>2. \A k \in 1..Len(batch) : next - Len(batch) + k \in 1..n
    BY <1>1, <1>3, <2>1 DEF InHand, n
  <2>3. next - Len(batch) \in Nat /\ next - Len(batch) <= n /\ next <= n
    BY <1>1, <1>3, <2>1 DEF InHand, n
  <2>4. Acked(next - Len(batch))' /\ (spc = "advance" => Acked(next)')
    BY <1>3, <1>6, <2>1, <2>3 DEF InHand, Acked
  <2>5. /\ next' <= Len(lines') /\ Len(batch') <= next'
        /\ \A k \in 1..Len(batch) :
              batch'[k] = lines'[next - Len(batch) + k] /\ ~batch'[k].joined
    <3>1. next' <= Len(lines') /\ Len(batch') <= next'
      BY <1>1, <1>2, <1>3, <2>1, <2>3 DEF InHand, n
    <3>2. ASSUME NEW k \in 1..Len(batch)
          PROVE  batch'[k] = lines'[next - Len(batch) + k] /\ ~batch'[k].joined
      <4>1. lines'[next - Len(batch) + k] = lines[next - Len(batch) + k]
        BY <1>2, <2>2
      <4> QED BY <2>1, <4>1 DEF InHand
    <3> QED BY <3>1, <3>2
  <2>6. cursor' <= next'
    BY <2>1 DEF InHand
  <2> QED BY <2>1, <2>4, <2>5, <2>6 DEF InHand
<1> QED BY <1>7, <1>8, <1>9, <1>10

(***************************************************************************)
(* A ShipOnce step that leaves the journal and the evidence alone.         *)
(***************************************************************************)
LEMMA SameJournal ==
    ASSUME IInv, TypeOK', UNCHANGED <<lines, events, evidence, replaced>>,
           spc' # "idle" => up' /\ cursor' # Corrupt,
           replaced = 0 => CursorAcked' /\ (spc' # "idle" => InHand')
    PROVE  IInv'
BY DEF IInv, Numbered, InOrder

LEMMA NextInv == IInv /\ [Next]_vars => IInv'
<1> SUFFICES ASSUME IInv, [Next]_vars PROVE IInv'
  OBVIOUS
<1>0. TypeOK /\ TypeOK'
  BY NextType DEF IInv
<1>1. CASE NewFileChain
  BY <1>0, <1>1, SameJournal DEF NewFileChain, IInv, diskVars, shipVars, CursorAcked, InHand, Acked
<1>2. ASSUME NEW trace \in Traces, Log(trace) PROVE IInv'
  BY <1>0, <1>2, WriteKeeps DEF Log, Logging
<1>3. ASSUME NEW trace \in Traces, SyncFails(trace) PROVE IInv'
  BY <1>0, <1>3, WriteKeeps DEF SyncFails, Logging
<1>4. ASSUME NEW trace \in Traces, WriteFails(trace) PROVE IInv'
  <2>1. UNCHANGED <<lines, up, cursor, spc, batch, next, evidence, replaced>> /\ events' = events + 1
    BY <1>4 DEF WriteFails, Logging, shipVars
  <2>2. Numbered => Numbered'
    <3>1. \A i \in 1..Len(lines) : lines[i].event \in Nat
      BY <1>0, LineType
    <3>2. \A e \in evidence : e \in Nat /\ events \in Nat /\ events' \in Nat
      BY <1>0 DEF TypeOK
    <3>3. \A i \in 1..Len(lines) : lines[i].event <= events => lines[i].event <= events'
      BY <1>0, <2>1, <3>1 DEF TypeOK
    <3>4. \A e \in evidence : e <= events => e <= events'
      BY <2>1, <3>2
    <3> QED BY <2>1, <3>3, <3>4 DEF Numbered
  <2> QED BY <1>0, <2>1, <2>2 DEF IInv, CursorAcked, InOrder, InHand, Acked
<1>5. CASE ReadBatch
  <2> SUFFICES ASSUME replaced = 0 PROVE CursorAcked' /\ InHand'
    BY <1>0, <1>5, SameJournal DEF ReadBatch, diskVars
  <2>1. CursorAcked /\ cursor \in Nat /\ UNCHANGED <<lines, cursor, evidence>>
    BY <1>0, <1>5 DEF ReadBatch, IInv, TypeOK, diskVars
  <2>2. Start = cursor
    BY <1>0, <1>5, <2>1, LenProperties DEF Start, CursorAcked, TypeOK, ReadBatch
  <2>3. CursorAcked'
    BY <2>1 DEF CursorAcked, Acked
  <2>4. /\ batch' = Chunk /\ next' = cursor + Len(Chunk) /\ spc' = "publish"
        /\ \A k \in 1..Len(Chunk) : ~Chunk[k].joined
    BY <1>0, <1>5, <2>2, ChunkProperties, LenProperties DEF ReadBatch
  <2>5. /\ Len(Chunk) \in Nat
        /\ cursor + Len(Chunk) <= Len(lines)
        /\ \A k \in 1..Len(Chunk) : Chunk[k] = lines[cursor + k]
    BY <1>0, <1>5, <2>2, ChunkProperties, LenProperties DEF ReadBatch
  <2>6. next' - Len(batch') = cursor
    BY <2>1, <2>4, <2>5
  <2>7. Acked(cursor)'
    BY <1>5, <2>1 DEF CursorAcked, Acked, ReadBatch
  <2> QED BY <2>1, <2>3, <2>4, <2>5, <2>6, <2>7 DEF InHand, Acked
<1>6. CASE Publish \/ PublishFails
  <2>1. PICK indices \in SUBSET DOMAIN batch :
           /\ Keyed(indices)
           /\ evidence' = evidence \cup Events(indices)
           /\ spc' = "advance" => indices = DOMAIN batch
    BY <1>6 DEF Publish, PublishFails, Keyed
  <2>2. /\ UNCHANGED <<lines, up, cursor, next, events, replaced>>
        /\ spc = "publish" /\ spc' \in {"idle", "advance"}
        /\ spc' = "advance" => batch' = batch
    BY <1>6 DEF Publish, PublishFails, publishUnchanged, diskVars
  <2> SUFFICES ASSUME replaced = 0
               PROVE  /\ Numbered' /\ CursorAcked' /\ InOrder'
                      /\ spc' = "advance" => InHand'
    BY <1>0, <2>2 DEF IInv
  <2>3. Numbered /\ CursorAcked /\ InOrder /\ InHand
    BY <2>2 DEF IInv
  <2> DEFINE from == next - Len(batch)
  <2>4. /\ DOMAIN batch = 1..Len(batch) /\ Len(batch) \in Nat /\ next \in Nat /\ from \in Nat
        /\ Len(lines) \in Nat
        /\ \A i \in 1..Len(lines) : lines[i].event \in Nat
    <3>1. DOMAIN batch = 1..Len(batch) /\ Len(batch) \in Nat /\ next \in Nat /\ Len(lines) \in Nat
      BY <1>0, LenProperties DEF TypeOK
    <3> QED BY <1>0, <2>3, <3>1, LineType DEF InHand
  <2>5. \A k \in 1..Len(batch) : from + k \in 1..Len(lines) /\ batch[k] = lines[from + k]
    BY <2>3, <2>4 DEF InHand
  <2>6. \A e \in Events(indices) : \E k \in indices : e = lines[from + k].event
    BY <2>1, <2>4, <2>5 DEF Events
  <2>7. evidence \subseteq evidence'
    BY <2>1
  <2>8. \A m \in Nat : Acked(m) => Acked(m)'
    BY <2>2, <2>7 DEF Acked
  <2> HIDE DEF from
  <2>9. Numbered'
    BY <2>1, <2>2, <2>3, <2>4, <2>5, <2>6 DEF Numbered
  <2>10. CursorAcked'
    BY <1>0, <2>2, <2>3, <2>8 DEF CursorAcked, TypeOK, Acked
  <2>11. InOrder'
    <3> SUFFICES ASSUME NEW i \in 1..Len(lines), NEW j \in 1..Len(lines),
                        i < j, lines[i].trace = lines[j].trace, lines[j].event \in evidence'
                 PROVE  lines[i].event \in evidence'
      BY <2>2 DEF InOrder
    <3>1. CASE lines[j].event \in evidence
      BY <2>3, <2>7, <3>1 DEF InOrder
    <3>2. CASE lines[j].event \in Events(indices)
      <4>1. PICK k \in indices : lines[j].event = lines[from + k].event
        BY <2>6, <3>2
      <4>2. k \in 1..Len(batch) /\ from + k \in 1..Len(lines)
        BY <2>1, <2>4, <2>5
      <4>3. j = from + k
        BY <2>3, <2>4, <4>1, <4>2 DEF Numbered
      <4>4. CASE i <= from
        BY <2>3, <2>4, <2>7, <4>4 DEF InHand, Acked, from
      <4>5. CASE i > from
        <5>1. i - from \in 1..Len(batch) /\ i - from < k /\ from + (i - from) = i
          BY <2>4, <4>2, <4>3, <4>5
        <5>2. batch[i - from] = lines[i] /\ batch[k] = lines[j]
          BY <2>5, <4>2, <4>3, <5>1
        <5>3. i - from \in indices
          BY <2>1, <2>4, <4>1, <5>1, <5>2 DEF Keyed
        <5> QED BY <2>1, <5>2, <5>3 DEF Events
      <4> QED BY <2>4, <4>4, <4>5
    <3> QED BY <2>1, <3>1, <3>2
  <2>12. ASSUME spc' = "advance" PROVE InHand'
    <3>1. batch' = batch /\ indices = 1..Len(batch)
      BY <2>1, <2>2, <2>4, <2>12
    <3>2. \A k \in 1..Len(batch) : lines[from + k].event \in evidence' /\ ~lines[from + k].joined
      BY <2>1, <2>3, <2>5, <3>1 DEF Events, InHand
    <3>3. \A i \in 1..from : ~lines[i].joined /\ lines[i].event \in evidence'
      BY <2>3, <2>7 DEF InHand, Acked, from
    <3>4. \A i \in 1..next : ~lines[i].joined /\ lines[i].event \in evidence'
      <4> TAKE i \in 1..next
      <4>1. CASE i <= from
        BY <2>4, <3>3, <4>1
      <4>2. CASE i > from
        <5>1. i - from \in 1..Len(batch) /\ from + (i - from) = i
          BY <2>4, <4>2 DEF from
        <5> QED BY <3>2, <5>1
      <4> QED BY <2>4, <4>1, <4>2
    <3>5. Acked(next)'
      BY <2>2, <3>4 DEF Acked
    <3>6. Acked(next - Len(batch))'
      BY <2>2, <3>1, <3>3 DEF Acked, from
    <3> QED BY <2>2, <2>3, <3>1, <3>5, <3>6 DEF InHand
  <2> QED BY <2>9, <2>10, <2>11, <2>12
<1>7. CASE writeCursor \/ writeCursorFails
  <2>1. /\ UNCHANGED <<lines, events, evidence, replaced>>
        /\ spc = "advance" /\ spc' = "idle"
        /\ cursor' \in {cursor, next, Corrupt}
    BY <1>7 DEF writeCursor, writeCursorFails, cursorUnchanged, diskVars
  <2>2. replaced = 0 => CursorAcked /\ InHand
    BY <2>1 DEF IInv
  <2>3. replaced = 0 => CursorAcked'
    BY <2>1, <2>2 DEF CursorAcked, InHand, Acked
  <2> QED BY <1>0, <2>1, <2>3, SameJournal
<1>8. CASE Crash
  BY <1>0, <1>8, SameJournal DEF Crash, IInv, diskVars, CursorAcked, Acked
<1>9. CASE ReplaceJournal
  BY <1>0, <1>9 DEF ReplaceJournal, IInv, TypeOK, shipVars
<1>10. CASE UNCHANGED vars
  BY <1>0, <1>10 DEF vars, diskVars, shipVars, IInv, Numbered, CursorAcked, InOrder, InHand, Acked
<1> QED BY <1>1, <1>2, <1>3, <1>4, <1>5, <1>6, <1>7, <1>8, <1>9, <1>10 DEF Next

LEMMA InvAlways == Spec => []IInv
BY InitInv, NextInv, PTL DEF Spec

(***************************************************************************)
(* ShipOnce advances the cursor only past records Kafka has acknowledged:  *)
(* no failure, restart or retry loses evidence while the journal survives. *)
(***************************************************************************)
THEOREM EvidenceNeverLost == Spec => []AckedBeforeCursor
<1>1. IInv => AckedBeforeCursor
  BY DEF IInv, AckedBeforeCursor, CursorAcked, Acked
<1> QED BY InvAlways, <1>1, PTL

(***************************************************************************)
(* Ernest never holds an event of a trace without the events before it.    *)
(***************************************************************************)
THEOREM EvidenceInOrder == Spec => []TraceInOrder
<1>1. IInv => TraceInOrder
  BY LenProperties DEF IInv, TypeOK, TraceInOrder, InOrder
<1> QED BY InvAlways, <1>1, PTL

(***************************************************************************)
(* The journal verifies.  Its records, the one without a newline included; *)
(* while FileChain may log, its sequence and head are those of the last    *)
(* one, so what it appends continues the chain.  A failed Write or Sync    *)
(* breaks that, and lastErr keeps the chain from being written until       *)
(* NewFileChain has read the file again.                                   *)
(***************************************************************************)
Records == IF tail = "whole" THEN Append(lines, last) ELSE lines

NoneJoined == \A i \in DOMAIN lines : ~lines[i].joined

HashOf(s) == IF s = <<>> THEN 0 ELSE s[Len(s)].event

ChainInv ==
    /\ TypeOK
    /\ tail = "whole" => ~last.joined
    /\ NoneJoined => Linked(Records)
    /\ up /\ ~lastErr => tail # "torn"
    /\ up /\ ~lastErr /\ NoneJoined => sequence = Len(Records) /\ head = HashOf(Records)

(***************************************************************************)
(* A record that continues a linked sequence makes a linked one.           *)
(***************************************************************************)
LEMMA LinkedAppend ==
    ASSUME NEW s \in Seq(Record), NEW r \in Record
    PROVE  /\ Linked(Append(s, r)) => Linked(s)
           /\ Linked(s) /\ ~r.joined /\ r.sequence = Len(s) + 1 /\ r.previous = HashOf(s)
                  => Linked(Append(s, r))
<1> DEFINE t == Append(s, r)
           n == Len(s)
<1>1. /\ t \in Seq(Record) /\ n \in Nat /\ Len(t) = n + 1
      /\ DOMAIN s = 1..n /\ DOMAIN t = 1..(n + 1)
      /\ \A i \in 1..n : t[i] = s[i]
      /\ t[n + 1] = r
  BY LenProperties, AppendProperties
<1>2. s = <<>> <=> n = 0
  BY EmptySeq
<1> HIDE DEF t, n
<1>3. \A i \in 1..(n + 1) : i \in 1..n \/ i = n + 1
  BY <1>1
<1>4. \A i \in 1..n : i # 1 => i - 1 \in 1..n
  BY <1>1
<1>5. ASSUME Linked(t) PROVE Linked(s)
  BY <1>1, <1>4, <1>5 DEF Linked
<1>6. ASSUME Linked(s), ~r.joined, r.sequence = n + 1, r.previous = HashOf(s)
      PROVE  Linked(t)
  <2>1. ASSUME NEW i \in 1..n
        PROVE  ~t[i].joined /\ t[i].sequence = i
               /\ t[i].previous = IF i = 1 THEN 0 ELSE t[i - 1].event
    BY <1>1, <1>4, <1>6 DEF Linked
  <2>2. HashOf(s) = IF n + 1 = 1 THEN 0 ELSE t[(n + 1) - 1].event
    BY <1>1, <1>2 DEF HashOf, n
  <2> QED BY <1>1, <1>3, <1>6, <2>1, <2>2 DEF Linked
<1> QED BY <1>5, <1>6 DEF t, n

(***************************************************************************)
(* What Log and a failing Sync append: it continues the chain, unless the  *)
(* last line had lost its newline and the two are joined.                  *)
(***************************************************************************)
LEMMA WriteLinks ==
    ASSUME ChainInv, TypeOK', NEW trace \in Traces, WriteLine(trace), up, ~lastErr, NoneJoined'
    PROVE  /\ Records' = Append(lines, NewRecord(trace))
           /\ Linked(Records')
           /\ Len(Records') = sequence + 1
           /\ HashOf(Records') = events + 1
<1>1. NewRecord(trace) \in Record /\ NewRecord(trace).event = events + 1 /\ lines \in Seq(Record)
  BY NewRecordType DEF ChainInv, TypeOK
<1>2. /\ lines' = Append(lines, NewRecord(trace)) /\ Len(lines) \in Nat
      /\ Len(lines') = Len(lines) + 1
      /\ DOMAIN lines = 1..Len(lines) /\ DOMAIN lines' = 1..(Len(lines) + 1)
      /\ \A i \in 1..Len(lines) : lines'[i] = lines[i]
      /\ lines'[Len(lines) + 1] = NewRecord(trace)
  BY <1>1, LenProperties, AppendProperties DEF WriteLine
<1>3. NoneJoined /\ ~NewRecord(trace).joined
  BY <1>2 DEF NoneJoined
<1>4. tail = "none"
  BY <1>3 DEF ChainInv, TypeOK, NewRecord
<1>5. Linked(lines) /\ sequence = Len(lines) /\ head = HashOf(lines)
  BY <1>3, <1>4 DEF ChainInv, Records
<1>6. NewRecord(trace).sequence = Len(lines) + 1 /\ NewRecord(trace).previous = HashOf(lines)
  BY <1>5 DEF NewRecord
<1>7. Records' = lines'
  BY DEF WriteLine, Records
<1>8. Linked(Append(lines, NewRecord(trace)))
  BY <1>1, <1>3, <1>5, <1>6, LinkedAppend
<1>9. lines' # <<>>
  BY <1>2, EmptySeq
<1> QED BY <1>1, <1>2, <1>5, <1>7, <1>8, <1>9 DEF HashOf

LEMMA InitChain == Init => ChainInv
<1> SUFFICES ASSUME Init PROVE ChainInv
  OBVIOUS
<1>1. TypeOK /\ Records = <<>>
  BY InitType DEF Init, Records
<1> QED BY <1>1, EmptySeq DEF Init, ChainInv, Linked

LEMMA NextChain == ChainInv /\ [Next]_vars => ChainInv'
<1> SUFFICES ASSUME ChainInv, [Next]_vars PROVE ChainInv'
  OBVIOUS
<1>0. TypeOK /\ TypeOK'
  BY NextType DEF ChainInv
<1>1. ASSUME UNCHANGED diskVars, UNCHANGED chainVars, up' => up PROVE ChainInv'
  BY <1>0, <1>1 DEF ChainInv, diskVars, chainVars, Records, NoneJoined, HashOf, Linked
<1>2. CASE NewFileChain
  <2>1. UNCHANGED diskVars /\ Verify
    BY <1>2 DEF NewFileChain
  <2>2. sequence' = Len(Records) /\ head' = HashOf(Records)
    BY <1>2 DEF NewFileChain, Records, HashOf
  <2> QED BY <1>0, <2>1, <2>2 DEF ChainInv, diskVars, Records, NoneJoined, HashOf, Linked, Verify
<1>3. ASSUME NEW trace \in Traces, Log(trace) PROVE ChainInv'
  <2>1. /\ up /\ ~lastErr /\ WriteLine(trace) /\ tail' = "none"
        /\ sequence' = sequence + 1 /\ head' = events + 1
    BY <1>3 DEF Log, Logging, WriteLine
  <2> QED BY <1>0, <2>1, WriteLinks DEF ChainInv
<1>4. ASSUME NEW trace \in Traces, SyncFails(trace) PROVE ChainInv'
  <2>1. up /\ ~lastErr /\ WriteLine(trace) /\ tail' = "none" /\ lastErr'
    BY <1>4 DEF SyncFails, Logging, WriteLine
  <2> QED BY <1>0, <2>1, WriteLinks DEF ChainInv
<1>5. ASSUME NEW trace \in Traces, WriteFails(trace) PROVE ChainInv'
  <2>1. UNCHANGED lines /\ up /\ ~lastErr /\ lastErr' /\ NoneJoined' = NoneJoined
    BY <1>5 DEF WriteFails, Logging, NoneJoined
  <2>2. CASE UNCHANGED <<tail, last>>
    BY <1>0, <2>1, <2>2 DEF ChainInv, Records, NoneJoined, Linked
  <2>3. CASE tail' = "torn"
    <3>1. Records' = lines
      BY <2>1, <2>3 DEF Records
    <3>2. NoneJoined => Linked(lines)
      BY <1>0, LinkedAppend DEF ChainInv, Records, TypeOK
    <3> QED BY <1>0, <2>1, <2>3, <3>1, <3>2 DEF ChainInv, Linked
  <2>4. CASE tail = "none" /\ tail' = "whole" /\ last' = NewRecord(trace)
    <3>1. /\ Records = lines /\ Records' = Append(lines, NewRecord(trace))
          /\ ~NewRecord(trace).joined
      BY <2>1, <2>4 DEF Records, NewRecord
    <3>2. NewRecord(trace) \in Record /\ lines \in Seq(Record)
      BY <1>0, NewRecordType DEF TypeOK
    <3>3. ASSUME NoneJoined PROVE Linked(Append(lines, NewRecord(trace)))
      <4>1. Linked(lines) /\ sequence = Len(lines) /\ head = HashOf(lines)
        BY <2>1, <3>1, <3>3 DEF ChainInv
      <4> QED BY <3>1, <3>2, <4>1, LinkedAppend DEF NewRecord
    <3> QED BY <1>0, <2>1, <2>4, <3>1, <3>3 DEF ChainInv, Linked
  <2> QED BY <1>5, <2>2, <2>3, <2>4 DEF WriteFails
<1>6. CASE ReadBatch \/ Publish \/ PublishFails \/ writeCursor \/ writeCursorFails
  BY <1>1, <1>6 DEF ReadBatch, Publish, PublishFails, publishUnchanged, writeCursor,
     writeCursorFails, cursorUnchanged
<1>7. CASE Crash
  BY <1>1, <1>7 DEF Crash
<1>8. CASE ReplaceJournal
  <2>1. Records' = <<>> /\ ~up' /\ tail' = "none"
    BY <1>8 DEF ReplaceJournal, Records
  <2> QED BY <1>0, <2>1, EmptySeq DEF ChainInv, Linked
<1>9. CASE UNCHANGED vars
  BY <1>1, <1>9 DEF vars
<1> QED BY <1>2, <1>3, <1>4, <1>5, <1>6, <1>7, <1>8, <1>9 DEF Next

(***************************************************************************)
(* Whatever failed or stopped before, the file FileChain leaves verifies   *)
(* unless a record was torn or appended to a line without its newline: the *)
(* two cases an operator has to mend.                                      *)
(***************************************************************************)
THEOREM JournalVerifies == Spec => []ChainVerifies
<1>1. ChainInv => ChainVerifies
  BY DEF ChainInv, ChainVerifies, Verify, Records, NoneJoined
<1> QED BY InitChain, NextChain, <1>1, PTL DEF Spec

(***************************************************************************)
(* The refinement.  A line that is appended is one entry more, and its     *)
(* event is new: it is numbered after every event so far.                  *)
(***************************************************************************)
LEMMA JournalOf ==
    ASSUME TypeOK
    PROVE  /\ Len(Journal) = Len(lines)
           /\ Len(lines) \in Nat
           /\ \A i \in 1..Len(lines) :
                 /\ Journal[i].event = lines[i].event
                 /\ Journal[i].trace = lines[i].trace
                 /\ Journal[i].readable = ~lines[i].joined
<1>1. Len(lines) \in Nat
  BY LenProperties DEF TypeOK
<1>2. Journal = [i \in 1..Len(lines) |-> Journal[i]]
  BY DEF Journal
<1>3. Len(Journal) = Len(lines)
  BY <1>1, <1>2
<1> QED BY <1>1, <1>3 DEF Journal

LEMMA WriteAppends ==
    ASSUME IInv, NEW trace \in Traces, WriteLine(trace), TypeOK',
           UNCHANGED <<cursor, evidence, replaced>>
    PROVE  Promise!AppendEntry
<1>1. TypeOK
  BY DEF IInv
<1>2. NewRecord(trace) \in Record /\ NewRecord(trace).event = events + 1 /\ events \in Nat
  BY <1>1, NewRecordType DEF TypeOK
<1> DEFINE n == Len(lines)
<1>3. /\ Len(lines') = n + 1 /\ n \in Nat
      /\ \A i \in 1..n : lines'[i] = lines[i]
      /\ lines'[n + 1] = NewRecord(trace)
  BY <1>1, <1>2, LenProperties, AppendProperties DEF WriteLine, TypeOK
<1>4. Len(Journal) = n /\ \A i \in 1..n : Journal[i].event = lines[i].event
  BY <1>1, JournalOf
<1>5. (TypeOK => Len(Journal) = Len(lines))'
  BY JournalOf, PTL
<1>6. Len(Journal') = n + 1
  BY <1>3, <1>5
<1>7. \A i \in 1..n : Journal'[i] = Journal[i]
  BY <1>3 DEF Journal
<1>8. Journal'[n + 1].event = events + 1
  BY <1>2, <1>3 DEF Journal
<1>9. ASSUME replaced = 0
      PROVE  events + 1 \notin evidence /\ \A i \in 1..n : Journal[i].event # events + 1
  <2>1. Numbered
    BY <1>9 DEF IInv
  <2>2. \A i \in 1..n : lines[i].event \in Nat
    BY <1>1, LineType
  <2>3. \A i \in 1..n : lines[i].event # events + 1
    BY <1>2, <2>1, <2>2 DEF Numbered
  <2>4. events + 1 \notin evidence
    BY <1>2, <2>1 DEF Numbered
  <2> QED BY <1>4, <2>3, <2>4
<1> HIDE DEF n
<1> QED BY <1>4, <1>6, <1>7, <1>8, <1>9 DEF Promise!AppendEntry

(***************************************************************************)
(* The abstract position and order are those of the invariant.             *)
(***************************************************************************)
LEMMA OrderOf == TypeOK /\ InOrder => Promise!TraceOrdered(evidence)
BY JournalOf DEF InOrder, Promise!TraceOrdered

LEMMA StepOf == IInv /\ [Next]_vars => [Promise!Next]_(Promise!vars)
<1> SUFFICES ASSUME IInv, [Next]_vars PROVE [Promise!Next]_(Promise!vars)
  OBVIOUS
<1>0. TypeOK /\ IInv' /\ TypeOK'
  BY NextInv DEF IInv
<1> USE DEF Promise!Next, Promise!vars
<1>a. UNCHANGED <<lines, cursor, evidence, replaced>> => UNCHANGED Promise!vars
  BY DEF Journal
<1>1. CASE NewFileChain \/ ReadBatch \/ Crash
  BY <1>1, <1>a DEF NewFileChain, ReadBatch, Crash, diskVars
<1>2. ASSUME NEW trace \in Traces, Log(trace) \/ SyncFails(trace) PROVE Promise!Next
  BY <1>0, <1>2, WriteAppends DEF Log, SyncFails, Logging
<1>3. ASSUME NEW trace \in Traces, WriteFails(trace) PROVE UNCHANGED Promise!vars
  BY <1>3, <1>a DEF WriteFails, Logging
<1>4. CASE Publish \/ PublishFails
  <2>1. PICK indices \in SUBSET DOMAIN batch : evidence' = evidence \cup Events(indices)
    BY <1>4 DEF Publish, PublishFails
  <2>2. UNCHANGED <<lines, cursor, replaced>> /\ spc = "publish"
    BY <1>4 DEF Publish, PublishFails, publishUnchanged, diskVars
  <2>3. cursor # Corrupt /\ evidence \subseteq evidence' /\ UNCHANGED Journal
    BY <2>1, <2>2 DEF IInv, Journal
  <2>4. ASSUME replaced = 0
        PROVE  /\ Promise!TraceOrdered(evidence')
               /\ \A e \in evidence' \ evidence :
                     \E i \in 1..Len(Journal) : Journal[i].readable /\ Journal[i].event = e
    <3>1. InHand /\ InOrder'
      BY <1>0, <2>2, <2>4 DEF IInv
    <3>2. Promise!TraceOrdered(evidence)'
      <4>1. (TypeOK /\ InOrder => Promise!TraceOrdered(evidence))'
        BY OrderOf, PTL
      <4> QED BY <1>0, <3>1, <4>1
    <3>3. Promise!TraceOrdered(evidence')
      BY <2>3, <3>2 DEF Promise!TraceOrdered
    <3>4. DOMAIN batch = 1..Len(batch) /\ Len(batch) \in Nat /\ next \in Nat /\ Len(lines) \in Nat
      BY <1>0, LenProperties DEF TypeOK
    <3>5. ASSUME NEW e \in evidence' \ evidence
          PROVE  \E i \in 1..Len(Journal) : Journal[i].readable /\ Journal[i].event = e
      <4>1. PICK k \in 1..Len(batch) : e = batch[k].event
        BY <2>1, <3>4, <3>5 DEF Events
      <4> DEFINE i == next - Len(batch) + k
      <4>2. i \in 1..Len(lines) /\ batch[k] = lines[i] /\ ~batch[k].joined
        BY <3>1, <3>4, <4>1 DEF InHand
      <4> HIDE DEF i
      <4> QED BY <1>0, <4>1, <4>2, JournalOf
    <3> QED BY <3>3, <3>5
  <2> QED BY <2>2, <2>3, <2>4 DEF Promise!Deliver
<1>5. CASE writeCursor
  <2>1. UNCHANGED <<lines, evidence, replaced>> /\ spc = "advance" /\ cursor' = next
    BY <1>5 DEF writeCursor, cursorUnchanged, diskVars
  <2>2. cursor # Corrupt /\ cursor \in Nat /\ next \in Nat /\ UNCHANGED Journal
    BY <1>0, <2>1 DEF IInv, TypeOK, Journal
  <2>3. ASSUME replaced = 0
        PROVE  /\ next \in cursor..Len(Journal)
               /\ \A i \in 1..next : Journal[i].readable /\ Journal[i].event \in evidence
    <3>1. InHand
      BY <2>1, <2>3 DEF IInv
    <3>2. next \in cursor..Len(lines) /\ Acked(next)
      BY <1>0, <2>1, <2>2, <3>1, JournalOf DEF InHand
    <3>3. \A i \in 1..next : i \in 1..Len(lines)
      BY <1>0, <2>2, <3>2, JournalOf
    <3> QED BY <1>0, <3>2, <3>3, JournalOf DEF Acked
  <2> QED BY <2>1, <2>2, <2>3 DEF Promise!Acknowledge
<1>6. CASE writeCursorFails
  <2>1. UNCHANGED <<lines, evidence, replaced>> /\ cursor' \in {cursor, Corrupt}
    BY <1>6 DEF writeCursorFails, cursorUnchanged, diskVars
  <2> QED BY <2>1, <1>a DEF Promise!LosePosition, Journal
<1>7. CASE ReplaceJournal
  <2>1. lines' = <<>> /\ replaced' = replaced + 1 /\ UNCHANGED <<cursor, evidence>>
    BY <1>7 DEF ReplaceJournal
  <2>2. Journal' = <<>>
    BY <2>1 DEF Journal
  <2>3. replaced' # 0
    BY <1>0, <2>1 DEF TypeOK
  <2> QED BY <2>1, <2>2, <2>3 DEF Promise!Discard
<1>8. CASE UNCHANGED vars
  BY <1>8, <1>a DEF vars, diskVars
<1> QED BY <1>1, <1>2, <1>3, <1>4, <1>5, <1>6, <1>7, <1>8 DEF Next

(***************************************************************************)
(* FileChain, KafkaShipper and the cursor file implement the outbox: the   *)
(* shipper never acknowledges what is not delivered, never goes back, and  *)
(* never delivers out of order, until an operator moves the journal away.  *)
(***************************************************************************)
THEOREM JournalIsAnOutbox == Spec => ImplementsOutbox
<1>1. Init => Promise!Init
  BY DEF Init, Promise!Init, Journal
<1> QED BY <1>1, InvAlways, StepOf, PTL DEF Spec, ImplementsOutbox, Promise!Spec
=============================================================================
