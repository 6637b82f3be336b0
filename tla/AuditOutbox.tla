---------------------------- MODULE AuditOutbox ----------------------------
(***************************************************************************)
(* The audit journal and its way to Ernest: FileChain (audit/chain.go)     *)
(* appends hash-chained records to a file, and KafkaShipper                *)
(* (audit/kafka_shipper.go) publishes the complete records after a         *)
(* persisted cursor and then advances it.  The journal is the outbox.      *)
(*                                                                         *)
(* A record's hash stands for its event: two events never share one.       *)
(* Offsets count lines.  A crash is one of the process: the files survive  *)
(* it.  Faults are errors of the disk (a full one, say).                   *)
(***************************************************************************)
EXTENDS Naturals, Sequences

CONSTANTS
    Traces,          \* trace ids, the key of a Kafka record
    BatchSize,       \* records of one ShipOnce
    MaxEvents,       \* bound on audit events
    MaxCrashes,      \* bound on crashes
    MaxFaults,       \* bound on failed disk operations
    MaxReplacements, \* bound on the times an operator moves the journal away
    Corrupt          \* a cursor file that is not JSON

ASSUME OutboxAssumption ==
    /\ BatchSize \in Nat \ {0}
    /\ MaxEvents \in Nat
    /\ MaxCrashes \in Nat
    /\ MaxFaults \in Nat
    /\ MaxReplacements \in Nat
    /\ Corrupt \notin Nat

VARIABLES
    lines,     \* the journal's complete lines
    tail,      \* what follows the last newline: "none", "torn" or "whole" (a record)
    last,      \* the record in the tail when it is whole
    up,        \* the process runs
    sequence,  \* FileChain: records written
    head,      \* FileChain: hash of the last record, 0 for none
    lastErr,   \* FileChain: it has failed, and stays so
    cursor,    \* the cursor file
    spc,       \* where ShipOnce is: "idle", "publish" or "advance"
    batch,     \* the records it read
    next,      \* the cursor it will write
    evidence,  \* events Ernest holds, deduplicated on sourceEventId
    logged,    \* events Log accepted (history)
    events,    \* events so far
    crashes, faults, replaced

chainVars == <<sequence, head, lastErr>>
shipVars == <<spc, batch, next>>
diskVars == <<lines, tail, last>>
vars == <<diskVars, up, chainVars, cursor, shipVars, evidence, logged, events, crashes, faults,
          replaced>>

(***************************************************************************)
(* A line of the journal.  A line is joined when it was appended to a last *)
(* line that had lost its newline: it holds two records and is not JSON.   *)
(***************************************************************************)
Record == [event : Nat, trace : Traces, sequence : Nat, previous : Nat, joined : BOOLEAN]

TypeOK ==
    /\ lines \in Seq(Record)
    /\ tail \in {"none", "torn", "whole"}
    /\ tail = "whole" => last \in Record
    /\ up \in BOOLEAN
    /\ sequence \in Nat
    /\ head \in Nat
    /\ lastErr \in BOOLEAN
    /\ cursor \in Nat \cup {Corrupt}
    /\ spc \in {"idle", "publish", "advance"}
    /\ batch \in Seq(Record)
    /\ spc = "idle" => batch = <<>>
    /\ next \in Nat
    /\ evidence \subseteq Nat
    /\ logged \subseteq Nat
    /\ events \in Nat
    /\ crashes \in Nat /\ faults \in Nat /\ replaced \in Nat

(***************************************************************************)
(* Verify: every line is a record that continues the chain.                *)
(***************************************************************************)
Linked(s) ==
    \A i \in DOMAIN s :
        /\ ~s[i].joined
        /\ s[i].sequence = i
        /\ s[i].previous = IF i = 1 THEN 0 ELSE s[i - 1].event

Verify == tail # "torn" /\ Linked(IF tail = "whole" THEN Append(lines, last) ELSE lines)

Init ==
    /\ lines = <<>> /\ tail = "none" /\ last = <<>>
    /\ up = FALSE
    /\ sequence = 0 /\ head = 0 /\ lastErr = FALSE
    /\ cursor = 0
    /\ spc = "idle" /\ batch = <<>> /\ next = 0
    /\ evidence = {}
    /\ logged = {}
    /\ events = 0
    /\ crashes = 0 /\ faults = 0 /\ replaced = 0
-----------------------------------------------------------------------------
(***************************************************************************)
(* NewFileChain refuses a journal that does not verify, and continues any  *)
(* other, whether or not its last line ends in a newline.                  *)
(***************************************************************************)
NewFileChain ==
    /\ ~up
    /\ Verify
    /\ up' = TRUE
    /\ LET all == IF tail = "whole" THEN Append(lines, last) ELSE lines
       IN /\ sequence' = Len(all)
          /\ head' = IF all = <<>> THEN 0 ELSE all[Len(all)].event
    /\ lastErr' = FALSE
    /\ UNCHANGED <<diskVars, cursor, shipVars, evidence, logged, events, crashes, faults, replaced>>

(***************************************************************************)
(* Log.  Write and Sync of one record, under the chain's mutex.            *)
(***************************************************************************)
NewRecord(trace) ==
    [event |-> events + 1, trace |-> trace, sequence |-> sequence + 1, previous |-> head,
     joined |-> (tail = "whole")]

Logging ==
    /\ up /\ ~lastErr
    /\ events < MaxEvents
    /\ events' = events + 1
    /\ UNCHANGED <<up, cursor, shipVars, evidence, crashes, replaced>>

WriteLine(trace) ==
    /\ lines' = Append(lines, NewRecord(trace))
    /\ tail' = "none" /\ last' = <<>>

Log(trace) ==
    /\ Logging
    /\ WriteLine(trace)
    /\ sequence' = sequence + 1 /\ head' = events + 1
    /\ logged' = logged \cup {events + 1}
    /\ UNCHANGED <<lastErr, faults>>

Fault == faults < MaxFaults /\ faults' = faults + 1

(***************************************************************************)
(* Mutant of SyncFails: the error does not stop the chain.                 *)
(***************************************************************************)
SyncFailsOnce(trace) ==
    /\ Logging /\ Fault
    /\ WriteLine(trace)
    /\ UNCHANGED <<chainVars, logged>>

(***************************************************************************)
(* Sync fails: the record is in the file but does not count.               *)
(***************************************************************************)
SyncFails(trace) ==
    /\ Logging /\ Fault
    /\ WriteLine(trace)
    /\ lastErr' = TRUE
    /\ UNCHANGED <<sequence, head, logged>>

(***************************************************************************)
(* Write fails after none of the record, part of it, or all but the        *)
(* newline.  What it adds to a line without a newline is torn.             *)
(***************************************************************************)
WriteFails(trace) ==
    /\ Logging /\ Fault
    /\ \/ UNCHANGED <<tail, last>>
       \/ tail' = "torn" /\ last' = <<>>
       \/ tail = "none" /\ tail' = "whole" /\ last' = NewRecord(trace)
    /\ lastErr' = TRUE
    /\ UNCHANGED <<lines, sequence, head, logged>>
-----------------------------------------------------------------------------
(***************************************************************************)
(* ShipOnce: read a batch, publish it, write the cursor.                   *)
(***************************************************************************)
Lesser(a, b) == IF a < b THEN a ELSE b

(***************************************************************************)
(* A journal shorter than the cursor is read from its start.               *)
(***************************************************************************)
Start == IF Len(lines) < cursor THEN 0 ELSE cursor

Chunk == SubSeq(lines, Start + 1, Lesser(Start + BatchSize, Len(lines)))

(***************************************************************************)
(* Mutant of ReadBatch: it waits for a full batch.                         *)
(***************************************************************************)
ReadFullBatch ==
    /\ up /\ spc = "idle"
    /\ cursor # Corrupt
    /\ Len(Chunk) = BatchSize
    /\ \A i \in DOMAIN Chunk : ~Chunk[i].joined
    /\ batch' = Chunk
    /\ next' = Start + Len(Chunk)
    /\ spc' = "publish"
    /\ UNCHANGED <<diskVars, up, chainVars, cursor, evidence, logged, events, crashes, faults,
                   replaced>>

(***************************************************************************)
(* A corrupt cursor, or a line of the batch that is not a record, is an    *)
(* error: nothing is read.                                                 *)
(***************************************************************************)
ReadBatch ==
    /\ up /\ spc = "idle"
    /\ cursor # Corrupt
    /\ Chunk # <<>>
    /\ \A i \in DOMAIN Chunk : ~Chunk[i].joined
    /\ batch' = Chunk
    /\ next' = Start + Len(Chunk)
    /\ spc' = "publish"
    /\ UNCHANGED <<diskVars, up, chainVars, cursor, evidence, logged, events, crashes, faults,
                   replaced>>

publishUnchanged == <<diskVars, up, chainVars, cursor, next, logged, events, crashes, faults,
                      replaced>>

Events(indices) == {batch[i].event : i \in indices}

(***************************************************************************)
(* ProduceSync acknowledges every record of the batch.                     *)
(***************************************************************************)
Publish ==
    /\ spc = "publish"
    /\ evidence' = evidence \cup Events(DOMAIN batch)
    /\ spc' = "advance"
    /\ UNCHANGED <<batch, publishUnchanged>>

(***************************************************************************)
(* Mutant of Keyed: records are not keyed by their trace.                  *)
(***************************************************************************)
Unkeyed(indices) == TRUE

(***************************************************************************)
(* The records of one key reach its partition in order.                    *)
(***************************************************************************)
Keyed(indices) ==
    \A i \in indices : \A j \in DOMAIN batch :
        j < i /\ batch[j].trace = batch[i].trace => j \in indices

(***************************************************************************)
(* Mutant of PublishFails: FirstErr is not looked at.                      *)
(***************************************************************************)
PublishIgnored ==
    /\ spc = "publish"
    /\ \E indices \in SUBSET DOMAIN batch :
          Keyed(indices) /\ evidence' = evidence \cup Events(indices)
    /\ spc' = "advance"
    /\ UNCHANGED <<batch, publishUnchanged>>

(***************************************************************************)
(* ProduceSync returns an error; some of the records may have got through. *)
(***************************************************************************)
PublishFails ==
    /\ spc = "publish"
    /\ \E indices \in SUBSET DOMAIN batch :
          Keyed(indices) /\ evidence' = evidence \cup Events(indices)
    /\ spc' = "idle" /\ batch' = <<>>
    /\ UNCHANGED publishUnchanged

cursorUnchanged == <<diskVars, up, chainVars, next, evidence, logged, events, crashes, replaced>>

(***************************************************************************)
(* writeCursor: a temporary file, renamed over the cursor.                 *)
(***************************************************************************)
writeCursor ==
    /\ spc = "advance"
    /\ cursor' = next
    /\ spc' = "idle" /\ batch' = <<>>
    /\ UNCHANGED <<faults, cursorUnchanged>>

(***************************************************************************)
(* Mutant of writeCursorFails: the old cursor was removed first.           *)
(***************************************************************************)
writeCursorRemoves ==
    /\ spc = "advance"
    /\ Fault
    /\ cursor' \in {0, Corrupt}
    /\ spc' = "idle" /\ batch' = <<>>
    /\ UNCHANGED cursorUnchanged

(***************************************************************************)
(* CreateTemp, Close or Rename fails: the cursor stays.  An error of Write *)
(* is assigned to the if statement's own err and lost: what there is of    *)
(* the file is renamed over the cursor.                                    *)
(***************************************************************************)
writeCursorFails ==
    /\ spc = "advance"
    /\ Fault
    /\ cursor' \in {cursor, Corrupt}
    /\ spc' = "idle" /\ batch' = <<>>
    /\ UNCHANGED cursorUnchanged
-----------------------------------------------------------------------------
(***************************************************************************)
(* Mutant of Crash: ShipOnce's locals survive.                             *)
(***************************************************************************)
CrashKeepsBatch ==
    /\ up /\ crashes < MaxCrashes
    /\ crashes' = crashes + 1
    /\ up' = FALSE
    /\ spc' = "idle"
    /\ UNCHANGED <<diskVars, chainVars, cursor, batch, next, evidence, logged, events, faults,
                   replaced>>

Crash ==
    /\ up /\ crashes < MaxCrashes
    /\ crashes' = crashes + 1
    /\ up' = FALSE
    /\ spc' = "idle" /\ batch' = <<>>
    /\ UNCHANGED <<diskVars, chainVars, cursor, next, evidence, logged, events, faults, replaced>>

(***************************************************************************)
(* An operator moves the journal away while AOS is down.                   *)
(***************************************************************************)
ReplaceJournal ==
    /\ ~up
    /\ replaced < MaxReplacements
    /\ replaced' = replaced + 1
    /\ lines' = <<>> /\ tail' = "none" /\ last' = <<>>
    /\ UNCHANGED <<up, chainVars, cursor, shipVars, evidence, logged, events, crashes, faults>>

Next ==
    \/ NewFileChain
    \/ \E trace \in Traces : Log(trace) \/ SyncFails(trace) \/ WriteFails(trace)
    \/ ReadBatch \/ Publish \/ PublishFails \/ writeCursor \/ writeCursorFails
    \/ Crash \/ ReplaceJournal

Spec == Init /\ [][Next]_vars

(***************************************************************************)
(* The process is restarted, KafkaShipper.Run retries for ever, and Kafka  *)
(* acknowledges a batch that is offered again and again.                   *)
(***************************************************************************)
Fairness ==
    /\ WF_vars(NewFileChain)
    /\ WF_vars(ReadBatch)
    /\ SF_vars(Publish)
    /\ WF_vars(writeCursor \/ writeCursorFails)

FairSpec == Spec /\ Fairness
-----------------------------------------------------------------------------
(***************************************************************************)
(* "advances the cursor only once Kafka has acknowledged": every record    *)
(* before the cursor has reached Ernest, whatever fails or restarts.       *)
(***************************************************************************)
AckedBeforeCursor ==
    replaced = 0 /\ cursor # Corrupt
        => /\ cursor <= Len(lines)
           /\ \A i \in 1..cursor : ~lines[i].joined /\ lines[i].event \in evidence

(***************************************************************************)
(* "keyed by trace so a trace's events stay in order": Ernest never holds  *)
(* an event of a trace without the earlier ones.                           *)
(***************************************************************************)
TraceInOrder ==
    replaced = 0
        => \A i, j \in DOMAIN lines :
              /\ i < j
              /\ lines[i].trace = lines[j].trace
              /\ lines[j].event \in evidence
              => lines[i].event \in evidence

(***************************************************************************)
(* Log: whatever failed before, the file on disk verifies unless a record  *)
(* was torn or appended to a line without its newline.                     *)
(***************************************************************************)
ChainVerifies ==
    tail # "torn" /\ (\A i \in DOMAIN lines : ~lines[i].joined) => Verify

(***************************************************************************)
(* What only an operator can mend: a cursor that is not JSON, a joined or  *)
(* torn line, a journal that was moved away.                               *)
(***************************************************************************)
NeedsRepair ==
    \/ cursor = Corrupt
    \/ tail = "torn"
    \/ \E i \in DOMAIN lines : lines[i].joined
    \/ replaced > 0

(***************************************************************************)
(* "nothing is lost while they are down": a logged event reaches Ernest.   *)
(***************************************************************************)
EvidenceArrives ==
    \A e \in 1..MaxEvents : e \in logged ~> e \in evidence \/ NeedsRepair

(***************************************************************************)
(* The journal, the shipper and the cursor file together are an outbox:    *)
(* whatever the disk, Kafka or a restart does, every step appends, delivers*)
(* in order, acknowledges forwards what was delivered, loses the position  *)
(* or the journal, or changes nothing Ernest or an operator can see.       *)
(***************************************************************************)
Journal ==
    [i \in 1..Len(lines) |->
        [event |-> lines[i].event, trace |-> lines[i].trace, readable |-> ~lines[i].joined]]

Promise == INSTANCE Outbox WITH
    Unknown <- Corrupt,
    appended <- Journal,
    delivered <- evidence,
    acked <- cursor,
    intact <- (replaced = 0)

ImplementsOutbox == Promise!Spec

(***************************************************************************)
(* "writeCursor replaces the cursor atomically (write, fsync, rename)".    *)
(***************************************************************************)
CursorReadable == cursor # Corrupt
=============================================================================
