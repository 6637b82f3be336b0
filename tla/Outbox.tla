------------------------------- MODULE Outbox -------------------------------
(***************************************************************************)
(* What the audit journal promises Ernest, without files, batches, errors  *)
(* or restarts: entries are appended, delivered and acknowledged.  It is   *)
(* the outbox that audit/kafka_shipper.go:25-38 describes.                 *)
(***************************************************************************)
EXTENDS Naturals, Sequences

CONSTANT
    Unknown    \* the acknowledged position when nobody can read it

VARIABLES
    appended,  \* the journal's entries: an event, its trace, and whether it can be read
    delivered, \* events that have reached Ernest
    acked,     \* how many entries need not be delivered again
    intact     \* the journal is still the one that was started

vars == <<appended, delivered, acked, intact>>

Init ==
    /\ appended = <<>>
    /\ delivered = {}
    /\ acked = 0
    /\ intact = TRUE

(***************************************************************************)
(* One entry more, of an event that is not in the journal and that nobody  *)
(* has been shown.                                                         *)
(***************************************************************************)
AppendEntry ==
    /\ Len(appended') = Len(appended) + 1
    /\ \A i \in 1..Len(appended) : appended'[i] = appended[i]
    /\ intact
        => LET entry == appended'[Len(appended')]
           IN /\ entry.event \notin delivered
              /\ \A i \in 1..Len(appended) : appended[i].event # entry.event
    /\ UNCHANGED <<delivered, acked, intact>>

(***************************************************************************)
(* Nobody holds an event of a trace without the earlier ones.              *)
(***************************************************************************)
TraceOrdered(holds) ==
    \A i, j \in 1..Len(appended) :
        /\ i < j
        /\ appended[i].trace = appended[j].trace
        /\ appended[j].event \in holds
        => appended[i].event \in holds

(***************************************************************************)
(* Deliver some readable entries, each after the earlier ones of its trace.*)
(***************************************************************************)
Deliver ==
    /\ acked # Unknown
    /\ delivered \subseteq delivered'
    /\ intact
        => /\ TraceOrdered(delivered')
           /\ \A e \in delivered' \ delivered :
                 \E i \in 1..Len(appended) : appended[i].readable /\ appended[i].event = e
    /\ UNCHANGED <<appended, acked, intact>>

(***************************************************************************)
(* Never backwards, and never past an entry that is not delivered.         *)
(***************************************************************************)
Acknowledge ==
    /\ acked # Unknown
    /\ acked' \in Nat
    /\ intact
        => /\ acked' \in acked..Len(appended)
           /\ \A i \in 1..acked' : appended[i].readable /\ appended[i].event \in delivered
    /\ UNCHANGED <<appended, delivered, intact>>

(***************************************************************************)
(* From here on nothing is delivered or acknowledged.                      *)
(***************************************************************************)
LosePosition ==
    /\ acked' = Unknown
    /\ UNCHANGED <<appended, delivered, intact>>

(***************************************************************************)
(* The journal is moved away: order and position mean nothing any more,    *)
(* what was delivered stays delivered.                                     *)
(***************************************************************************)
Discard ==
    /\ appended' = <<>>
    /\ intact' = FALSE
    /\ UNCHANGED <<delivered, acked>>

Next == AppendEntry \/ Deliver \/ Acknowledge \/ LosePosition \/ Discard

Spec == Init /\ [][Next]_vars
=============================================================================
