---------------------------- MODULE PlannerProofs ---------------------------
(***************************************************************************)
(* Type correctness of Planner, and what becomes of one request, for any   *)
(* number of tasks, replies, users, faults and configurations: it is       *)
(* planned once, its answers to clarifications resume that one planning, a *)
(* refusal ends it, and what reaches the verifier has passed every check;  *)
(* a governed pipeline is sent there only with Prudence's ALLOW.           *)
(***************************************************************************)
EXTENDS Planner, SequenceTheorems, TLAPS

(***************************************************************************)
(* A configuration's intents are among the known names.                    *)
(***************************************************************************)
LEMMA NamesType ==
    ASSUME cfg \in Configs
    PROVE  Names \subseteq Operations
  BY ConfigsAssumption DEF Names, Operations

LEMMA BlankType == Blank \in ExecutionState
  BY DEF Blank, ExecutionState, Values, Operations

LEMMA InitTypes == Init => TypeOK
  <1> SUFFICES ASSUME Init PROVE TypeOK
    OBVIOUS
  <1>1. ask \in [Tasks -> Requests]
    <2>1. \A u \in Users : [pc |-> "new", user |-> u, op |-> "", amount |-> ""] \in Requests
      BY DEF Requests, Values, Operations
    <2> QED
      BY <2>1 DEF Init
  <1>2. req \in [Replies -> [pc : {"new", "read", "done"}, task : Tasks]]
    BY DEF Init
  <1>3. ibox \in Seq(Tasks) /\ pbox \in Seq(Messages)
    BY EmptySeq DEF Init
  <1>4. runs \in [Tasks -> Seq(Runs)]
    BY EmptySeq DEF Init
  <1> QED
    BY <1>1, <1>2, <1>3, <1>4, BlankType DEF Init, TypeOK, Outcomes

StoreType == [Tasks -> ExecutionState \cup {NoState}]

(***************************************************************************)
(* Saving a record, and putting a message in an inbox, keeps their types.  *)
(***************************************************************************)
LEMMA NextNat == \A n \in Nat : n + 1 \in Nat
  OBVIOUS

LEMMA DroppedType ==
    ASSUME TypeOK, Dropped \/ UNCHANGED dropped
    PROVE  dropped' \in Nat
  <1>1. dropped \in Nat
    BY DEF TypeOK
  <1> QED
    BY <1>1, NextNat DEF Dropped

LEMMA SaveType ==
    ASSUME TypeOK, NEW t \in Tasks, NEW st \in ExecutionState, Save(t, st)
    PROVE  store' \in StoreType /\ lost' \in Nat
  <1>1. CASE Saved(t, st)
    BY <1>1 DEF TypeOK, StoreType, Saved
  <1>2. CASE NotSaved
    <2>1. lost' \in Nat
      <3>1. lost \in Nat
        BY DEF TypeOK
      <3> QED
        BY <1>2, <3>1, NextNat DEF NotSaved
    <2>2. store' \in StoreType
      BY <1>2 DEF NotSaved, TypeOK, StoreType
    <2> QED
      BY <2>1, <2>2
  <1> QED
    BY <1>1, <1>2 DEF Save

LEMMA StoreResultType ==
    ASSUME TypeOK, NEW t \in Tasks, NEW status \in Outcomes, StoreResult(t, status)
    PROVE  results' \in [Tasks -> Outcomes] /\ answered' \subseteq Tasks
  BY DEF TypeOK, StoreResult

LEMMA ReceiveType ==
    ASSUME TypeOK, NEW type, Receive(type)
    PROVE  ptask' \in Tasks /\ pbox' \in Seq(Messages)
  <1>1. pbox \in Seq(Messages) /\ pbox # <<>>
    BY DEF TypeOK, Receive
  <1>2. Head(pbox) \in Messages /\ Tail(pbox) \in Seq(Messages)
    BY <1>1
  <1> QED
    BY <1>2 DEF Receive, Messages

LEMMA ClarificationType ==
    ASSUME TypeOK, NEW st \in ExecutionState, RequestClarification(st)
    PROVE  TypeOK'
  <1>1. store' \in StoreType /\ lost' \in Nat
    <2>1. ptask \in Tasks
      BY DEF TypeOK
    <2> QED
      BY <2>1, SaveType DEF RequestClarification
  <1>2. dropped' \in Nat
    BY DroppedType DEF RequestClarification
  <1>3. notices' \subseteq Tasks /\ clarified' \subseteq Tasks
    BY DEF RequestClarification, TypeOK
  <1>4. pst' = st /\ ppc' = "await" /\ ptask' = ptask
    BY DEF RequestClarification, Goto
  <1> QED
    BY <1>1, <1>2, <1>3, <1>4 DEF RequestClarification, TypeOK, StoreType

LEMMA AcceptType ==
    ASSUME TypeOK, NEW t \in Tasks, NEW op \in Operations, NEW amount \in Values \cup {"number"},
           Accept(t, op, amount)
    PROVE  TypeOK'
  <1>1. ask[t].user \in Users
    BY DEF TypeOK, Requests
  <1>2. [Blank EXCEPT !.user = ask[t].user, !.status = "processing"] \in ExecutionState
    BY <1>1 DEF Blank, ExecutionState, Values, Operations
  <1>3. store' \in StoreType
    BY <1>2 DEF Accept, Saved, TypeOK, StoreType
  <1>4. ask' \in [Tasks -> Requests]
    <2>1. [pc |-> "saved", user |-> ask[t].user, op |-> op, amount |-> amount] \in Requests
      BY <1>1 DEF Requests
    <2> QED
      BY <2>1 DEF Accept, TypeOK
  <1> QED
    BY <1>3, <1>4 DEF Accept, Saved, TypeOK, StoreType, plannerVars, history

LEMMA SendType ==
    ASSUME NEW S, NEW box \in Seq(S), NEW m \in S
    PROVE  Append(box, m) \in Seq(S)
  BY AppendProperties

LEMMA SentType ==
    ASSUME NEW r \in Requests
    PROVE  [r EXCEPT !.pc = "sent"] \in Requests
  BY DEF Requests

(***************************************************************************)
(* Every step keeps the types.                                             *)
(***************************************************************************)
LEMMA ApiTypes ==
    ASSUME TypeOK, NEW t \in Tasks
    PROVE  /\ handleAsk(t) => TypeOK'
           /\ handleAsk2(t) => TypeOK'
           /\ ApiStep(t) => TypeOK'
           /\ Poll(t) => TypeOK'
  <1>1. ASSUME handleAsk(t) PROVE TypeOK'
    <2>1. "" \in Operations /\ "" \in Values
      BY DEF Operations, Values
    <2> QED
      BY <1>1, <2>1, AcceptType DEF handleAsk
  <1>2. ASSUME handleAsk2(t) PROVE TypeOK'
    <2>1. PICK op \in Names \cup {"unknown"}, amount \in Values \cup {"number"} :
              Accept(t, op, amount)
      BY <1>2 DEF handleAsk2
    <2>2. op \in Operations
      BY NamesType DEF TypeOK, Operations
    <2> QED
      BY <2>1, <2>2, AcceptType
  <1>3. ASSUME Submit(t) PROVE TypeOK'
    <2>1. ask' \in [Tasks -> Requests]
      <3>1. ask \in [Tasks -> Requests]
        BY DEF TypeOK
      <3>2. [ask[t] EXCEPT !.pc = "sent"] \in Requests
        BY <3>1, SentType
      <3>3. ask' = [ask EXCEPT ![t] = [ask[t] EXCEPT !.pc = "sent"]]
        BY <1>3, <3>1 DEF Submit, Requests
      <3> QED
        BY <3>1, <3>2, <3>3
    <2>2. ctx' \subseteq Tasks
      BY <1>3 DEF Submit, TypeOK
    <2>3. ibox' \in Seq(Tasks)
      <3>1. ibox \in Seq(Tasks)
        BY DEF TypeOK
      <3>2. Append(ibox, t) \in Seq(Tasks)
        BY <3>1, SendType
      <3> QED
        BY <1>3, <3>1, <3>2 DEF Submit, Send
    <2>4. dropped' \in Nat
      BY <1>3, DroppedType DEF Submit, Send
    <2> QED
      BY <1>3, <2>1, <2>2, <2>3, <2>4 DEF Submit, TypeOK, plannerVars, history
  <1>4. ASSUME Notice(t) PROVE TypeOK'
    <2>1. results' \in [Tasks -> Outcomes] /\ answered' \subseteq Tasks
      BY <1>4, StoreResultType DEF Notice, Outcomes
    <2> QED
      BY <1>4, <2>1 DEF Notice, TypeOK, plannerVars, faults
  <1>5. ASSUME Poll(t) PROVE TypeOK'
    BY <1>5 DEF Poll, TypeOK, Outcomes, plannerVars, faults, history
  <1> QED
    BY <1>1, <1>2, <1>3, <1>4, <1>5 DEF ApiStep

LEMMA ReplyTypes ==
    ASSUME TypeOK, NEW r \in Replies
    PROVE  /\ SendReply(r) => TypeOK'
           /\ \A t \in Tasks, u \in Users : ReadForReply(r, t, u) => TypeOK'
  <1>1. ASSUME SendReply(r) PROVE TypeOK'
    <2>1. [type |-> "clarify_intent", task |-> req[r].task] \in Messages
      BY DEF TypeOK, Messages
    <2>2. pbox' \in Seq(Messages)
      <3>1. pbox \in Seq(Messages)
        BY DEF TypeOK
      <3>2. Append(pbox, [type |-> "clarify_intent", task |-> req[r].task]) \in Seq(Messages)
        BY <2>1, <3>1, SendType
      <3> QED
        BY <1>1, <3>1, <3>2 DEF SendReply, Send
    <2>3. dropped' \in Nat
      BY <1>1, DroppedType DEF SendReply, Send
    <2>4. req' \in [Replies -> [pc : {"new", "read", "done"}, task : Tasks]]
      BY <1>1 DEF SendReply, TypeOK
    <2> QED
      BY <1>1, <2>2, <2>3, <2>4 DEF SendReply, TypeOK, plannerVars, history
  <1>2. ASSUME NEW t \in Tasks, NEW u \in Users, ReadForReply(r, t, u) PROVE TypeOK'
    <2>1. req' \in [Replies -> [pc : {"new", "read", "done"}, task : Tasks]]
      BY <1>2 DEF ReadForReply, TypeOK
    <2> QED
      BY <1>2, <2>1 DEF ReadForReply, TypeOK, plannerVars, faults, history
  <1> QED
    BY <1>1, <1>2

LEMMA InspectTypes == ASSUME TypeOK, Inspect PROVE TypeOK'
  <1>1. Head(ibox) \in Tasks /\ Tail(ibox) \in Seq(Tasks)
    <2>1. ibox \in Seq(Tasks) /\ ibox # <<>>
      BY DEF Inspect, TypeOK
    <2> QED
      BY <2>1
  <1>2. [type |-> "detect_intent", task |-> Head(ibox)] \in Messages
    BY <1>1 DEF Messages
  <1>3. pbox' \in Seq(Messages)
    <2>1. pbox \in Seq(Messages)
      BY DEF TypeOK
    <2>2. Append(pbox, [type |-> "detect_intent", task |-> Head(ibox)]) \in Seq(Messages)
      BY <1>2, <2>1, SendType
    <2> QED
      BY <2>1, <2>2 DEF Inspect, Send
  <1>4. dropped' \in Nat
    BY DroppedType DEF Inspect, Send
  <1> QED
    BY <1>1, <1>3, <1>4 DEF Inspect, TypeOK, plannerVars, history

LEMMA CrashTypes == ASSUME TypeOK, Crash PROVE TypeOK'
  <1>1. ibox' \in Seq(Tasks) /\ pbox' \in Seq(Messages)
    BY EmptySeq DEF Crash
  <1>2. ask' \in [Tasks -> Requests]
    <2>1. ask \in [Tasks -> Requests]
      BY DEF TypeOK
    <2>2. \A t \in Tasks : ask[t] \in Requests /\ [ask[t] EXCEPT !.pc = "sent"] \in Requests
      BY <2>1, SentType
    <2> QED
      BY <2>2 DEF Crash
  <1>3. req' \in [Replies -> [pc : {"new", "read", "done"}, task : Tasks]]
    BY DEF Crash, TypeOK
  <1>4. crashes' \in Nat
    <2>1. crashes \in Nat
      BY DEF TypeOK
    <2> QED
      BY <2>1, NextNat DEF Crash
  <1> QED
    BY <1>1, <1>2, <1>3, <1>4, BlankType DEF Crash, TypeOK, Outcomes, history

(***************************************************************************)
(* The planner's record after each kind of change.                         *)
(***************************************************************************)
LEMMA RecordTypes ==
    ASSUME NEW st \in ExecutionState
    PROVE  /\ \A i \in Operations : [st EXCEPT !.intent = i] \in ExecutionState
           /\ \A i \in Operations, a \in Values :
                  /\ [st EXCEPT !.intent = i, !.amount = a] \in ExecutionState
                  /\ [st EXCEPT !.intent = i, !.amount = a, !.gate = "clarification"]
                         \in ExecutionState
           /\ \A d \in BOOLEAN : [st EXCEPT !.decision = d] \in ExecutionState
           /\ [st EXCEPT !.error = TRUE] \in ExecutionState
           /\ GateCleared(st) \in ExecutionState
           /\ [intent |-> st.intent, amount |-> st.amount] \in Runs
           /\ [Blank EXCEPT !.user = st.user, !.intent = st.intent, !.amount = st.amount,
                            !.status = "governance_blocked"] \in ExecutionState
  BY DEF ExecutionState, Blank, GateCleared, Runs, Values

LEMMA MergedType ==
    ASSUME TypeOK, NEW a \in Values
    PROVE  Merged(a) \in ExecutionState
  BY DEF TypeOK, Merged, ExecutionState

LEMMA OwnerType ==
    ASSUME TypeOK, NEW t \in Tasks
    PROVE  LET owner == [Blank EXCEPT !.user = ask[t].user]
           IN  /\ owner \in ExecutionState
               /\ [owner EXCEPT !.intent = ask[t].op, !.amount = Converted(ask[t].amount)]
                      \in ExecutionState
  <1>1. ask[t].user \in Users /\ ask[t].op \in Operations
    BY DEF TypeOK, Requests
  <1>2. Converted(ask[t].amount) \in Values
    BY DEF Converted, Values
  <1> QED
    BY <1>1, <1>2, BlankType, RecordTypes DEF ExecutionState

LEMMA DetectTypes ==
    ASSUME TypeOK
    PROVE  /\ handleDetectIntent => TypeOK'
           /\ DetectFails => TypeOK'
           /\ DetectIntent => TypeOK'
           /\ DetectMissing => TypeOK'
           /\ AwaitClarification => TypeOK'
  <1>1. ASSUME handleDetectIntent PROVE TypeOK'
    <2>1. ptask' \in Tasks /\ pbox' \in Seq(Messages)
      BY <1>1, ReceiveType DEF handleDetectIntent
    <2>2. ctx' \subseteq Tasks
      BY <1>1, <2>1 DEF handleDetectIntent, TypeOK
    <2>3. Save(ptask', [Blank EXCEPT !.user = ask[ptask'].user])
      BY <1>1 DEF handleDetectIntent, Save
    <2>4. store' \in StoreType /\ lost' \in Nat
      BY <2>1, <2>3, OwnerType, SaveType
    <2>5. pst' \in ExecutionState /\ ppc' \in {"detect", "authorize", "fail"}
      BY <1>1, <2>1, OwnerType DEF handleDetectIntent
    <2> QED
      BY <1>1, <2>1, <2>2, <2>4, <2>5 DEF handleDetectIntent, TypeOK, StoreType, history
  <1>2. ASSUME DetectFails PROVE TypeOK'
    BY <1>2 DEF DetectFails, Fail, Goto, TypeOK, faults, history
  <1>3. ASSUME DetectIntent PROVE TypeOK'
    <2>1. "system.fallback" \in Operations /\ Names \subseteq Operations
      BY NamesType DEF TypeOK, Operations
    <2>2. pst' \in ExecutionState
      <3>1. pst \in ExecutionState
        BY DEF TypeOK
      <3>2. CASE pst' = [pst EXCEPT !.intent = "system.fallback"]
        BY <2>1, <3>1, <3>2, RecordTypes
      <3>3. CASE \E i \in Names, a \in Values : pst' = [pst EXCEPT !.intent = i, !.amount = a]
        <4>1. PICK i \in Names, a \in Values : pst' = [pst EXCEPT !.intent = i, !.amount = a]
          BY <3>3
        <4>2. i \in Operations
          BY <2>1
        <4>3. [pst EXCEPT !.intent = i, !.amount = a] \in ExecutionState
          BY <3>1, <4>2, RecordTypes
        <4> QED
          BY <4>1, <4>3
      <3> QED
        BY <1>3, <3>2, <3>3 DEF DetectIntent
    <2> QED
      BY <1>3, <2>2 DEF DetectIntent, Goto, TypeOK, faults, history
  <1>4. ASSUME DetectMissing PROVE TypeOK'
    <2>1. PICK i \in Names, a \in Values :
              RequestClarification([pst EXCEPT !.intent = i, !.amount = a,
                                               !.gate = "clarification"])
      BY <1>4 DEF DetectMissing
    <2>2. pst \in ExecutionState /\ i \in Operations
      BY NamesType DEF TypeOK
    <2> QED
      BY <2>1, <2>2, RecordTypes, ClarificationType
  <1>5. ASSUME AwaitClarification PROVE TypeOK'
    <2>1. results' \in [Tasks -> Outcomes] /\ answered' \subseteq Tasks
      BY <1>5, StoreResultType DEF AwaitClarification, Outcomes, TypeOK
    <2> QED
      BY <1>5, <2>1, BlankType DEF AwaitClarification, Finish, TypeOK, faults
  <1> QED
    BY <1>1, <1>2, <1>3, <1>4, <1>5

LEMMA RefusedType ==
    ASSUME TypeOK, NEW reason \in {"rbac", "guard", "verdict"}, Refuse(reason)
    PROVE  refused' \in [Tasks -> {"", "rbac", "guard", "verdict"}]
  BY DEF TypeOK, Refuse

LEMMA GuardRefusesType ==
    ASSUME TypeOK, GuardRefuses
    PROVE  /\ results' \in [Tasks -> Outcomes] /\ answered' \subseteq Tasks
           /\ refused' \in [Tasks -> {"", "rbac", "guard", "verdict"}]
           /\ ppc' = "idle" /\ pst' \in ExecutionState /\ ptask' = ptask
  <1>1. ptask \in Tasks /\ "error" \in Outcomes
    BY DEF TypeOK, Outcomes
  <1> QED
    BY <1>1, RefusedType, StoreResultType, BlankType DEF GuardRefuses, Finish

LEMMA CheckTypes ==
    ASSUME TypeOK
    PROVE  /\ Authorize => TypeOK'
           /\ Validate => TypeOK'
           /\ ResumePlan => TypeOK'
  <1>1. ASSUME Authorize PROVE TypeOK'
    <2>1. refused' \in [Tasks -> {"", "rbac", "guard", "verdict"}]
      BY <1>1, RefusedType DEF Authorize, TypeOK
    <2>2. logged' \subseteq Tasks
      BY <1>1 DEF Authorize, TypeOK
    <2>3. ppc' \in {"validate", "fail"} /\ ptask' = ptask
      BY <1>1 DEF Authorize, Fail, Goto
    <2> QED
      BY <1>1, <2>1, <2>2, <2>3 DEF Authorize, TypeOK, faults
  <1>2. ASSUME Validate PROVE TypeOK'
    <2>1. /\ results' \in [Tasks -> Outcomes] /\ answered' \subseteq Tasks
          /\ refused' \in [Tasks -> {"", "rbac", "guard", "verdict"}]
          /\ ppc' \in {"idle", "gate", "fail"} /\ pst' \in ExecutionState /\ ptask' = ptask
      BY <1>2, GuardRefusesType DEF Validate, Fail, Goto, TypeOK
    <2> QED
      BY <1>2, <2>1 DEF Validate, TypeOK, faults
  <1>3. ASSUME ResumePlan PROVE TypeOK'
    <2>1. /\ results' \in [Tasks -> Outcomes] /\ answered' \subseteq Tasks
          /\ refused' \in [Tasks -> {"", "rbac", "guard", "verdict"}]
          /\ ppc' \in {"idle", "regate"} /\ pst' \in ExecutionState /\ ptask' = ptask
      BY <1>3, GuardRefusesType DEF ResumePlan, Goto, TypeOK
    <2> QED
      BY <1>3, <2>1 DEF ResumePlan, TypeOK, faults
  <1> QED
    BY <1>1, <1>2, <1>3

LEMMA GateTypes ==
    ASSUME TypeOK
    PROVE  /\ PassUngoverned => TypeOK'
           /\ RefuseUngoverned => TypeOK'
           /\ \A a \in Answers \cup {Unreachable} : Evaluate(a) => TypeOK'
  <1>1. ASSUME PassUngoverned PROVE TypeOK'
    <2>1. ppc' \in {"persist", "dispatch"} /\ ptask' = ptask
      BY <1>1 DEF PassUngoverned, Goto
    <2> QED
      BY <1>1, <2>1 DEF PassUngoverned, TypeOK, faults, history
  <1>2. ASSUME RefuseUngoverned PROVE TypeOK'
    <2>1. results' \in [Tasks -> Outcomes] /\ answered' \subseteq Tasks
      BY <1>2, StoreResultType DEF RefuseUngoverned, Outcomes, TypeOK
    <2> QED
      BY <1>2, <2>1, BlankType DEF RefuseUngoverned, Finish, TypeOK, faults
  <1>3. ASSUME NEW a \in Answers \cup {Unreachable}, Evaluate(a) PROVE TypeOK'
    <2>1. ptask \in Tasks /\ pst \in ExecutionState
      BY DEF TypeOK
    <2>2. allowed' \subseteq Tasks
      BY <1>3, <2>1 DEF Evaluate, Recorded, TypeOK
    <2>3. store' \in StoreType /\ lost' \in Nat
      <3>1. CASE UNCHANGED <<store, lost>>
        BY <3>1 DEF TypeOK, StoreType
      <3>2. CASE Save(ptask, Blocked)
        BY <2>1, <3>2, RecordTypes, SaveType DEF Blocked
      <3> QED
        BY <1>3, <3>1, <3>2 DEF Evaluate
    <2>4. results' \in [Tasks -> Outcomes] /\ answered' \subseteq Tasks
      <3>1. CASE UNCHANGED <<results, answered>>
        BY <3>1 DEF TypeOK
      <3>2. CASE \E status \in Outcomes : StoreResult(ptask, status)
        BY <2>1, <3>2, StoreResultType
      <3> QED
        BY <1>3, <3>1, <3>2 DEF Evaluate, Outcomes
    <2>5. refused' \in [Tasks -> {"", "rbac", "guard", "verdict"}]
      <3>1. CASE UNCHANGED refused
        BY <3>1 DEF TypeOK
      <3>2. CASE Refuse("verdict")
        BY <3>2, RefusedType
      <3> QED
        BY <1>3, <3>1, <3>2 DEF Evaluate
    <2>6. ppc' \in {"idle", "persist", "dispatch"} /\ pst' \in ExecutionState /\ ptask' = ptask
      BY <1>3, <2>1, BlankType DEF Evaluate, Goto, Finish
    <2> QED
      BY <1>3, <2>2, <2>3, <2>4, <2>5, <2>6 DEF Evaluate, TypeOK, StoreType
  <1> QED
    BY <1>1, <1>2, <1>3

LEMMA DispatchTypes ==
    ASSUME TypeOK
    PROVE  /\ PersistExecution => TypeOK'
           /\ DispatchPipeline => TypeOK'
  <1> ptask \in Tasks /\ pst \in ExecutionState
    BY DEF TypeOK
  <1>1. ASSUME PersistExecution PROVE TypeOK'
    <2>1. Governed(pst.intent) \in BOOLEAN
      BY DEF Governed
    <2>2. store' \in StoreType /\ lost' \in Nat
      BY <1>1, <2>1, RecordTypes, SaveType DEF PersistExecution
    <2> QED
      BY <1>1, <2>2 DEF PersistExecution, Goto, TypeOK, StoreType, history
  <1>2. ASSUME DispatchPipeline PROVE TypeOK'
    <2>1. runs' \in [Tasks -> Seq(Runs)]
      <3>1. runs \in [Tasks -> Seq(Runs)]
        BY DEF TypeOK
      <3>2. Append(runs[ptask], [intent |-> pst.intent, amount |-> pst.amount]) \in Seq(Runs)
        BY <3>1, RecordTypes, SendType
      <3> QED
        BY <1>2, <3>1, <3>2 DEF DispatchPipeline
    <2>2. answered' \subseteq Tasks
      BY <1>2 DEF DispatchPipeline, TypeOK
    <2>3. dropped' \in Nat
      BY <1>2, DroppedType DEF DispatchPipeline
    <2> QED
      BY <1>2, <2>1, <2>2, <2>3, BlankType DEF DispatchPipeline, Finish, TypeOK
  <1> QED
    BY <1>1, <1>2

LEMMA ClarifyTypes ==
    ASSUME TypeOK
    PROVE  /\ handleClarifyIntent => TypeOK'
           /\ ExtractFails => TypeOK'
           /\ ExtractMissing => TypeOK'
           /\ ExtractParams => TypeOK'
  <1> ptask \in Tasks /\ pst \in ExecutionState
    BY DEF TypeOK
  <1>1. ASSUME handleClarifyIntent PROVE TypeOK'
    <2>1. ptask' \in Tasks /\ pbox' \in Seq(Messages)
      BY <1>1, ReceiveType DEF handleClarifyIntent
    <2>2. pst' \in ExecutionState /\ ppc' \in {"extract", "fail"}
      BY <1>1, <2>1, BlankType DEF handleClarifyIntent, AwaitsReply, HasState, TypeOK
    <2> QED
      BY <1>1, <2>1, <2>2 DEF handleClarifyIntent, TypeOK, faults, history
  <1>2. ASSUME ExtractFails PROVE TypeOK'
    BY <1>2 DEF ExtractFails, Fail, Goto, TypeOK, faults, history
  <1>3. ASSUME ExtractMissing PROVE TypeOK'
    <2>1. PICK a \in Values : RequestClarification(Merged(a))
      BY <1>3 DEF ExtractMissing
    <2> QED
      BY <2>1, MergedType, ClarificationType
  <1>4. ASSUME ExtractParams PROVE TypeOK'
    <2>1. PICK a \in Values : pst' = GateCleared(Merged(a)) /\ Save(ptask, pst')
      BY <1>4 DEF ExtractParams
    <2>2. pst' \in ExecutionState
      BY <2>1, MergedType, RecordTypes
    <2>3. store' \in StoreType /\ lost' \in Nat
      BY <2>1, <2>2, SaveType
    <2> QED
      BY <1>4, <2>2, <2>3 DEF ExtractParams, Goto, TypeOK, StoreType, history
  <1> QED
    BY <1>1, <1>2, <1>3, <1>4

LEMMA ErrorTypes ==
    ASSUME TypeOK
    PROVE  /\ storeError => TypeOK'
           /\ SaveError => TypeOK'
  <1> ptask \in Tasks /\ pst \in ExecutionState
    BY DEF TypeOK
  <1>1. ASSUME storeError PROVE TypeOK'
    <2>1. results' \in [Tasks -> Outcomes] /\ answered' \subseteq Tasks
      BY <1>1, StoreResultType DEF storeError, Outcomes
    <2>2. (IF store[ptask] = NoState THEN Blank ELSE store[ptask]) \in ExecutionState
      BY BlankType DEF TypeOK
    <2>3. pst' \in ExecutionState /\ ppc' \in {"failsave", "idle"} /\ ptask' = ptask
      BY <1>1, <2>2, BlankType, RecordTypes DEF storeError, Goto, Finish
    <2> QED
      BY <1>1, <2>1, <2>3 DEF storeError, TypeOK, faults
  <1>2. ASSUME SaveError PROVE TypeOK'
    <2>1. store' \in StoreType /\ lost' \in Nat
      BY <1>2, SaveType DEF SaveError
    <2> QED
      BY <1>2, <2>1, BlankType DEF SaveError, Finish, TypeOK, StoreType, history
  <1> QED
    BY <1>1, <1>2

LEMMA StepTypes == TypeOK /\ [Next]_vars => TypeOK'
  <1> SUFFICES ASSUME TypeOK, [Next]_vars PROVE TypeOK'
    OBVIOUS
  <1>1. CASE PlannerStep
    BY <1>1, DetectTypes, CheckTypes, GateTypes, DispatchTypes, ClarifyTypes, ErrorTypes
       DEF PlannerStep, ModelAnswers, OwnStep
  <1>2. CASE Inspect
    BY <1>2, InspectTypes
  <1>3. CASE \E t \in Tasks : handleAsk(t) \/ handleAsk2(t) \/ ApiStep(t) \/ Poll(t)
    BY <1>3, ApiTypes
  <1>4. CASE \E r \in Replies :
                SendReply(r) \/ \E t \in Tasks, u \in Users : ReadForReply(r, t, u)
    BY <1>4, ReplyTypes
  <1>5. CASE Crash
    BY <1>5, CrashTypes
  <1>6. CASE UNCHANGED vars
    BY <1>6 DEF vars, plannerVars, faults, history, TypeOK
  <1> QED
    BY <1>1, <1>2, <1>3, <1>4, <1>5, <1>6 DEF Next

(***************************************************************************)
(* Every variable keeps its type, whatever the configuration, the faults   *)
(* and the interleaving (the records and messages of planner.go and        *)
(* api_agent.go).                                                          *)
(***************************************************************************)
THEOREM PlannerTypeCorrect == Spec => []TypeOK
  BY InitTypes, StepTypes, PTL DEF Spec
-----------------------------------------------------------------------------
(***************************************************************************)
(* The inductive invariant: once past the governance gate, the pipeline    *)
(* about to be sent has its ALLOW, or needs none.                          *)
(***************************************************************************)
NeedsVerdict(i) == cfg.intents[i].governed \/ (cfg.intents[i].aiSystem /\ cfg.pdp)

Cleared == ppc \in {"persist", "dispatch"} /\ NeedsVerdict(pst.intent) => ptask \in allowed

GateInv == GovernedOnlyWithAllow /\ Cleared

(***************************************************************************)
(* What most steps do to it: nothing is sent, no ALLOW is forgotten, and   *)
(* the planner is not brought past the gate.                               *)
(***************************************************************************)
Quiet ==
    /\ cfg' = cfg /\ runs' = runs /\ allowed \subseteq allowed'
    /\ \/ ppc' \notin {"persist", "dispatch"}
       \/ ppc' = ppc /\ pst' = pst /\ ptask' = ptask

LEMMA QuietKeeps == GateInv /\ Quiet => GateInv'
  BY DEF GateInv, GovernedOnlyWithAllow, Cleared, NeedsVerdict, Quiet

LEMMA OthersAreQuiet ==
    /\ \A t \in Tasks : handleAsk(t) \/ handleAsk2(t) \/ ApiStep(t) \/ Poll(t) => Quiet
    /\ \A r \in Replies : SendReply(r) => Quiet
    /\ \A r \in Replies, t \in Tasks, u \in Users : ReadForReply(r, t, u) => Quiet
    /\ Inspect \/ Crash \/ UNCHANGED vars => Quiet
  BY DEF Quiet, handleAsk, handleAsk2, Accept, ApiStep, Submit, Notice, Poll, SendReply,
         ReadForReply, Inspect, Crash, vars, plannerVars, history

LEMMA DetectIsQuiet ==
    /\ handleDetectIntent \/ DetectFails \/ DetectIntent \/ DetectMissing => Quiet
    /\ AwaitClarification \/ Authorize \/ Validate \/ RefuseUngoverned => Quiet
    /\ handleClarifyIntent \/ ExtractFails \/ ExtractMissing \/ ExtractParams => Quiet
    /\ ResumePlan \/ storeError \/ SaveError => Quiet
  BY DEF Quiet, handleDetectIntent, DetectFails, DetectIntent, DetectMissing, RequestClarification,
         AwaitClarification, Authorize, Validate, GuardRefuses, RefuseUngoverned,
         handleClarifyIntent, ExtractFails, ExtractMissing, ExtractParams, ResumePlan, storeError,
         SaveError, Goto, Finish, Fail, history

(***************************************************************************)
(* evaluate takes for ALLOW exactly the answer Prudence records as one.    *)
(***************************************************************************)
LEMMA AllowIsGenuine ==
    ASSUME NEW a \in Answers \cup {Unreachable}, evaluate(a) = "ALLOW"
    PROVE  a = [status |-> 200, decision |-> "ALLOW", id |-> TRUE]
  BY DEF Answers, Unreachable, evaluate, decisionForStatus

LEMMA GateStep == TypeOK /\ GateInv /\ [Next]_vars => GateInv'
  <1> SUFFICES ASSUME TypeOK, GateInv, [Next]_vars PROVE GateInv'
    OBVIOUS
  <1>1. CASE PassUngoverned
    <2>1. ~NeedsVerdict(pst.intent)
      BY <1>1 DEF PassUngoverned, Misconfigured, Governed, NeedsVerdict
    <2> QED
      BY <1>1, <2>1 DEF PassUngoverned, Goto, history, GateInv, GovernedOnlyWithAllow, Cleared,
                        NeedsVerdict
  <1>2. ASSUME NEW a \in Answers \cup {Unreachable}, Evaluate(a) PROVE GateInv'
    <2>1. cfg' = cfg /\ runs' = runs /\ allowed \subseteq allowed'
      BY <1>2 DEF Evaluate, Recorded
    <2>2. CASE evaluate(a) = "ALLOW"
      <3>1. allowed' = allowed \cup {ptask} /\ ptask' = ptask
        BY <1>2, <2>2, AllowIsGenuine DEF Evaluate, Recorded, Goto
      <3> QED
        BY <2>1, <3>1 DEF GateInv, GovernedOnlyWithAllow, Cleared
    <2>3. CASE evaluate(a) # "ALLOW"
      BY <1>2, <2>1, <2>3, QuietKeeps DEF Evaluate, Finish, Quiet
    <2> QED
      BY <2>2, <2>3
  <1>3. CASE PersistExecution
    BY <1>3 DEF PersistExecution, Goto, history, GateInv, GovernedOnlyWithAllow, Cleared,
                NeedsVerdict
  <1>4. CASE DispatchPipeline
    <2>1. cfg' = cfg /\ allowed' = allowed /\ ppc' = "idle"
      BY <1>4 DEF DispatchPipeline, Finish
    <2>2. CASE runs' = runs
      BY <2>1, <2>2, QuietKeeps DEF Quiet
    <2>3. CASE runs' = [runs EXCEPT ![ptask] =
                          Append(@, [intent |-> pst.intent, amount |-> pst.amount])]
      <3> DEFINE run == [intent |-> pst.intent, amount |-> pst.amount]
      <3>1. ptask \in Tasks /\ runs \in [Tasks -> Seq(Runs)] /\ run \in Runs
        BY RecordTypes DEF TypeOK
      <3>2. ASSUME NEW t \in Tasks, NEW k \in DOMAIN runs'[t], NeedsVerdict(runs'[t][k].intent)
            PROVE  t \in allowed
        <4>1. CASE t # ptask
          BY <2>3, <3>1, <3>2, <4>1 DEF GateInv, GovernedOnlyWithAllow, NeedsVerdict
        <4>2. CASE t = ptask /\ k \in DOMAIN runs[t]
          <5>1. runs'[t][k] = runs[t][k]
            BY <2>3, <3>1, <4>2, AppendProperties
          <5> QED
            BY <3>2, <4>2, <5>1 DEF GateInv, GovernedOnlyWithAllow, NeedsVerdict
        <4>3. CASE t = ptask /\ k \notin DOMAIN runs[t]
          <5>1. runs'[t][k] = run
            BY <2>3, <3>1, <4>3, AppendProperties
          <5>2. NeedsVerdict(pst.intent)
            BY <3>2, <5>1
          <5> QED
            BY <1>4, <4>3, <5>2 DEF GateInv, Cleared, DispatchPipeline
        <4> QED
          BY <4>1, <4>2, <4>3
      <3> QED
        BY <2>1, <3>2 DEF GateInv, GovernedOnlyWithAllow, Cleared, NeedsVerdict
    <2> QED
      BY <1>4, <2>2, <2>3 DEF DispatchPipeline
  <1> QED
    BY <1>1, <1>2, <1>3, <1>4, QuietKeeps, OthersAreQuiet, DetectIsQuiet
       DEF Next, PlannerStep, ModelAnswers, OwnStep

LEMMA GateInit == Init => GateInv
  <1> SUFFICES ASSUME Init PROVE GateInv
    OBVIOUS
  <1>1. \A t \in Tasks : DOMAIN runs[t] = {}
    <2>1. DOMAIN <<>> = {}
      OBVIOUS
    <2> QED
      BY <2>1 DEF Init
  <1>2. ppc = "idle"
    BY DEF Init
  <1> QED
    BY <1>1, <1>2 DEF GateInv, GovernedOnlyWithAllow, Cleared

(***************************************************************************)
(* No governed run without ALLOW (docs/threat-model.md, G1): for every     *)
(* configuration and any number of tasks, replies, lost saves, dropped     *)
(* messages and crashes, governanceGate stands before each run_pipeline.   *)
(***************************************************************************)
THEOREM GovernedRunsAreAllowed == Spec => []GovernedOnlyWithAllow
  <1>1. Spec => []TypeOK
    BY PlannerTypeCorrect
  <1>2. Spec => []GateInv
    BY <1>1, GateInit, GateStep, PTL DEF Spec
  <1>3. GateInv => GovernedOnlyWithAllow
    BY DEF GateInv
  <1> QED
    BY <1>2, <1>3, PTL
-----------------------------------------------------------------------------
(***************************************************************************)
(* A task waits for the planner until its detect_intent message is taken;  *)
(* then it is on its way, or its record waits for the requester's answer.  *)
(***************************************************************************)
InIbox(t) == \E i \in DOMAIN ibox : ibox[i] = t
Message(type, t) == [type |-> type, task |-> t]
InPbox(m) == \E i \in DOMAIN pbox : pbox[i] = m
Waiting(t) == ask[t].pc # "sent" \/ InIbox(t) \/ InPbox(Message("detect_intent", t))

OnItsWay == {"detect", "authorize", "validate", "gate", "persist", "dispatch", "resume", "regate"}
Going == ppc \in OnItsWay
Active(t) == ptask = t /\ Going

Gated(t) == store[t] # NoState /\ store[t].gate = "clarification"

(***************************************************************************)
(* An accepted request has a record, and it is its user's.                 *)
(***************************************************************************)
Owned ==
    \A t \in Tasks :
        IF ask[t].pc = "new" THEN ask[t].op = "" /\ store[t] = NoState
        ELSE store[t] # NoState /\ store[t].user = ask[t].user

(***************************************************************************)
(* new_task and detect_intent: no task has two of them.                    *)
(***************************************************************************)
Once ==
    /\ \A i, j \in DOMAIN ibox : ibox[i] = ibox[j] => i = j
    /\ \A i, j \in DOMAIN pbox :
           pbox[i] = pbox[j] /\ pbox[i].type = "detect_intent" => i = j
    /\ \A i \in DOMAIN ibox : /\ ask[ibox[i]].pc = "sent"
                              /\ ~InPbox(Message("detect_intent", ibox[i]))
    /\ \A i \in DOMAIN pbox : ask[pbox[i].task].pc = "sent"

Untouched(t) ==
    /\ runs[t] = <<>> /\ refused[t] = "" /\ ~Gated(t)
    /\ ppc # "idle" => ptask # t
    /\ ~InPbox(Message("clarify_intent", t))
    /\ \A r \in Replies : req[r].pc = "read" => req[r].task # t

Fresh == \A t \in Tasks : Waiting(t) => Untouched(t)

(***************************************************************************)
(* The planner's copy of the record.                                       *)
(***************************************************************************)
Working ==
    /\ ppc \notin {"idle", "fail"} => pst.user = ask[ptask].user
    /\ Going => pst.gate = ""
    /\ ppc = "extract" => pst = store[ptask] /\ Gated(ptask)
    /\ ppc = "failsave" => pst = [store[ptask] EXCEPT !.error = TRUE]

(***************************************************************************)
(* The runs a task has had, and the one it may still get, on its way or    *)
(* behind its gate: one, and one more for every save that was refused.     *)
(***************************************************************************)
Chances(t) == (IF Active(t) THEN 1 ELSE 0) + (IF Gated(t) THEN 1 ELSE 0)

Budget == \A t \in Tasks : Len(runs[t]) + Chances(t) <= 1 + lost

Final ==
    \A t \in Tasks : refused[t] # "" /\ lost = 0 => runs[t] = <<>> /\ ~Active(t) /\ ~Gated(t)

TaskInv == TypeOK /\ Owned /\ Once /\ Fresh /\ Working /\ Budget /\ Final

LEMMA InitTaskInv == Init => TaskInv
  <1> SUFFICES ASSUME Init PROVE TaskInv
    OBVIOUS
  <1> DEFINE New(u) == [pc |-> "new", user |-> u, op |-> "", amount |-> ""]
  <1>1. \A t \in Tasks : ask[t].pc = "new" /\ ask[t].op = "" /\ store[t] = NoState
    <2>1. \A u \in Users : New(u).pc = "new" /\ New(u).op = ""
      OBVIOUS
    <2> HIDE DEF New
    <2>2. ask \in [Tasks -> {New(u) : u \in Users}]
      BY DEF Init, New
    <2> QED BY <2>1, <2>2 DEF Init
  <1>2. DOMAIN ibox = {} /\ DOMAIN pbox = {} /\ ppc = "idle" /\ lost = 0
    <2>1. DOMAIN <<>> = {}
      OBVIOUS
    <2> QED BY <2>1 DEF Init
  <1>3. \A t \in Tasks : ~Gated(t) /\ ~Active(t) /\ runs[t] = <<>> /\ refused[t] = ""
    BY <1>1, <1>2 DEF Init, Gated, Active, Going, OnItsWay
  <1>4. Owned /\ Once
    BY <1>1, <1>2 DEF Owned, Once
  <1>5. Fresh
    <2>1. \A r \in Replies : req[r].pc # "read"
      BY DEF Init
    <2> QED BY <1>2, <1>3, <2>1 DEF Fresh, Untouched, InPbox
  <1>6. Working
    BY <1>2 DEF Working, Going, OnItsWay
  <1>7. Budget /\ Final
    <2>1. Len(<<>>) = 0
      OBVIOUS
    <2>2. \A t \in Tasks : Len(runs[t]) = 0
      BY <1>3, <2>1
    <2>3. \A t \in Tasks : Chances(t) = 0
      <3>1. \A t \in Tasks : ~Gated(t) /\ ~Active(t)
        BY <1>3
      <3> QED BY <3>1 DEF Chances
    <2>4. Budget
      BY <1>2, <2>2, <2>3 DEF Budget
    <2> QED BY <1>3, <2>4 DEF Final
  <1> QED BY <1>4, <1>5, <1>6, <1>7, InitTypes DEF TaskInv
-----------------------------------------------------------------------------
(***************************************************************************)
(* A step of the planner on the task in hand, once the task's message has  *)
(* been taken: it saves at most that task's record, for its user, and      *)
(* leaves the requests and inboxes alone.  It passes the one run on, or    *)
(* back to the gate, or sends it, or a save was refused; a refusal ends    *)
(* the task's way.                                                         *)
(***************************************************************************)
Local ==
    /\ ppc # "idle" /\ ptask' = ptask
    /\ UNCHANGED <<cfg, ask, req, ibox, pbox>>
    /\ \/ store' = store
       \/ \E st \in ExecutionState : /\ store' = [store EXCEPT ![ptask] = st]
                                     /\ st.user = ask[ptask].user

Spends ==
    \/ /\ lost' = lost /\ runs' = runs
       /\ (Going' => Going) /\ (Gated(ptask)' => Gated(ptask))
    \/ lost' = lost /\ runs' = runs /\ Going /\ ~Going'
    \/ lost' = lost /\ runs' = runs /\ Gated(ptask) /\ ~Gated(ptask)'
    \/ lost' = lost + 1 /\ runs' = runs /\ store' = store
    \/ /\ lost' = lost /\ store' = store /\ Going /\ ~Going'
       /\ \E run \in Runs : runs' = [runs EXCEPT ![ptask] = Append(@, run)]

Refuses ==
    \/ refused' = refused
    \/ /\ \E reason \in {"rbac", "guard", "verdict"} : Refuse(reason)
       /\ runs' = runs /\ Going /\ ~Going'
       /\ (Gated(ptask)' => Gated(ptask)) \/ lost' # lost

Work == Local /\ Spends /\ Refuses

LEMMA LocalKeeps ==
    ASSUME TaskInv, Work
    PROVE  Owned' /\ Once' /\ Fresh'
  <1>1. ptask \in Tasks /\ store \in StoreType /\ ~Waiting(ptask)
    BY DEF TaskInv, TypeOK, StoreType, Work, Local, Fresh, Untouched
  <1>2. \A t \in Tasks \ {ptask} : store'[t] = store[t]
    BY <1>1 DEF Work, Local, StoreType
  <1>3. store'[ptask] = store[ptask]
        \/ (store'[ptask] \in ExecutionState /\ store'[ptask].user = ask[ptask].user)
    BY <1>1 DEF Work, Local, StoreType
  <1>4. /\ ask' = ask /\ req' = req /\ ibox' = ibox /\ pbox' = pbox /\ ptask' = ptask
        /\ ppc # "idle"
    BY DEF Work, Local
  <1>5. ask[ptask].pc = "sent"
    BY <1>1 DEF Waiting
  <1>6. Owned'
    <2> SUFFICES ASSUME NEW t \in Tasks
                 PROVE  IF ask[t].pc = "new" THEN ask[t].op = "" /\ store'[t] = NoState
                        ELSE store'[t] # NoState /\ store'[t].user = ask[t].user
      BY <1>4 DEF Owned
    <2>1. CASE t = ptask
      BY <1>1, <1>3, <1>5, <2>1, NoStateAssumption DEF NoStateAssumption, TaskInv, Owned
    <2>2. CASE t # ptask
      BY <1>2, <2>2 DEF TaskInv, Owned
    <2> QED BY <2>1, <2>2
  <1>7. Once'
    BY <1>4 DEF TaskInv, Once, InPbox
  <1>8. Fresh'
    <2> SUFFICES ASSUME NEW t \in Tasks, Waiting(t)' PROVE Untouched(t)'
      BY DEF Fresh
    <2>1. Waiting(t) /\ t # ptask
      BY <1>1, <1>4 DEF Waiting, InIbox, InPbox
    <2>2. Untouched(t)
      BY <2>1 DEF TaskInv, Fresh
    <2>3. runs'[t] = runs[t]
      BY <1>1, <2>1 DEF Work, Spends, TaskInv, TypeOK
    <2>4. refused'[t] = refused[t]
      BY <1>1, <2>1 DEF Work, Refuses, Refuse, TaskInv, TypeOK
    <2>5. Gated(t)' = Gated(t)
      BY <1>2, <2>1 DEF Gated
    <2> QED BY <1>4, <2>1, <2>2, <2>3, <2>4, <2>5 DEF Untouched, InPbox
  <1> QED BY <1>6, <1>7, <1>8

LEMMA NoLoss ==
    ASSUME NEW l \in Nat, NEW ll, ll = l \/ ll = l + 1, ll = 0
    PROVE  l = 0 /\ ll = l /\ ll # l + 1
  OBVIOUS

LEMMA LastChance ==
    ASSUME NEW runsSent \in Nat, NEW gates \in {0, 1}, NEW chances, NEW l,
           chances = 1 + gates, runsSent + chances <= 1 + l, l = 0
    PROVE  runsSent = 0 /\ gates = 0
  OBVIOUS

LEMMA WorkKeepsBudget ==
    ASSUME TaskInv, Work
    PROVE  Budget' /\ Final'
  <1>1. /\ ptask \in Tasks /\ ptask' = ptask /\ runs \in [Tasks -> Seq(Runs)] /\ lost \in Nat
        /\ store \in StoreType
    BY DEF TaskInv, TypeOK, StoreType, Work, Local
  <1>2. \A t \in Tasks \ {ptask} : store'[t] = store[t]
    BY <1>1 DEF Work, Local, StoreType
  <1>3. lost \in Nat /\ (lost' = lost \/ lost' = lost + 1)
    BY DEF Work, Spends, TaskInv, TypeOK
  <1>4. ASSUME NEW t \in Tasks, t # ptask
        PROVE  /\ Len(runs'[t]) + Chances(t)' <= 1 + lost'
               /\ refused'[t] # "" /\ lost' = 0 => runs'[t] = <<>> /\ ~Active(t)' /\ ~Gated(t)'
    <2>1. ~Active(t) /\ ~Active(t)' /\ Gated(t)' = Gated(t) /\ runs'[t] = runs[t]
      BY <1>1, <1>2, <1>4 DEF Active, Gated, Work, Spends
    <2>2. refused'[t] = refused[t]
      BY <1>1, <1>4 DEF Work, Refuses, Refuse, TaskInv, TypeOK
    <2>3. Chances(t)' = Chances(t) /\ Chances(t) \in Nat /\ Len(runs[t]) \in Nat
      BY <1>1, <1>4, <2>1 DEF Chances
    <2>4. Len(runs[t]) + Chances(t) <= 1 + lost
      BY <1>4 DEF TaskInv, Budget
    <2>5. Len(runs'[t]) + Chances(t)' <= 1 + lost'
      BY <1>1, <1>3, <2>1, <2>3, <2>4
    <2>6. lost' = 0 => lost = 0
      BY <1>3
    <2> QED BY <1>4, <2>1, <2>2, <2>5, <2>6 DEF TaskInv, Final
  <1>5. /\ Active(ptask) <=> Going
        /\ Active(ptask)' <=> Going'
    BY <1>1 DEF Active
  <1>6. Len(runs[ptask]) + Chances(ptask) <= 1 + lost /\ Len(runs[ptask]) \in Nat
    BY <1>1 DEF TaskInv, Budget
  <1>7. Len(runs'[ptask]) + Chances(ptask)' <= 1 + lost'
    <2> DEFINE A == IF Going THEN 1 ELSE 0
               AA == IF Going' THEN 1 ELSE 0
               G == IF Gated(ptask) THEN 1 ELSE 0
               GG == IF Gated(ptask)' THEN 1 ELSE 0
    <2>1. Chances(ptask) = A + G /\ Chances(ptask)' = AA + GG
      BY <1>1, <1>5 DEF Chances, Active
    <2>2. A \in {0, 1} /\ AA \in {0, 1} /\ G \in {0, 1} /\ GG \in {0, 1}
      OBVIOUS
    <2>3. \/ lost' = lost /\ runs' = runs /\ AA <= A /\ GG <= G
          \/ lost' = lost /\ runs' = runs /\ A = 1 /\ AA = 0
          \/ lost' = lost /\ runs' = runs /\ G = 1 /\ GG = 0
          \/ lost' = lost + 1 /\ runs' = runs /\ GG = G
          \/ /\ lost' = lost /\ A = 1 /\ AA = 0 /\ GG = G
             /\ \E run \in Runs : runs' = [runs EXCEPT ![ptask] = Append(@, run)]
      <3>1. store' = store => Gated(ptask)' = Gated(ptask)
        BY <1>1 DEF Gated
      <3> QED BY <3>1 DEF Work, Spends
    <2>4. (\E run \in Runs : runs' = [runs EXCEPT ![ptask] = Append(@, run)])
             => Len(runs'[ptask]) = Len(runs[ptask]) + 1
      BY <1>1, AppendProperties
    <2> HIDE DEF A, AA, G, GG
    <2> DEFINE L == Len(runs[ptask])
    <2>5. \/ lost' = lost /\ Len(runs'[ptask]) = L /\ AA <= A /\ GG <= G
          \/ lost' = lost /\ Len(runs'[ptask]) = L /\ A = 1 /\ AA = 0
          \/ lost' = lost /\ Len(runs'[ptask]) = L /\ G = 1 /\ GG = 0
          \/ lost' = lost + 1 /\ Len(runs'[ptask]) = L /\ GG = G
          \/ lost' = lost /\ A = 1 /\ AA = 0 /\ GG = G /\ Len(runs'[ptask]) = L + 1
      BY <2>3, <2>4
    <2>6. L \in Nat /\ L + (A + G) <= 1 + lost
      BY <1>6, <2>1
    <2> DEFINE LL == Len(runs'[ptask])
    <2> HIDE DEF L
    <2>7. \/ lost' = lost /\ LL = L /\ AA <= A /\ GG <= G
          \/ lost' = lost /\ LL = L /\ A = 1 /\ AA = 0
          \/ lost' = lost /\ LL = L /\ G = 1 /\ GG = 0
          \/ lost' = lost + 1 /\ LL = L /\ GG = G
          \/ lost' = lost /\ A = 1 /\ AA = 0 /\ GG = G /\ LL = L + 1
      BY <2>5
    <2> HIDE DEF LL
    <2>8. LL + (AA + GG) <= 1 + lost'
      BY <1>3, <2>2, <2>6, <2>7
    <2> QED BY <2>1, <2>8 DEF LL
  <1>8. ASSUME refused'[ptask] # "", lost' = 0
        PROVE  runs'[ptask] = <<>> /\ ~Active(ptask)' /\ ~Gated(ptask)'
    <2>1. lost = 0 /\ lost' = lost /\ lost' # lost + 1
      BY <1>3, <1>8, NoLoss
    <2>2. CASE refused' = refused
      <3>1. runs[ptask] = <<>> /\ ~Going /\ ~Gated(ptask)
        BY <1>1, <1>5, <1>8, <2>1, <2>2 DEF TaskInv, Final
      <3>2. runs' = runs /\ ~Going' /\ (Gated(ptask)' => Gated(ptask))
        BY <2>1, <3>1 DEF Work, Spends
      <3> QED BY <1>5, <3>1, <3>2
    <2>3. CASE runs' = runs /\ Going /\ ~Going' /\ (Gated(ptask)' => Gated(ptask))
      <3>1. Chances(ptask) = 1 + (IF Gated(ptask) THEN 1 ELSE 0)
        BY <1>5, <2>3 DEF Chances
      <3>2. ~Gated(ptask) /\ Len(runs[ptask]) = 0
        <4> DEFINE g == IF Gated(ptask) THEN 1 ELSE 0
        <4>1. g \in {0, 1} /\ (g = 0 => ~Gated(ptask))
          OBVIOUS
        <4>2. Chances(ptask) = 1 + g
          BY <3>1
        <4> HIDE DEF g
        <4>3. Len(runs[ptask]) = 0 /\ g = 0
          BY <1>6, <2>1, <4>1, <4>2, LastChance
        <4> QED BY <4>1, <4>3
      <3>3. runs[ptask] = <<>>
        BY <1>1, <3>2, EmptySeq
      <3> QED BY <1>5, <2>3, <3>2, <3>3
    <2> QED BY <2>1, <2>2, <2>3 DEF Work, Refuses
  <1>9. \A t \in Tasks : /\ Len(runs'[t]) + Chances(t)' <= 1 + lost'
                         /\ refused'[t] # "" /\ lost' = 0
                               => runs'[t] = <<>> /\ ~Active(t)' /\ ~Gated(t)'
    <2> TAKE t \in Tasks
    <2>1. CASE t # ptask
      BY <1>4, <2>1
    <2>2. CASE t = ptask
      <3>1. Chances(t)' = Chances(ptask)' /\ Active(t)' = Active(ptask)' /\ Gated(t)' = Gated(ptask)'
        BY <1>1, <2>2 DEF Chances, Active, Gated
      <3> QED BY <1>7, <1>8, <2>2, <3>1
    <2> QED BY <2>1, <2>2
  <1> QED BY <1>9 DEF Budget, Final
-----------------------------------------------------------------------------
(***************************************************************************)
(* The planner's steps on the task in hand are such steps (planner.go,     *)
(* gate.go, taskctx.go).                                                   *)
(***************************************************************************)
LEMMA FallbackFields ==
    ASSUME NEW st \in ExecutionState, NEW i \in Operations
    PROVE  LET rec == [st EXCEPT !.intent = i]
           IN  rec \in ExecutionState /\ rec.user = st.user /\ rec.gate = st.gate
  BY DEF ExecutionState

LEMMA ErrorFields ==
    ASSUME NEW st \in ExecutionState
    PROVE  LET rec == [st EXCEPT !.error = TRUE]
           IN  /\ rec \in ExecutionState /\ rec.user = st.user /\ rec.gate = st.gate
               /\ rec.intent = st.intent
  BY DEF ExecutionState

LEMMA ClearedFields ==
    ASSUME NEW st \in ExecutionState
    PROVE  /\ GateCleared(st) \in ExecutionState
           /\ GateCleared(st).user = st.user /\ GateCleared(st).gate = ""
           /\ GateCleared(st).intent = st.intent /\ GateCleared(st).amount = st.amount
  BY DEF ExecutionState, GateCleared

LEMMA NextIsAnother == \A n \in Nat : n + 1 # n
  OBVIOUS

LEMMA MergedFields ==
    ASSUME TypeOK, NEW a \in Values
    PROVE  /\ Merged(a) \in ExecutionState
           /\ Merged(a).user = pst.user /\ Merged(a).gate = pst.gate
           /\ Merged(a).intent = pst.intent
  BY DEF TypeOK, Merged, ExecutionState

LEMMA BlockedFields ==
    ASSUME TypeOK
    PROVE  Blocked \in ExecutionState /\ Blocked.user = pst.user /\ Blocked.gate = ""
  BY DEF TypeOK, Blocked, Blank, ExecutionState

LEMMA InHand ==
    ASSUME TaskInv, ppc # "idle"
    PROVE  /\ ptask \in Tasks /\ ask[ptask].pc = "sent"
           /\ store[ptask] \in ExecutionState /\ store[ptask].user = ask[ptask].user
           /\ pst \in ExecutionState
  <1>1. ptask \in Tasks /\ pst \in ExecutionState
    BY DEF TaskInv, TypeOK
  <1>2. ask[ptask].pc = "sent"
    BY <1>1 DEF TaskInv, Fresh, Untouched, Waiting
  <1>3. store[ptask] # NoState /\ store[ptask].user = ask[ptask].user
    BY <1>1, <1>2 DEF TaskInv, Owned
  <1> QED BY <1>1, <1>2, <1>3 DEF TaskInv, TypeOK

(***************************************************************************)
(* A save of a record with or without the gate.                            *)
(***************************************************************************)
LEMMA SaveShape ==
    ASSUME TaskInv, ppc # "idle", ptask' = ptask, UNCHANGED <<cfg, ask, req, ibox, pbox, runs>>,
           NEW st \in ExecutionState, Save(ptask, st), st.user = ask[ptask].user,
           \/ Going /\ ~Going'
           \/ st.gate = "" /\ (Going' => Going)
           \/ st.gate = "" /\ Gated(ptask)
           \/ Gated(ptask) /\ (Going' => Going)
    PROVE  /\ Local /\ Spends
           /\ store'[ptask] = st \/ store' = store
           /\ (Gated(ptask)' => st.gate = "clarification" \/ lost' # lost)
  <1>1. ptask \in Tasks /\ store \in StoreType /\ lost \in Nat
    BY DEF TaskInv, TypeOK, StoreType
  <1>2. CASE Saved(ptask, st)
    <2>1. store' = [store EXCEPT ![ptask] = st] /\ lost' = lost /\ runs' = runs
      BY <1>2 DEF Saved
    <2>2. store'[ptask] = st
      BY <1>1, <2>1 DEF StoreType
    <2>3. Gated(ptask)' => st.gate = "clarification"
      BY <2>2 DEF Gated
    <2>4. Local
      BY <2>1 DEF Local
    <2>5. Spends
      BY <2>1, <2>3 DEF Spends
    <2> QED BY <2>2, <2>3, <2>4, <2>5
  <1>3. CASE NotSaved
    <2>1. store' = store /\ lost' = lost + 1 /\ runs' = runs
      BY <1>3 DEF NotSaved
    <2>2. lost' # lost
      BY <1>1, <2>1, NextIsAnother
    <2> QED BY <2>1, <2>2 DEF Local, Spends
  <1> QED BY <1>2, <1>3 DEF Save

(***************************************************************************)
(* A step that saves nothing and sends nothing.                            *)
(***************************************************************************)
LEMMA QuietShape ==
    ASSUME TaskInv, ppc # "idle", ptask' = ptask,
           UNCHANGED <<cfg, ask, req, ibox, pbox, runs, store, lost>>, Going' => Going
    PROVE  Local /\ Spends
  BY DEF Local, Spends, Gated

LEMMA Places == /\ "clarification" # ""
                /\ {"idle", "await", "extract", "fail", "failsave"} \cap OnItsWay = {}
  BY DEF OnItsWay

LEMMA DetectWorks ==
    ASSUME TaskInv, DetectFails \/ DetectIntent \/ DetectMissing \/ AwaitClarification
    PROVE  Work /\ Working'
  <1>1. CASE DetectFails \/ DetectIntent
    <2>1. /\ ppc = "detect" /\ Going /\ ptask' = ptask /\ refused' = refused
          /\ UNCHANGED <<cfg, ask, req, ibox, pbox, runs, store, lost>>
          /\ ppc' \in {"fail", "authorize"}
      BY <1>1 DEF DetectFails, DetectIntent, Fail, Goto, faults, history, Going, OnItsWay
    <2>2. Work
      BY <2>1, QuietShape DEF Work, Refuses
    <2>3. ppc' = "authorize" => pst'.user = pst.user /\ pst'.gate = pst.gate
      <3> SUFFICES ASSUME ppc' = "authorize"
                   PROVE  pst'.user = pst.user /\ pst'.gate = pst.gate
        OBVIOUS
      <3>1. DetectIntent
        BY <1>1 DEF DetectFails, Fail, Goto
      <3>2. pst \in ExecutionState /\ "system.fallback" \in Operations /\ Names \subseteq Operations
        BY NamesType DEF TaskInv, TypeOK, Operations
      <3>3. CASE pst' = [pst EXCEPT !.intent = "system.fallback"]
        BY <3>2, <3>3, FallbackFields
      <3>4. CASE \E i \in Names, a \in Values : pst' = [pst EXCEPT !.intent = i, !.amount = a]
        <4> PICK i \in Names, a \in Values : pst' = [pst EXCEPT !.intent = i, !.amount = a]
          BY <3>4
        <4> QED BY <3>2 DEF ExecutionState
      <3> QED BY <3>1, <3>3, <3>4 DEF DetectIntent
    <2>4. pst.user = ask[ptask].user /\ pst.gate = ""
      BY <2>1 DEF TaskInv, Working
    <2> QED BY <2>1, <2>2, <2>3, <2>4 DEF Working, Going, OnItsWay
  <1>2. CASE DetectMissing
    <2>1. PICK i \in Names, a \in Values :
              RequestClarification([pst EXCEPT !.intent = i, !.amount = a,
                                               !.gate = "clarification"])
      BY <1>2 DEF DetectMissing
    <2> DEFINE st == [pst EXCEPT !.intent = i, !.amount = a, !.gate = "clarification"]
    <2>2. ppc = "detect" /\ Going
      BY <1>2 DEF DetectMissing, Going, OnItsWay
    <2>3. i \in Operations /\ pst \in ExecutionState
      BY <2>2, InHand, NamesType DEF TaskInv, TypeOK
    <2>4. st \in ExecutionState /\ st.user = pst.user
      BY <2>3 DEF ExecutionState
    <2>5. pst.user = ask[ptask].user
      BY <2>2 DEF TaskInv, Working
    <2> HIDE DEF st
    <2>6. /\ Save(ptask, st) /\ ptask' = ptask /\ ppc' = "await" /\ pst' = st
          /\ UNCHANGED <<cfg, ask, req, ibox, pbox, runs, refused>>
      BY <2>1 DEF RequestClarification, Goto, st
    <2>7. ~Going'
      BY <2>6 DEF Going, OnItsWay
    <2>8. Work
      BY <2>2, <2>4, <2>5, <2>6, <2>7, SaveShape DEF Work, Refuses
    <2> QED BY <2>4, <2>5, <2>6, <2>7, <2>8 DEF Working
  <1>3. CASE AwaitClarification
    <2>1. /\ ppc = "await" /\ ptask' = ptask /\ refused' = refused /\ ppc' = "idle"
          /\ UNCHANGED <<cfg, ask, req, ibox, pbox, runs, store, lost>>
      BY <1>3 DEF AwaitClarification, Finish, faults
    <2>2. ~Going'
      BY <2>1 DEF Going, OnItsWay
    <2> QED BY <2>1, <2>2, QuietShape DEF Work, Refuses, Working
  <1> QED BY <1>1, <1>2, <1>3

LEMMA RefusalWorks ==
    ASSUME TaskInv, ppc # "idle", ptask' = ptask,
           UNCHANGED <<cfg, ask, req, ibox, pbox, runs, store, lost>>, Going,
           \/ refused' = refused /\ (Going' => Going)
           \/ (\E reason \in {"rbac", "guard", "verdict"} : Refuse(reason)) /\ ~Going'
    PROVE  Work
  <1>1. Local /\ Spends
    BY QuietShape
  <1>2. Gated(ptask)' = Gated(ptask)
    BY DEF Gated
  <1> QED BY <1>1, <1>2 DEF Work, Refuses

LEMMA SamePlace ==
    ASSUME TaskInv, Going, ptask' = ptask, ask' = ask, pst' = pst, ppc' \in OnItsWay \cup {"fail", "idle"}
    PROVE  Working'
  <1>1. ppc \notin {"idle", "fail", "extract", "failsave"}
    BY DEF Going, OnItsWay
  <1>2. pst.user = ask[ptask].user /\ pst.gate = ""
    BY <1>1 DEF TaskInv, Working
  <1> QED BY <1>2 DEF Working, Going, OnItsWay

LEMMA EndsWork ==
    ASSUME ppc' \in {"idle", "fail"}
    PROVE  Working' /\ ~Going'
  BY DEF Working, Going, OnItsWay

LEMMA CheckWorks ==
    ASSUME TaskInv, Authorize \/ Validate \/ ResumePlan
    PROVE  Work /\ Working'
  <1>1. /\ Going /\ ppc # "idle" /\ ptask' = ptask
        /\ UNCHANGED <<cfg, ask, req, ibox, pbox, runs, store, lost>>
    BY DEF Authorize, Validate, ResumePlan, Going, OnItsWay, Fail, Goto, GuardRefuses, Finish, faults
  <1>2. CASE Authorize
    <2>1. /\ \/ refused' = refused
             \/ Refuse("rbac") /\ ppc' = "fail"
          /\ pst' = pst /\ ppc' \in {"fail", "validate"}
      BY <1>2 DEF Authorize, Fail, Goto
    <2>2. Working'
      BY <1>1, <2>1, SamePlace DEF OnItsWay
    <2> QED BY <1>1, <2>1, <2>2, RefusalWorks, EndsWork
  <1>3. CASE Validate
    <2>1. \/ refused' = refused /\ pst' = pst /\ ppc' \in {"fail", "gate"}
          \/ Refuse("guard") /\ ppc' = "idle"
      BY <1>3 DEF Validate, GuardRefuses, Finish, Fail, Goto
    <2>2. Working'
      BY <1>1, <2>1, SamePlace, EndsWork DEF OnItsWay
    <2> QED BY <1>1, <2>1, <2>2, RefusalWorks, EndsWork
  <1>4. CASE ResumePlan
    <2>1. \/ refused' = refused /\ pst' = pst /\ ppc' = "regate"
          \/ Refuse("guard") /\ ppc' = "idle"
      BY <1>4 DEF ResumePlan, GuardRefuses, Finish, Goto
    <2>2. Working'
      BY <1>1, <2>1, SamePlace, EndsWork DEF OnItsWay
    <2> QED BY <1>1, <2>1, <2>2, RefusalWorks, EndsWork
  <1> QED BY <1>2, <1>3, <1>4

LEMMA GateWorks ==
    ASSUME TaskInv,
           PassUngoverned \/ RefuseUngoverned \/ \E a \in Answers \cup {Unreachable} : Evaluate(a)
    PROVE  Work /\ Working'
  <1>1. /\ Going /\ ppc # "idle" /\ ptask' = ptask
        /\ UNCHANGED <<cfg, ask, req, ibox, pbox, runs>>
    BY DEF PassUngoverned, RefuseUngoverned, Evaluate, AtGate, Going, OnItsWay, Goto, Finish, history
  <1>2. CASE PassUngoverned \/ RefuseUngoverned
    <2>1. /\ refused' = refused /\ store' = store /\ lost' = lost
          /\ \/ ppc' = "idle"
             \/ pst' = pst /\ ppc' \in {"persist", "dispatch"}
      BY <1>2 DEF PassUngoverned, RefuseUngoverned, Goto, Finish, faults, history
    <2>2. Working'
      BY <1>1, <2>1, SamePlace, EndsWork DEF OnItsWay
    <2> QED BY <1>1, <2>1, <2>2, RefusalWorks
  <1>3. CASE \E a \in Answers \cup {Unreachable} : Evaluate(a)
    <2>1. \/ /\ refused' = refused /\ store' = store /\ lost' = lost
             /\ \/ ppc' = "idle"
                \/ pst' = pst /\ ppc' \in {"persist", "dispatch"}
          \/ Save(ptask, Blocked) /\ Refuse("verdict") /\ ppc' = "idle"
      BY <1>3 DEF Evaluate, Goto, Finish
    <2>2. Working'
      BY <1>1, <2>1, SamePlace, EndsWork DEF OnItsWay
    <2>3. CASE refused' = refused /\ store' = store /\ lost' = lost
      BY <1>1, <2>2, <2>3, RefusalWorks
    <2>4. CASE Save(ptask, Blocked) /\ Refuse("verdict") /\ ppc' = "idle"
      <3>1. Blocked \in ExecutionState /\ Blocked.user = ask[ptask].user /\ Blocked.gate = ""
        <4>1. pst.user = ask[ptask].user
          BY <1>1 DEF TaskInv, Working, Going, OnItsWay
        <4> QED BY <4>1, BlockedFields DEF TaskInv
      <3>2. ~Going'
        BY <2>4, EndsWork
      <3>3. Local /\ Spends /\ (Gated(ptask)' => lost' # lost)
        BY <1>1, <2>4, <3>1, <3>2, SaveShape
      <3> QED BY <1>1, <2>2, <2>4, <3>2, <3>3 DEF Work, Refuses
    <2> QED BY <2>1, <2>3, <2>4
  <1> QED BY <1>2, <1>3

LEMMA DispatchWorks ==
    ASSUME TaskInv, PersistExecution \/ DispatchPipeline
    PROVE  Work /\ Working'
  <1>1. /\ Going /\ ppc # "idle" /\ ptask' = ptask /\ refused' = refused
        /\ UNCHANGED <<cfg, ask, req, ibox, pbox>>
    BY DEF PersistExecution, DispatchPipeline, Going, OnItsWay, Goto, Finish, history
  <1>2. CASE PersistExecution
    <2> DEFINE st == [pst EXCEPT !.decision = Governed(pst.intent)]
    <2>1. ppc = "persist" /\ ppc' = "dispatch" /\ pst' = pst /\ runs' = runs /\ Save(ptask, st)
      BY <1>2 DEF PersistExecution, Goto, history
    <2>2. pst.user = ask[ptask].user /\ pst.gate = ""
      BY <1>1, <2>1 DEF TaskInv, Working
    <2>3. st \in ExecutionState /\ st.user = ask[ptask].user /\ st.gate = ""
      <3>1. Governed(pst.intent) \in BOOLEAN
        BY DEF Governed
      <3>2. pst \in ExecutionState
        BY DEF TaskInv, TypeOK
      <3> QED BY <2>2, <3>1, <3>2 DEF ExecutionState
    <2> HIDE DEF st
    <2>4. Local /\ Spends
      BY <1>1, <2>1, <2>3, SaveShape
    <2>5. Working'
      BY <1>1, <2>1, SamePlace DEF OnItsWay
    <2> QED BY <1>1, <2>4, <2>5 DEF Work, Refuses
  <1>3. CASE DispatchPipeline
    <2>1. ppc' = "idle" /\ store' = store /\ lost' = lost
      BY <1>3 DEF DispatchPipeline, Finish
    <2>2. Working' /\ ~Going'
      BY <2>1, EndsWork
    <2>3. [intent |-> pst.intent, amount |-> pst.amount] \in Runs
      BY RecordTypes DEF TaskInv, TypeOK
    <2>4. runs' = runs \/ \E run \in Runs : runs' = [runs EXCEPT ![ptask] = Append(@, run)]
      BY <1>3, <2>3 DEF DispatchPipeline
    <2>5. Local /\ Spends
      BY <1>1, <2>1, <2>2, <2>4 DEF Local, Spends
    <2> QED BY <1>1, <2>2, <2>5 DEF Work, Refuses
  <1> QED BY <1>2, <1>3

LEMMA ExtractWorks ==
    ASSUME TaskInv, ExtractFails \/ ExtractMissing \/ ExtractParams
    PROVE  Work /\ Working'
  <1>1. /\ ppc = "extract" /\ ~Going /\ ptask' = ptask /\ refused' = refused
        /\ UNCHANGED <<cfg, ask, req, ibox, pbox, runs>>
    BY DEF ExtractFails, ExtractMissing, RequestClarification, ExtractParams, Going, OnItsWay, Fail,
           Goto, history
  <1>2. Gated(ptask) /\ pst.user = ask[ptask].user
    BY <1>1 DEF TaskInv, Working
  <1>3. CASE ExtractFails
    <2>1. ppc' = "fail" /\ store' = store /\ lost' = lost
      BY <1>3 DEF ExtractFails, Fail, Goto, faults
    <2>2. Working' /\ ~Going'
      BY <2>1, EndsWork
    <2> QED BY <1>1, <2>1, <2>2, QuietShape DEF Work, Refuses
  <1>4. CASE ExtractMissing
    <2>1. PICK a \in Values : RequestClarification(Merged(a))
      BY <1>4 DEF ExtractMissing
    <2>2. Save(ptask, Merged(a)) /\ ppc' = "await" /\ pst' = Merged(a)
      BY <2>1 DEF RequestClarification, Goto
    <2>3. Merged(a) \in ExecutionState /\ Merged(a).user = ask[ptask].user
      BY <1>2, MergedFields DEF TaskInv
    <2>4. ~Going'
      BY <2>2 DEF Going, OnItsWay
    <2>5. Local /\ Spends
      BY <1>1, <1>2, <2>2, <2>3, <2>4, SaveShape
    <2> QED BY <1>1, <2>2, <2>3, <2>4, <2>5 DEF Work, Refuses, Working
  <1>5. CASE ExtractParams
    <2>1. PICK a \in Values : pst' = GateCleared(Merged(a)) /\ Save(ptask, pst')
      BY <1>5 DEF ExtractParams
    <2>2. ppc' = "resume"
      BY <1>5 DEF ExtractParams, Goto
    <2>3. pst' \in ExecutionState /\ pst'.user = ask[ptask].user /\ pst'.gate = ""
      <3>1. Merged(a) \in ExecutionState /\ Merged(a).user = ask[ptask].user
        BY <1>2, MergedFields DEF TaskInv
      <3> QED BY <2>1, <3>1, ClearedFields
    <2>4. Local /\ Spends
      BY <1>1, <1>2, <2>1, <2>3, SaveShape
    <2>5. Working'
      BY <1>1, <2>2, <2>3 DEF Working
    <2> QED BY <1>1, <2>4, <2>5 DEF Work, Refuses
  <1> QED BY <1>3, <1>4, <1>5

LEMMA ErrorWorks ==
    ASSUME TaskInv, storeError \/ SaveError
    PROVE  Work /\ Working'
  <1>1. /\ ppc \in {"fail", "failsave"} /\ ~Going /\ ptask' = ptask /\ refused' = refused
        /\ UNCHANGED <<cfg, ask, req, ibox, pbox, runs>>
    BY DEF storeError, SaveError, Going, OnItsWay, Goto, Finish, history
  <1>2. store[ptask] \in ExecutionState /\ store[ptask].user = ask[ptask].user
        /\ store[ptask] # NoState
    BY <1>1, InHand, NoStateAssumption DEF NoStateAssumption
  <1> DEFINE st == [store[ptask] EXCEPT !.error = TRUE]
  <1>3. st \in ExecutionState /\ st.user = ask[ptask].user /\ st.gate = store[ptask].gate
    BY <1>2, ErrorFields
  <1> HIDE DEF st
  <1>4. CASE storeError
    <2>1. /\ ppc' = "idle" \/ (ppc' = "failsave" /\ pst' = st)
          /\ store' = store /\ lost' = lost
      BY <1>2, <1>4 DEF storeError, Goto, Finish, faults, st
    <2>2. ~Going'
      BY <2>1 DEF Going, OnItsWay
    <2>3. Work
      BY <1>1, <2>1, <2>2, QuietShape DEF Work, Refuses
    <2>4. st' = st
      BY <1>1, <2>1 DEF st
    <2>5. Working'
      BY <1>1, <1>3, <2>1, <2>2, <2>4 DEF Working, st
    <2> QED BY <2>3, <2>5
  <1>5. CASE SaveError
    <2>1. pst = st /\ Save(ptask, st) /\ ppc' = "idle"
      BY <1>5 DEF SaveError, Finish, TaskInv, Working, st
    <2>2. Working' /\ ~Going'
      BY <2>1, EndsWork
    <2>3. CASE st.gate = ""
      BY <1>1, <1>3, <2>1, <2>2, <2>3, SaveShape DEF Work, Refuses
    <2>4. CASE st.gate # ""
      <3>1. Gated(ptask)
        BY <1>2, <1>3, <2>4 DEF Gated, ExecutionState
      <3> QED BY <1>1, <1>3, <2>1, <2>2, <3>1, SaveShape DEF Work, Refuses
    <2> QED BY <2>3, <2>4
  <1> QED BY <1>4, <1>5
-----------------------------------------------------------------------------
(***************************************************************************)
(* Inboxes.                                                                *)
(***************************************************************************)
LEMMA TailOf ==
    ASSUME NEW M, NEW s \in Seq(M), s # <<>>
    PROVE  /\ 1 \in DOMAIN s /\ Head(s) = s[1]
           /\ \A i \in DOMAIN Tail(s) : i + 1 \in DOMAIN s /\ i + 1 # 1 /\ Tail(s)[i] = s[i + 1]
           /\ \A i, j \in DOMAIN Tail(s) : i + 1 = j + 1 => i = j
  OBVIOUS

LEMMA AppendOf ==
    ASSUME NEW M, NEW s \in Seq(M), NEW m \in M
    PROVE  /\ \A i \in DOMAIN Append(s, m) :
                 \/ i \in DOMAIN s /\ Append(s, m)[i] = s[i]
                 \/ i = Len(s) + 1 /\ Append(s, m)[i] = m
           /\ Append(s, m)[Len(s) + 1] = m
  OBVIOUS

LEMMA MessageFields ==
    \A type, t, u : /\ Message(type, t).type = type /\ Message(type, t).task = t
                    /\ Message("detect_intent", t) # Message("clarify_intent", u)
                    /\ Message("detect_intent", t) = Message("detect_intent", u) => t = u
  BY DEF Message

LEMMA MessageParts ==
    ASSUME NEW m \in Messages
    PROVE  m = Message(m.type, m.task) /\ m.task \in Tasks
  BY DEF Messages, Message

LEMMA InboxTypes ==
    ASSUME TypeOK
    PROVE  /\ \A i \in DOMAIN ibox : ibox[i] \in Tasks
           /\ \A i \in DOMAIN pbox : pbox[i] \in Messages /\ pbox[i].task \in Tasks
  <1>1. ibox \in Seq(Tasks) /\ pbox \in Seq(Messages)
    BY DEF TypeOK
  <1>2. \A i \in DOMAIN ibox : ibox[i] \in Tasks
    BY <1>1
  <1>3. \A i \in DOMAIN pbox : pbox[i] \in Messages
    BY <1>1
  <1> QED BY <1>2, <1>3, MessageParts

(***************************************************************************)
(* The planner takes a message.                                            *)
(***************************************************************************)
LEMMA ReceiveShape ==
    ASSUME TaskInv, NEW type \in {"detect_intent", "clarify_intent"}, Receive(type),
           NEW t, ptask' = t
    PROVE  /\ t \in Tasks /\ InPbox(Message(type, t)) /\ ask[t].pc = "sent"
           /\ \A m : InPbox(m)' => InPbox(m)
           /\ type = "detect_intent" => \A i \in DOMAIN pbox' : pbox'[i] # Message(type, t)
           /\ UNCHANGED <<ibox, ask>> => Once'
  <1>1. pbox \in Seq(Messages) /\ pbox # <<>>
    BY DEF TaskInv, TypeOK, Receive
  <1>2. /\ 1 \in DOMAIN pbox /\ Head(pbox) = pbox[1] /\ pbox' = Tail(pbox)
        /\ \A i \in DOMAIN pbox' : i + 1 \in DOMAIN pbox /\ i + 1 # 1 /\ pbox'[i] = pbox[i + 1]
        /\ \A i, j \in DOMAIN pbox' : i + 1 = j + 1 => i = j
    BY <1>1, TailOf DEF Receive
  <1>3. pbox[1] = Message(type, t) /\ t \in Tasks /\ pbox[1].type = type /\ pbox[1].task = t
    <2>1. pbox[1] \in Messages /\ pbox[1].type = type /\ pbox[1].task = t
      BY <1>1, <1>2 DEF Receive
    <2> QED BY <2>1, MessageParts
  <1>4. InPbox(Message(type, t))
    BY <1>2, <1>3 DEF InPbox
  <1>5. \A m : InPbox(m)' => InPbox(m)
    BY <1>2 DEF InPbox
  <1>6. ASSUME type = "detect_intent", NEW i \in DOMAIN pbox', pbox'[i] = Message(type, t)
        PROVE  FALSE
    <2>1. pbox[i + 1] = pbox[1] /\ pbox[1].type = "detect_intent" /\ i + 1 # 1
          /\ i + 1 \in DOMAIN pbox
      BY <1>2, <1>3, <1>6
    <2> QED BY <1>2, <2>1 DEF TaskInv, Once
  <1>7. ask[t].pc = "sent"
    BY <1>2, <1>3 DEF TaskInv, Once
  <1>8. ASSUME UNCHANGED <<ibox, ask>> PROVE Once'
    <2>1. \A i, j \in DOMAIN pbox' :
              pbox'[i] = pbox'[j] /\ pbox'[i].type = "detect_intent" => i = j
      <3> SUFFICES ASSUME NEW i \in DOMAIN pbox', NEW j \in DOMAIN pbox', pbox'[i] = pbox'[j],
                          pbox'[i].type = "detect_intent"
                   PROVE  i = j
        OBVIOUS
      <3>1. i + 1 = j + 1
        BY <1>2 DEF TaskInv, Once
      <3> QED BY <1>2, <3>1
    <2>2. \A i \in DOMAIN pbox' : ask[pbox'[i].task].pc = "sent"
      BY <1>2 DEF TaskInv, Once
    <2> QED BY <1>5, <1>8, <2>1, <2>2 DEF TaskInv, Once
  <1> QED BY <1>3, <1>4, <1>5, <1>6, <1>7, <1>8

LEMMA DetectTaken ==
    ASSUME TaskInv, handleDetectIntent, NEW t, ptask' = t
    PROVE  Owned' /\ Once' /\ Fresh' /\ Working' /\ Budget' /\ Final'
  <1> DEFINE owner == [Blank EXCEPT !.user = ask[t].user]
             named == [owner EXCEPT !.intent = ask[t].op, !.amount = Converted(ask[t].amount)]
  <1>1. /\ Receive("detect_intent") /\ ppc = "idle"
        /\ UNCHANGED <<ask, req, ibox, runs, refused>>
    BY DEF handleDetectIntent, Receive, history
  <1>2. /\ t \in Tasks /\ InPbox(Message("detect_intent", t)) /\ ask[t].pc = "sent"
        /\ \A m : InPbox(m)' => InPbox(m)
        /\ \A i \in DOMAIN pbox' : pbox'[i] # Message("detect_intent", t)
        /\ Once'
    BY <1>1, ReceiveShape
  <1>3. Untouched(t) /\ ~InIbox(t)
    BY <1>2, MessageFields DEF TaskInv, Fresh, Waiting, Once, InIbox
  <1>4. /\ owner \in ExecutionState /\ owner.user = ask[t].user /\ owner.gate = ""
        /\ named.user = ask[t].user /\ named.gate = ""
    <2>1. owner \in ExecutionState /\ owner.user = ask[t].user /\ owner.gate = ""
      BY <1>2, OwnerType DEF TaskInv, Blank
    <2> QED BY <2>1 DEF ExecutionState
  <1> HIDE DEF owner, named
  <1>5. \/ /\ store' = [store EXCEPT ![t] = owner] /\ lost' = lost
           /\ \/ pst' = owner /\ ppc' = "detect"
              \/ pst' = named /\ ppc' = "authorize"
        \/ store' = store /\ lost' = lost + 1 /\ ppc' = "fail"
    BY DEF handleDetectIntent, Saved, NotSaved, owner, named
  <1>6. /\ store \in StoreType /\ lost \in Nat
        /\ store'[t] = store[t] \/ store'[t] = owner
        /\ \A u \in Tasks \ {t} : store'[u] = store[u]
    BY <1>2, <1>5 DEF TaskInv, TypeOK, StoreType
  <1>7. ~Gated(t)'
    BY <1>3, <1>4, <1>6, Places DEF Untouched, Gated
  <1>71. \A u \in Tasks \ {t} : Gated(u)' = Gated(u)
    BY <1>6 DEF Gated
  <1>8. Owned'
    <2> SUFFICES ASSUME NEW u \in Tasks
                 PROVE  IF ask[u].pc = "new" THEN ask[u].op = "" /\ store'[u] = NoState
                        ELSE store'[u] # NoState /\ store'[u].user = ask[u].user
      BY <1>1 DEF Owned
    <2>1. CASE u = t
      BY <1>2, <1>4, <1>6, <2>1, NoStateAssumption DEF NoStateAssumption, TaskInv, Owned
    <2> QED BY <1>6, <2>1 DEF TaskInv, Owned
  <1>9. Fresh'
    <2> SUFFICES ASSUME NEW u \in Tasks, Waiting(u)' PROVE Untouched(u)'
      BY DEF Fresh
    <2>1. u # t
      <3>1. ask'[t].pc = "sent" /\ ~InIbox(t)' /\ ~InPbox(Message("detect_intent", t))'
        BY <1>1, <1>2, <1>3 DEF InIbox, InPbox, Message
      <3> QED BY <3>1 DEF Waiting
    <2>2. Waiting(u)
      <3>1. InPbox(Message("detect_intent", u))' => InPbox(Message("detect_intent", u))
        BY <1>2 DEF Message
      <3> QED BY <1>1, <3>1 DEF Waiting, InIbox
    <2>3. Untouched(u)
      BY <2>2 DEF TaskInv, Fresh
    <2>4. InPbox(Message("clarify_intent", u))' => InPbox(Message("clarify_intent", u))
      BY <1>2 DEF Message
    <2> QED BY <1>1, <1>71, <2>1, <2>3, <2>4 DEF Untouched
  <1>10. Working'
    BY <1>1, <1>4, <1>5 DEF Working, Going, OnItsWay
  <1>11. /\ \A u \in Tasks : ~Active(u)
         /\ \A u \in Tasks \ {t} : ~Active(u)'
    BY <1>1 DEF Active, Going, OnItsWay
  <1>12. lost' = lost \/ lost' = lost + 1
    BY <1>5
  <1>13. Budget'
    <2> SUFFICES ASSUME NEW u \in Tasks PROVE Len(runs'[u]) + Chances(u)' <= 1 + lost'
      BY DEF Budget
    <2> DEFINE L == Len(runs[u])
    <2>1. L + Chances(u) <= 1 + lost /\ Len(runs'[u]) = L /\ L \in Nat
      <3>1. runs[u] \in Seq(Runs)
        BY DEF TaskInv, TypeOK
      <3>2. L \in Nat
        BY <3>1
      <3> QED BY <1>1, <3>2 DEF TaskInv, Budget
    <2>2. u # t => Chances(u)' = Chances(u)
      BY <1>71, <1>11 DEF Chances
    <2>3. Chances(u) \in Nat
      BY DEF Chances
    <2>4. u = t => L = 0 /\ Chances(u)' \in {0, 1}
      <3> SUFFICES ASSUME u = t PROVE L = 0 /\ Chances(u)' \in {0, 1}
        OBVIOUS
      <3>1. runs[u] = <<>> /\ ~Gated(u)'
        BY <1>3, <1>7 DEF Untouched, Gated
      <3>2. L = 0
        BY <3>1
      <3> QED BY <3>1, <3>2 DEF Chances
    <2> HIDE DEF L
    <2>5. lost \in Nat
      BY <1>6
    <2> QED BY <1>12, <2>1, <2>2, <2>3, <2>4, <2>5
  <1>14. Final'
    <2> SUFFICES ASSUME NEW u \in Tasks, refused'[u] # "", lost' = 0
                 PROVE  runs'[u] = <<>> /\ ~Active(u)' /\ ~Gated(u)'
      BY DEF Final
    <2>1. u # t
      BY <1>1, <1>3 DEF Untouched
    <2>2. lost = 0
      BY <1>6, <1>12, NoLoss
    <2> QED BY <1>1, <1>71, <1>11, <2>1, <2>2 DEF TaskInv, Final
  <1> QED BY <1>2, <1>8, <1>9, <1>10, <1>13, <1>14

(***************************************************************************)
(* A step that neither opens a gate nor sets a planning in motion leaves   *)
(* the runs a task may have as they are.                                   *)
(***************************************************************************)
LEMMA IdleBudget ==
    ASSUME TaskInv, UNCHANGED <<lost, runs, refused>>, Going' => Going /\ ptask' = ptask,
           \A u \in Tasks : Gated(u)' => Gated(u)
    PROVE  Budget' /\ Final'
  <1>1. \A u \in Tasks : Active(u)' => Active(u)
    BY DEF Active
  <1>2. ASSUME NEW u \in Tasks PROVE Len(runs'[u]) + Chances(u)' <= 1 + lost'
    <2> DEFINE L == Len(runs[u])
    <2>1. L \in Nat
      <3>1. runs[u] \in Seq(Runs)
        BY DEF TaskInv, TypeOK
      <3> QED BY <3>1
    <2>2. L + Chances(u) <= 1 + lost /\ Len(runs'[u]) = L
      BY DEF TaskInv, Budget
    <2>3. Chances(u)' <= Chances(u) /\ Chances(u) \in Nat /\ Chances(u)' \in Nat
      BY <1>1 DEF Chances
    <2>4. lost \in Nat
      BY DEF TaskInv, TypeOK
    <2> HIDE DEF L
    <2> QED BY <2>1, <2>2, <2>3, <2>4
  <1>3. Budget'
    BY <1>2 DEF Budget
  <1>4. Final'
    BY <1>1 DEF TaskInv, Final
  <1> QED BY <1>3, <1>4

(***************************************************************************)
(* A step of the others: the record and the user of the task in hand stay. *)
(***************************************************************************)
LEMMA OthersWorking ==
    ASSUME TaskInv, UNCHANGED plannerVars,
           ppc # "idle" => /\ ask'[ptask].user = ask[ptask].user
                           /\ store'[ptask] = store[ptask]
    PROVE  Working'
  BY DEF TaskInv, Working, plannerVars, Going, Gated

LEMMA ClarifyTaken ==
    ASSUME TaskInv, handleClarifyIntent, NEW t, ptask' = t
    PROVE  Owned' /\ Once' /\ Fresh' /\ Working' /\ Budget' /\ Final'
  <1>1. /\ Receive("clarify_intent") /\ ppc = "idle"
        /\ UNCHANGED <<ask, req, ibox, store, lost, runs, refused>>
        /\ \/ ppc' = "extract" /\ pst' = store[t] /\ Gated(t)
           \/ ppc' = "fail"
    BY DEF handleClarifyIntent, Receive, history, faults, AwaitsReply, HasState, Gated
  <1>2. /\ t \in Tasks /\ InPbox(Message("clarify_intent", t)) /\ ask[t].pc = "sent"
        /\ \A m : InPbox(m)' => InPbox(m)
        /\ Once'
    BY <1>1, ReceiveShape
  <1>3. Owned'
    BY <1>1 DEF TaskInv, Owned
  <1>4. Fresh'
    <2> SUFFICES ASSUME NEW u \in Tasks, Waiting(u)' PROVE Untouched(u)'
      BY DEF Fresh
    <2>1. InPbox(Message("detect_intent", u))' => InPbox(Message("detect_intent", u))
      BY <1>2 DEF Message
    <2>2. InPbox(Message("clarify_intent", u))' => InPbox(Message("clarify_intent", u))
      BY <1>2 DEF Message
    <2>3. Waiting(u)
      BY <1>1, <2>1 DEF Waiting, InIbox
    <2>4. Untouched(u)
      BY <2>3 DEF TaskInv, Fresh
    <2>5. u # t
      BY <1>2, <2>4 DEF Untouched
    <2> QED BY <1>1, <2>2, <2>4, <2>5 DEF Untouched, Gated
  <1>5. Working'
    <2>1. store[t].user = ask[t].user
      BY <1>2 DEF TaskInv, Owned
    <2> QED BY <1>1, <2>1 DEF Working, Going, OnItsWay, Gated
  <1>6. ~Going' /\ \A u \in Tasks : Gated(u)' => Gated(u)
    BY <1>1 DEF Going, OnItsWay, Gated
  <1> QED BY <1>1, <1>2, <1>3, <1>4, <1>5, <1>6, IdleBudget
-----------------------------------------------------------------------------
(***************************************************************************)
(* The API agent's and the inspector's steps, and a crash.                 *)
(***************************************************************************)
LEMMA AcceptKeeps ==
    ASSUME TaskInv, NEW t \in Tasks, NEW op, NEW amount, Accept(t, op, amount)
    PROVE  Owned' /\ Once' /\ Fresh' /\ Working' /\ Budget' /\ Final'
  <1> DEFINE rec == [Blank EXCEPT !.user = ask[t].user, !.status = "processing"]
             asked == [pc |-> "saved", user |-> ask[t].user, op |-> op, amount |-> amount]
  <1>1. /\ ask[t].pc = "new" /\ ask \in [Tasks -> Requests] /\ store \in StoreType
        /\ ask[t].user \in Users
    BY DEF TaskInv, TypeOK, StoreType, Accept, Requests
  <1>2. /\ UNCHANGED <<req, ibox, pbox, plannerVars, runs, refused, lost>>
        /\ ask' = [ask EXCEPT ![t] = asked] /\ store' = [store EXCEPT ![t] = rec]
    BY DEF Accept, Saved, history, plannerVars
  <1>3. rec \in ExecutionState /\ rec.user = ask[t].user /\ rec.gate = ""
    BY <1>1 DEF Blank, ExecutionState, Values, Operations
  <1>4. asked.pc = "saved" /\ asked.user = ask[t].user
    OBVIOUS
  <1> HIDE DEF rec, asked
  <1>5. /\ ask'[t] = asked /\ store'[t] = rec
        /\ \A u \in Tasks \ {t} : ask'[u] = ask[u] /\ store'[u] = store[u]
    BY <1>1, <1>2 DEF StoreType
  <1>6. Waiting(t) /\ Untouched(t)
    BY <1>1 DEF TaskInv, Fresh, Waiting
  <1>7. Owned'
    <2> SUFFICES ASSUME NEW u \in Tasks
                 PROVE  IF ask'[u].pc = "new" THEN ask'[u].op = "" /\ store'[u] = NoState
                        ELSE store'[u] # NoState /\ store'[u].user = ask'[u].user
      BY DEF Owned
    <2>1. CASE u = t
      BY <1>3, <1>4, <1>5, <2>1, NoStateAssumption DEF NoStateAssumption
    <2> QED BY <1>5, <2>1 DEF TaskInv, Owned
  <1>8. Once'
    <2>1. \A i \in DOMAIN ibox : ibox[i] \in Tasks /\ ask'[ibox[i]].pc = "sent"
      BY <1>1, <1>5, InboxTypes DEF TaskInv, Once
    <2>2. \A i \in DOMAIN pbox : ask'[pbox[i].task].pc = "sent"
      <3>1. \A i \in DOMAIN pbox : pbox[i].task \in Tasks
        BY InboxTypes DEF TaskInv
      <3> QED BY <1>1, <1>5, <3>1 DEF TaskInv, Once
    <2> QED BY <1>2, <2>1, <2>2 DEF TaskInv, Once, InPbox
  <1>9. ~Gated(t)' /\ \A u \in Tasks : Gated(u)' => Gated(u)
    BY <1>3, <1>5, Places DEF Gated
  <1>10. Fresh'
    <2> SUFFICES ASSUME NEW u \in Tasks, Waiting(u)' PROVE Untouched(u)'
      BY DEF Fresh
    <2>1. Waiting(u)
      BY <1>2, <1>5, <1>6 DEF Waiting, InIbox, InPbox
    <2>2. Untouched(u)
      BY <2>1 DEF TaskInv, Fresh
    <2> QED BY <1>2, <1>9, <2>2 DEF Untouched, InPbox, plannerVars
  <1>11. Working'
    <2>1. ppc # "idle" => ptask \in Tasks \ {t}
      BY <1>6 DEF Untouched, TaskInv, TypeOK
    <2> QED BY <1>2, <1>5, <2>1, OthersWorking
  <1>12. Going' => Going /\ ptask' = ptask
    BY <1>2 DEF Going, plannerVars
  <1> QED BY <1>2, <1>7, <1>8, <1>9, <1>10, <1>11, <1>12, IdleBudget

LEMMA SubmitKeeps ==
    ASSUME TaskInv, NEW t \in Tasks, Submit(t)
    PROVE  Owned' /\ Once' /\ Fresh' /\ Working' /\ Budget' /\ Final'
  <1>1. /\ ask[t].pc = "saved" /\ ask \in [Tasks -> Requests]
        /\ ask' = [ask EXCEPT ![t].pc = "sent"]
        /\ UNCHANGED <<store, req, pbox, plannerVars, runs, refused, lost>>
        /\ ibox' = Append(ibox, t) \/ ibox' = ibox
        /\ ibox \in Seq(Tasks)
    BY DEF Submit, Send, TaskInv, TypeOK, history, plannerVars
  <1>2. /\ ask'[t].pc = "sent" /\ ask'[t].user = ask[t].user
        /\ \A u \in Tasks \ {t} : ask'[u] = ask[u]
    BY <1>1 DEF Requests
  <1>3. \A i \in DOMAIN ibox : ibox[i] # t
    BY <1>1 DEF TaskInv, Once
  <1>4. \A i \in DOMAIN pbox : pbox[i].task # t
    BY <1>1 DEF TaskInv, Once
  <1>5. \A i \in DOMAIN ibox' : \/ i \in DOMAIN ibox /\ ibox'[i] = ibox[i]
                                \/ i = Len(ibox) + 1 /\ ibox'[i] = t
    BY <1>1, AppendOf
  <1>6. Owned'
    BY <1>1, <1>2 DEF TaskInv, Owned
  <1>7. Once'
    <2>1. \A i, j \in DOMAIN ibox' : ibox'[i] = ibox'[j] => i = j
      BY <1>3, <1>5 DEF TaskInv, Once
    <2>2. \A i \in DOMAIN ibox' : ask'[ibox'[i]].pc = "sent"
      <3>1. \A i \in DOMAIN ibox : ibox[i] \in Tasks /\ ask'[ibox[i]].pc = "sent"
        BY <1>2, <1>3, InboxTypes DEF TaskInv, Once
      <3> QED BY <1>2, <1>5, <3>1
    <2>3. \A i \in DOMAIN ibox' : ~InPbox(Message("detect_intent", ibox'[i]))
      <3>1. ~InPbox(Message("detect_intent", t))
        BY <1>4, MessageFields DEF InPbox
      <3> QED BY <1>5, <3>1 DEF TaskInv, Once
    <2>4. \A i \in DOMAIN pbox : ask'[pbox[i].task].pc = "sent"
      <3>1. \A i \in DOMAIN pbox : pbox[i].task \in Tasks
        BY InboxTypes DEF TaskInv
      <3> QED BY <1>2, <3>1 DEF TaskInv, Once
    <2> QED BY <1>1, <2>1, <2>2, <2>3, <2>4 DEF TaskInv, Once, InPbox
  <1>8. \A u \in Tasks : Gated(u)' = Gated(u)
    BY <1>1 DEF Gated
  <1>9. Fresh'
    <2> SUFFICES ASSUME NEW u \in Tasks, Waiting(u)' PROVE Untouched(u)'
      BY DEF Fresh
    <2>1. Waiting(u)
      <3>1. CASE u = t
        BY <1>1, <3>1 DEF Waiting
      <3>2. CASE u # t
        <4>1. InIbox(u)' => InIbox(u)
          BY <1>5, <3>2 DEF InIbox
        <4> QED BY <1>1, <1>2, <3>2, <4>1 DEF Waiting, InPbox
      <3> QED BY <3>1, <3>2
    <2>2. Untouched(u)
      BY <2>1 DEF TaskInv, Fresh
    <2> QED BY <1>1, <1>8, <2>2 DEF Untouched, InPbox, plannerVars
  <1>10. Working'
    <2>1. ask'[ptask].user = ask[ptask].user
      BY <1>2 DEF TaskInv, TypeOK
    <2> QED BY <1>1, <2>1, OthersWorking
  <1>11. Going' => Going /\ ptask' = ptask
    BY <1>1 DEF Going, plannerVars
  <1> QED BY <1>1, <1>6, <1>7, <1>8, <1>9, <1>10, <1>11, IdleBudget

LEMMA InspectKeeps ==
    ASSUME TaskInv, Inspect
    PROVE  Owned' /\ Once' /\ Fresh' /\ Working' /\ Budget' /\ Final'
  <1> DEFINE h == Head(ibox)
             m == Message("detect_intent", h)
  <1>1. /\ ibox # <<>> /\ ibox \in Seq(Tasks) /\ pbox \in Seq(Messages) /\ ibox' = Tail(ibox)
        /\ UNCHANGED <<store, ask, req, plannerVars, runs, refused, lost>>
        /\ pbox' = Append(pbox, m) \/ pbox' = pbox
    BY DEF Inspect, Send, TaskInv, TypeOK, history, plannerVars, Message
  <1>2. /\ 1 \in DOMAIN ibox /\ h = ibox[1]
        /\ \A i \in DOMAIN ibox' : i + 1 \in DOMAIN ibox /\ i + 1 # 1 /\ ibox'[i] = ibox[i + 1]
        /\ \A i, j \in DOMAIN ibox' : i + 1 = j + 1 => i = j
    BY <1>1, TailOf
  <1>3. h \in Tasks /\ ask[h].pc = "sent" /\ ~InPbox(m) /\ InIbox(h)
    BY <1>1, <1>2 DEF TaskInv, Once, InIbox
  <1>4. m.type = "detect_intent" /\ m.task = h /\ m \in Messages
    BY <1>3 DEF Message, Messages
  <1>5. \A i \in DOMAIN ibox' : ibox'[i] # h
    BY <1>2 DEF TaskInv, Once
  <1>6. /\ \A u \in Tasks : Message("detect_intent", u) = m => u = h
        /\ \A u \in Tasks : Message("clarify_intent", u) # m
    BY MessageFields
  <1> HIDE DEF m, h
  <1>7. \A i \in DOMAIN pbox' : \/ i \in DOMAIN pbox /\ pbox'[i] = pbox[i]
                                \/ i = Len(pbox) + 1 /\ pbox'[i] = m
    BY <1>1, <1>4, AppendOf
  <1>8. Owned'
    BY <1>1 DEF TaskInv, Owned
  <1>9. Once'
    <2>1. \A i, j \in DOMAIN ibox' : ibox'[i] = ibox'[j] => i = j
      BY <1>2 DEF TaskInv, Once
    <2>2. \A i, j \in DOMAIN pbox' :
              pbox'[i] = pbox'[j] /\ pbox'[i].type = "detect_intent" => i = j
      BY <1>3, <1>7 DEF TaskInv, Once, InPbox
    <2>3. \A i \in DOMAIN ibox' : ask[ibox'[i]].pc = "sent"
      BY <1>2 DEF TaskInv, Once
    <2>4. \A i \in DOMAIN ibox' :
              \A j \in DOMAIN pbox' : pbox'[j] # Message("detect_intent", ibox'[i])
      <3> SUFFICES ASSUME NEW i \in DOMAIN ibox', NEW j \in DOMAIN pbox',
                          pbox'[j] = Message("detect_intent", ibox'[i])
                   PROVE  FALSE
        OBVIOUS
      <3>1. ibox'[i] \in Tasks /\ ibox'[i] # h
        BY <1>1, <1>2, <1>5
      <3>2. pbox'[j] # m
        BY <1>6, <3>1
      <3>3. ~InPbox(Message("detect_intent", ibox'[i]))
        BY <1>2 DEF TaskInv, Once
      <3> QED BY <1>7, <3>2, <3>3 DEF InPbox
    <2>5. \A i \in DOMAIN pbox' : ask[pbox'[i].task].pc = "sent"
      BY <1>3, <1>4, <1>7 DEF TaskInv, Once
    <2> QED BY <1>1, <2>1, <2>2, <2>3, <2>4, <2>5 DEF Once, InPbox, Message
  <1>10. \A u \in Tasks : Gated(u)' = Gated(u)
    BY <1>1 DEF Gated
  <1>11. Fresh'
    <2> SUFFICES ASSUME NEW u \in Tasks, Waiting(u)' PROVE Untouched(u)'
      BY DEF Fresh
    <2>1. InPbox(Message("detect_intent", u))' => u = h \/ InPbox(Message("detect_intent", u))
      BY <1>6, <1>7 DEF InPbox, Message
    <2>2. InPbox(Message("clarify_intent", u))' => InPbox(Message("clarify_intent", u))
      BY <1>6, <1>7 DEF InPbox, Message
    <2>3. InIbox(u)' => InIbox(u)
      BY <1>2 DEF InIbox
    <2>4. Waiting(u)
      BY <1>1, <1>3, <2>1, <2>3 DEF Waiting
    <2>5. Untouched(u)
      BY <2>4 DEF TaskInv, Fresh
    <2> QED BY <1>1, <1>10, <2>2, <2>5 DEF Untouched, plannerVars
  <1>12. Working'
    BY <1>1, OthersWorking
  <1>13. Going' => Going /\ ptask' = ptask
    BY <1>1 DEF Going, plannerVars
  <1> QED BY <1>1, <1>8, <1>9, <1>10, <1>11, <1>12, <1>13, IdleBudget

LEMMA SendReplyKeeps ==
    ASSUME TaskInv, NEW r \in Replies, SendReply(r)
    PROVE  Owned' /\ Once' /\ Fresh' /\ Working' /\ Budget' /\ Final'
  <1> DEFINE h == req[r].task
             m == Message("clarify_intent", h)
  <1>1. /\ req[r].pc = "read" /\ pbox \in Seq(Messages)
        /\ req \in [Replies -> [pc : {"new", "read", "done"}, task : Tasks]]
        /\ req' = [req EXCEPT ![r].pc = "done"]
        /\ UNCHANGED <<store, ask, ibox, plannerVars, runs, refused, lost>>
        /\ pbox' = Append(pbox, m) \/ pbox' = pbox
    BY DEF SendReply, Send, TaskInv, TypeOK, history, plannerVars, Message
  <1>2. h \in Tasks /\ ~Waiting(h)
    BY <1>1 DEF TaskInv, Fresh, Untouched
  <1>3. ask[h].pc = "sent"
    BY <1>2 DEF Waiting
  <1>4. m.type = "clarify_intent" /\ m.task = h /\ m \in Messages
    BY <1>2 DEF Message, Messages
  <1>5. /\ \A u \in Tasks : Message("clarify_intent", u) = m => u = h
        /\ \A u \in Tasks : Message("detect_intent", u) # m
    BY <1>4, MessageFields
  <1>6. \A s \in Replies : req'[s].pc = "read" => req[s].pc = "read" /\ req'[s].task = req[s].task
    BY <1>1
  <1> HIDE DEF m, h
  <1>7. \A i \in DOMAIN pbox' : \/ i \in DOMAIN pbox /\ pbox'[i] = pbox[i]
                                \/ i = Len(pbox) + 1 /\ pbox'[i] = m
    BY <1>1, <1>4, AppendOf
  <1>8. Owned'
    BY <1>1 DEF TaskInv, Owned
  <1>9. Once'
    <2>1. \A i, j \in DOMAIN pbox' :
              pbox'[i] = pbox'[j] /\ pbox'[i].type = "detect_intent" => i = j
      BY <1>4, <1>7 DEF TaskInv, Once
    <2>2. \A i \in DOMAIN ibox :
              \A j \in DOMAIN pbox' : pbox'[j] # Message("detect_intent", ibox[i])
      BY <1>5, <1>7, InboxTypes DEF TaskInv, Once, InPbox
    <2>3. \A i \in DOMAIN pbox' : ask[pbox'[i].task].pc = "sent"
      BY <1>3, <1>4, <1>7 DEF TaskInv, Once
    <2> QED BY <1>1, <2>1, <2>2, <2>3 DEF TaskInv, Once, InPbox, Message
  <1>10. \A u \in Tasks : Gated(u)' = Gated(u)
    BY <1>1 DEF Gated
  <1>11. Fresh'
    <2> SUFFICES ASSUME NEW u \in Tasks, Waiting(u)' PROVE Untouched(u)'
      BY DEF Fresh
    <2>1. InPbox(Message("detect_intent", u))' => InPbox(Message("detect_intent", u))
      BY <1>5, <1>7 DEF InPbox, Message
    <2>2. Waiting(u)
      BY <1>1, <2>1 DEF Waiting, InIbox
    <2>3. InPbox(Message("clarify_intent", u))' => u = h \/ InPbox(Message("clarify_intent", u))
      BY <1>5, <1>7 DEF InPbox, Message
    <2>4. Untouched(u) /\ u # h
      BY <1>2, <2>2 DEF TaskInv, Fresh
    <2> QED BY <1>1, <1>6, <1>10, <2>3, <2>4 DEF Untouched, plannerVars
  <1>12. Working'
    BY <1>1, OthersWorking
  <1>13. Going' => Going /\ ptask' = ptask
    BY <1>1 DEF Going, plannerVars
  <1> QED BY <1>1, <1>8, <1>9, <1>10, <1>11, <1>12, <1>13, IdleBudget

LEMMA ReadForReplyKeeps ==
    ASSUME TaskInv, NEW r \in Replies, NEW t \in Tasks, NEW user, ReadForReply(r, t, user)
    PROVE  Owned' /\ Once' /\ Fresh' /\ Working' /\ Budget' /\ Final'
  <1>1. /\ req \in [Replies -> [pc : {"new", "read", "done"}, task : Tasks]]
        /\ req' = [req EXCEPT ![r] = [pc |-> "read", task |-> t]]
        /\ UNCHANGED <<store, ask, ibox, pbox, plannerVars, runs, refused, lost>>
        /\ Gated(t)
    BY DEF ReadForReply, TaskInv, TypeOK, history, faults, plannerVars, Gated
  <1>2. ~Waiting(t)
    BY <1>1 DEF TaskInv, Fresh, Untouched
  <1>3. \A s \in Replies : req'[s].pc = "read" => req'[s].task = t \/ req'[s] = req[s]
    BY <1>1
  <1>4. \A u \in Tasks : Waiting(u)' = Waiting(u) /\ Gated(u)' = Gated(u)
    BY <1>1 DEF Waiting, InIbox, InPbox, Gated
  <1>5. Fresh'
    <2> SUFFICES ASSUME NEW u \in Tasks, Waiting(u)' PROVE Untouched(u)'
      BY DEF Fresh
    <2>1. Untouched(u) /\ u # t
      BY <1>2, <1>4 DEF TaskInv, Fresh
    <2> QED BY <1>1, <1>3, <1>4, <2>1 DEF Untouched, InPbox, plannerVars
  <1>6. Owned' /\ Once'
    BY <1>1 DEF TaskInv, Owned, Once, InPbox
  <1>7. Working'
    BY <1>1, OthersWorking
  <1>8. Going' => Going /\ ptask' = ptask
    BY <1>1 DEF Going, plannerVars
  <1> QED BY <1>1, <1>4, <1>5, <1>6, <1>7, <1>8, IdleBudget

LEMMA CrashKeeps ==
    ASSUME TaskInv, Crash
    PROVE  Owned' /\ Once' /\ Fresh' /\ Working' /\ Budget' /\ Final'
  <1>1. /\ ask \in [Tasks -> Requests]
        /\ req \in [Replies -> [pc : {"new", "read", "done"}, task : Tasks]]
        /\ UNCHANGED <<store, ptask, runs, refused, lost>>
        /\ ppc' = "idle" /\ DOMAIN ibox' = {} /\ DOMAIN pbox' = {}
    <2>1. DOMAIN <<>> = {}
      OBVIOUS
    <2> QED BY <2>1 DEF Crash, TaskInv, TypeOK, history
  <1>2. \A u \in Tasks : /\ ask'[u].user = ask[u].user /\ ask'[u].op = ask[u].op
                         /\ ask'[u].pc = "new" <=> ask[u].pc = "new"
                         /\ ask'[u].pc # "sent" => ask[u].pc # "sent"
    <2> TAKE u \in Tasks
    <2>1. ask'[u] = IF ask[u].pc = "saved" THEN [ask[u] EXCEPT !.pc = "sent"] ELSE ask[u]
      BY DEF Crash
    <2>2. ask[u] \in Requests
      BY <1>1
    <2> QED BY <2>1, <2>2 DEF Requests
  <1>3. \A s \in Replies : req'[s].pc # "read"
    <2> TAKE s \in Replies
    <2>1. req'[s] = IF req[s].pc = "read" THEN [req[s] EXCEPT !.pc = "done"] ELSE req[s]
      BY DEF Crash
    <2>2. req[s] \in [pc : {"new", "read", "done"}, task : Tasks]
      BY <1>1
    <2> QED BY <2>1, <2>2
  <1>4. \A u \in Tasks : Gated(u)' = Gated(u)
    BY <1>1 DEF Gated
  <1>5. Owned'
    BY <1>1, <1>2 DEF TaskInv, Owned
  <1>6. Once'
    BY <1>1 DEF Once
  <1>7. Fresh'
    <2> SUFFICES ASSUME NEW u \in Tasks, Waiting(u)' PROVE Untouched(u)'
      BY DEF Fresh
    <2>1. Waiting(u)
      BY <1>1, <1>2 DEF Waiting, InIbox, InPbox
    <2>2. Untouched(u)
      BY <2>1 DEF TaskInv, Fresh
    <2> QED BY <1>1, <1>3, <1>4, <2>2 DEF Untouched, InPbox
  <1>8. Working'
    BY <1>1 DEF Working, Going, OnItsWay
  <1>9. ~Going'
    BY <1>1 DEF Going, OnItsWay
  <1> QED BY <1>1, <1>4, <1>5, <1>6, <1>7, <1>8, <1>9, IdleBudget

(***************************************************************************)
(* Steps that touch none of this: the notices, the results, a stutter.     *)
(***************************************************************************)
LEMMA StillKeeps ==
    ASSUME TaskInv, UNCHANGED <<store, ask, req, ibox, pbox, plannerVars, runs, refused, lost>>
    PROVE  Owned' /\ Once' /\ Fresh' /\ Working' /\ Budget' /\ Final'
  <1>1. \A u \in Tasks : Waiting(u)' = Waiting(u) /\ Gated(u)' = Gated(u)
    BY DEF Waiting, InIbox, InPbox, Gated
  <1>2. Owned' /\ Once'
    BY DEF TaskInv, Owned, Once, InPbox
  <1>3. Fresh'
    BY <1>1 DEF TaskInv, Fresh, Untouched, InPbox, plannerVars
  <1>4. Working'
    BY OthersWorking
  <1>5. Going' => Going /\ ptask' = ptask
    BY DEF Going, plannerVars
  <1> QED BY <1>1, <1>2, <1>3, <1>4, <1>5, IdleBudget
-----------------------------------------------------------------------------
LEMMA NextTaskInv == TaskInv /\ [Next]_vars => TaskInv'
  <1> SUFFICES ASSUME TaskInv, [Next]_vars PROVE TaskInv'
    OBVIOUS
  <1>1. TypeOK'
    BY StepTypes DEF TaskInv
  <1>2. CASE PlannerStep
    <2>1. CASE handleDetectIntent
      BY <1>1, <2>1, DetectTaken DEF TaskInv
    <2>2. CASE handleClarifyIntent
      BY <1>1, <2>2, ClarifyTaken DEF TaskInv
    <2>3. CASE Work /\ Working'
      BY <1>1, <2>3, LocalKeeps, WorkKeepsBudget DEF TaskInv
    <2>4. handleDetectIntent \/ handleClarifyIntent \/ (Work /\ Working')
      BY <1>2, DetectWorks, CheckWorks, GateWorks, DispatchWorks, ExtractWorks, ErrorWorks
      DEF PlannerStep, ModelAnswers, OwnStep
    <2> QED BY <2>1, <2>2, <2>3, <2>4
  <1>3. CASE Inspect
    BY <1>1, <1>3, InspectKeeps DEF TaskInv
  <1>4. ASSUME NEW t \in Tasks, handleAsk(t) \/ handleAsk2(t)
        PROVE  TaskInv'
    BY <1>1, <1>4, AcceptKeeps DEF TaskInv, handleAsk, handleAsk2
  <1>5. ASSUME NEW t \in Tasks, ApiStep(t) \/ Poll(t)
        PROVE  TaskInv'
    <2>1. CASE Submit(t)
      BY <1>1, <2>1, SubmitKeeps DEF TaskInv
    <2>2. CASE Notice(t) \/ Poll(t)
      BY <1>1, <2>2, StillKeeps DEF TaskInv, Notice, Poll, faults, history
    <2> QED BY <1>5, <2>1, <2>2 DEF ApiStep
  <1>6. ASSUME NEW r \in Replies, SendReply(r) \/ \E t \in Tasks, u \in Users : ReadForReply(r, t, u)
        PROVE  TaskInv'
    BY <1>1, <1>6, SendReplyKeeps, ReadForReplyKeeps DEF TaskInv
  <1>7. CASE Crash
    BY <1>1, <1>7, CrashKeeps DEF TaskInv
  <1>8. CASE UNCHANGED vars
    BY <1>1, <1>8, StillKeeps DEF TaskInv, vars, faults, history
  <1> QED BY <1>2, <1>3, <1>4, <1>5, <1>6, <1>7, <1>8 DEF Next

LEMMA TasksAreSettled == Spec => []TaskInv
  BY InitTaskInv, NextTaskInv, PTL DEF Spec

(***************************************************************************)
(* A request is dispatched once, however often its clarification is        *)
(* answered and whenever AOS restarts; each further run is paid for by a   *)
(* save the store refused (handleDetectIntent, handleClarifyIntent).       *)
(***************************************************************************)
THEOREM OneRunPerRequest == Spec => []DispatchedOnce
  <1>1. TaskInv => DispatchedOnce
    <2> SUFFICES ASSUME TaskInv, NEW t \in Tasks PROVE Len(runs[t]) <= 1 + lost
      BY DEF DispatchedOnce
    <2> DEFINE L == Len(runs[t])
    <2>1. L \in Nat /\ lost \in Nat
      <3>1. runs[t] \in Seq(Runs) /\ lost \in Nat
        BY DEF TaskInv, TypeOK
      <3> QED BY <3>1
    <2>2. Chances(t) \in Nat
      BY DEF Chances
    <2>3. L + Chances(t) <= 1 + lost
      BY DEF TaskInv, Budget
    <2> HIDE DEF L
    <2>4. L <= 1 + lost
      BY <2>1, <2>2, <2>3
    <2> QED BY <2>4 DEF L
  <1> QED BY <1>1, TasksAreSettled, PTL

(***************************************************************************)
(* A refusal by RBAC, by the guard or by Prudence is final for the task:   *)
(* no reply to a clarification makes it run, unless a save was refused     *)
(* (GuardRefuses, Evaluate, Authorize).                                    *)
(***************************************************************************)
THEOREM RefusalsAreFinal == Spec => []RefusalIsFinal
  <1>1. TaskInv => RefusalIsFinal
    BY DEF TaskInv, Final, RefusalIsFinal
  <1> QED BY <1>1, TasksAreSettled, PTL
-----------------------------------------------------------------------------
(***************************************************************************)
(* The checks on the way to the verifier.  A record that waits for its     *)
(* requester names an intent, and its task has been asked.                 *)
(***************************************************************************)
Asked == \A t \in Tasks : Gated(t) => t \in clarified /\ store[t].intent \in Names

Runnable(i, amount) ==
    i \in Names /\ cfg.intents[i].pipeline /\ ValidateAll(i, amount) /\ ~Unanswered(i, amount)

(***************************************************************************)
(* What the planner has checked when it comes to a place.                  *)
(***************************************************************************)
Answering == ppc \in {"extract", "resume", "regate"} => ptask \in clarified /\ pst.intent \in Names

Complete == ask[ptask].op # "" \/ ~Unanswered(pst.intent, pst.amount)

Checked ==
    /\ ppc = "authorize" /\ pst.intent \in Names => Complete
    /\ ppc = "validate" => pst.intent \in Names /\ Complete
    /\ ppc = "resume" => cfg.intents[pst.intent].pipeline /\ ~Unanswered(pst.intent, pst.amount)
    /\ ppc \in {"gate", "regate", "persist", "dispatch"} => Runnable(pst.intent, pst.amount)

Authorized ==
    ppc \in {"validate", "gate", "persist", "dispatch"} /\ ptask \notin clarified
        => Granted(pst.intent, ask[ptask].user) /\ ptask \in logged

DirectRuns ==
    \A t \in Tasks \ clarified : \A k \in DOMAIN runs[t] :
        Granted(runs[t][k].intent, ask[t].user) /\ t \in logged

(***************************************************************************)
(* The fallback intent is planned without parameters, so it may require    *)
(* none; definitions/ keeps to that, the code does not check it.           *)
(***************************************************************************)
FallbackNeedsNothing ==
    \A c \in Configs :
        "system.fallback" \in DOMAIN c.intents => ~c.intents["system.fallback"].required

PassInv ==
    /\ FallbackNeedsNothing /\ TaskInv
    /\ Asked /\ Answering /\ Checked /\ Authorized /\ OnlyValidRuns /\ DirectRuns

LEMMA InitPassInv == FallbackNeedsNothing /\ Init => PassInv
  <1> SUFFICES ASSUME FallbackNeedsNothing, Init PROVE PassInv
    OBVIOUS
  <1>1. TaskInv /\ ppc = "idle" /\ (\A t \in Tasks : ~Gated(t) /\ runs[t] = <<>>)
    <2>1. \A t \in Tasks : store[t] = NoState /\ runs[t] = <<>>
      BY DEF Init
    <2> QED BY <2>1, InitTaskInv DEF Init, Gated
  <1>2. DOMAIN <<>> = {}
    OBVIOUS
  <1>3. OnlyValidRuns /\ DirectRuns
    BY <1>1, <1>2 DEF OnlyValidRuns, DirectRuns
  <1> QED BY <1>1, <1>3 DEF PassInv, Asked, Answering, Checked, Authorized

(***************************************************************************)
(* What was sent stays as it was checked.                                  *)
(***************************************************************************)
Lasting ==
    /\ cfg' = cfg /\ clarified \subseteq clarified' /\ logged \subseteq logged'
    /\ \A u \in Tasks : ask'[u].user = ask[u].user

RunsRunnable ==
    \A t \in Tasks : \A k \in DOMAIN runs[t] : Runnable(runs[t][k].intent, runs[t][k].amount)

LEMMA ValidMeansRunnable == OnlyValidRuns <=> RunsRunnable
  BY DEF OnlyValidRuns, RunsRunnable, Runnable

LEMMA RunsKept ==
    ASSUME PassInv, Lasting, runs' = runs
    PROVE  OnlyValidRuns' /\ DirectRuns'
  <1>1. cfg' = cfg /\ runs' = runs
    BY DEF Lasting
  <1>2. OnlyValidRuns'
    <2>1. \A i, a : Runnable(i, a)' <=> Runnable(i, a)
      BY <1>1 DEF Runnable, Names, ValidateAll, Unanswered
    <2>2. RunsRunnable'
      BY <1>1, <2>1, ValidMeansRunnable DEF PassInv, RunsRunnable
    <2> QED BY <2>2, ValidMeansRunnable, PTL
  <1>3. DirectRuns'
    BY <1>1 DEF PassInv, DirectRuns, Lasting, Granted, IsAllowed
  <1> QED BY <1>2, <1>3

LEMMA AskedKept ==
    ASSUME PassInv, Lasting,
           \A u \in Tasks : Gated(u)' => \/ Gated(u) /\ store'[u].intent = store[u].intent
                                         \/ u \in clarified' /\ store'[u].intent \in Names
    PROVE  Asked'
  BY DEF PassInv, Asked, Lasting, Names

(***************************************************************************)
(* Steps of the others leave the task in hand alone.                       *)
(***************************************************************************)
LEMMA OthersPass ==
    ASSUME PassInv, UNCHANGED <<cfg, clarified, logged, runs, plannerVars>>,
           \A u \in Tasks : ask'[u].user = ask[u].user,
           ppc # "idle" => ask'[ptask].op = ask[ptask].op,
           \A u \in Tasks : Gated(u)' => store'[u] = store[u]
    PROVE  Asked' /\ Answering' /\ Checked' /\ Authorized' /\ OnlyValidRuns' /\ DirectRuns'
  <1>1. Lasting
    BY DEF Lasting
  <1>2. ptask \in Tasks /\ UNCHANGED <<ppc, ptask, pst>>
    BY DEF PassInv, TaskInv, TypeOK, plannerVars
  <1>3. \A u \in Tasks : Gated(u)' => Gated(u) /\ store'[u] = store[u]
    BY DEF Gated
  <1>4. Asked'
    BY <1>1, <1>3, AskedKept
  <1>5. Answering'
    BY <1>2 DEF PassInv, Answering, Names
  <1>6. Checked'
    <2>1. ppc # "idle" => (Complete' <=> Complete)
      BY <1>2 DEF Complete, Unanswered
    <2>2. Runnable(pst.intent, pst.amount)' <=> Runnable(pst.intent, pst.amount)
      BY <1>2 DEF Runnable, Names, ValidateAll, Unanswered
    <2> QED BY <1>2, <2>1, <2>2 DEF PassInv, Checked, Names, Unanswered
  <1>7. Authorized'
    BY <1>2 DEF PassInv, Authorized, Granted, IsAllowed
  <1> QED BY <1>1, <1>4, <1>5, <1>6, <1>7, RunsKept
-----------------------------------------------------------------------------
(***************************************************************************)
(* The planner's steps: what each leaves alone, and then what it checks.   *)
(***************************************************************************)
PassKept == Asked' /\ Answering' /\ Checked' /\ Authorized' /\ OnlyValidRuns' /\ DirectRuns'

(***************************************************************************)
(* The planner puts the task aside, or gives it up.                        *)
(***************************************************************************)
LEMMA EndsPass ==
    ASSUME PassInv, Lasting, runs' = runs, ppc' \in {"idle", "await", "fail", "failsave"},
           \A u \in Tasks : Gated(u)' => \/ Gated(u) /\ store'[u].intent = store[u].intent
                                         \/ u \in clarified' /\ store'[u].intent \in Names
    PROVE  PassKept
  <1>1. Answering' /\ Checked' /\ Authorized'
    BY DEF Answering, Checked, Authorized
  <1> QED BY <1>1, RunsKept, AskedKept DEF PassKept

(***************************************************************************)
(* The planner saves the task's record.                                    *)
(***************************************************************************)
LEMMA SavedGates ==
    ASSUME TaskInv, NEW t \in Tasks, NEW st, Save(t, st)
    PROVE  \A u \in Tasks : Gated(u)' => \/ Gated(u) /\ store'[u].intent = store[u].intent
                                         \/ u = t /\ store'[u] = st /\ st.gate = "clarification"
  BY DEF TaskInv, TypeOK, Save, Saved, NotSaved, Gated

LEMMA QuietGates ==
    ASSUME store' = store
    PROVE  \A u \in Tasks : Gated(u)' => Gated(u) /\ store'[u].intent = store[u].intent
  BY DEF Gated

LEMMA AskAgainPasses ==
    ASSUME PassInv, NEW st, RequestClarification(st), st.intent \in Names
    PROVE  PassKept
  <1>1. Lasting /\ runs' = runs /\ ppc' = "await" /\ ptask \in clarified' /\ ptask \in Tasks
    BY DEF RequestClarification, Lasting, Goto, PassInv, TaskInv, TypeOK
  <1>2. Save(ptask, st)
    BY DEF RequestClarification
  <1> QED BY <1>1, <1>2, SavedGates, EndsPass DEF PassInv

LEMMA DetectPasses ==
    ASSUME PassInv, handleDetectIntent, NEW t, ptask' = t
    PROVE  PassKept
  <1> DEFINE owner == [Blank EXCEPT !.user = ask[t].user]
             named == [owner EXCEPT !.intent = ask[t].op, !.amount = Converted(ask[t].amount)]
  <1>1. Lasting /\ UNCHANGED <<cfg, runs, ask>> /\ t \in Tasks
    BY ReceiveType DEF handleDetectIntent, Lasting, history, PassInv, TaskInv
  <1>2. /\ Saved(t, owner) \/ NotSaved
        /\ ppc' = "authorize" => ask[t].op # ""
        /\ ppc' \in {"detect", "authorize", "fail"}
    BY DEF handleDetectIntent
  <1>3. owner.gate # "clarification"
    BY Places DEF Blank
  <1>4. Asked'
    BY <1>1, <1>2, <1>3, SavedGates, AskedKept DEF PassInv, Save
  <1>5. Checked'
    BY <1>1, <1>2 DEF Checked, Complete
  <1>6. Answering' /\ Authorized'
    BY <1>2 DEF Answering, Authorized
  <1> QED BY <1>1, <1>4, <1>5, <1>6, RunsKept DEF PassKept

LEMMA IntentPasses ==
    ASSUME PassInv, DetectFails \/ DetectIntent \/ DetectMissing \/ AwaitClarification
    PROVE  PassKept
  <1>1. CASE DetectFails \/ AwaitClarification
    <2>1. Lasting /\ runs' = runs /\ ppc' \in {"idle", "fail"} /\ store' = store
      BY <1>1 DEF DetectFails, AwaitClarification, Lasting, Fail, Goto, Finish, faults, history
    <2> QED BY <2>1, QuietGates, EndsPass
  <1>2. CASE DetectMissing
    <2>1. PICK i \in Names, a \in Values :
              RequestClarification([pst EXCEPT !.intent = i, !.amount = a,
                                               !.gate = "clarification"])
      BY <1>2 DEF DetectMissing
    <2> DEFINE st == [pst EXCEPT !.intent = i, !.amount = a, !.gate = "clarification"]
    <2>2. st.intent = i
      BY DEF PassInv, TaskInv, TypeOK, ExecutionState
    <2> HIDE DEF st
    <2>3. RequestClarification(st)
      BY <2>1 DEF st
    <2> QED BY <2>2, <2>3, AskAgainPasses
  <1>3. CASE DetectIntent
    <2>1. Lasting /\ runs' = runs /\ ppc' = "authorize" /\ UNCHANGED <<store, cfg, ask, ptask>>
      BY <1>3 DEF DetectIntent, Lasting, Goto, faults, history
    <2>2. pst \in ExecutionState
      BY DEF PassInv, TaskInv, TypeOK
    <2>3. pst'.intent \in Names => ~Unanswered(pst'.intent, pst'.amount)
      <3>1. CASE pst' = [pst EXCEPT !.intent = "system.fallback"]
        <4>1. pst'.intent = "system.fallback"
          BY <2>2, <3>1 DEF ExecutionState
        <4>2. cfg \in Configs
          BY DEF PassInv, TaskInv, TypeOK
        <4> QED BY <4>1, <4>2 DEF PassInv, FallbackNeedsNothing, Names, Unanswered
      <3>2. CASE \E i \in Names, a \in Values :
                     ~Unanswered(i, a) /\ pst' = [pst EXCEPT !.intent = i, !.amount = a]
        <4>1. PICK i \in Names, a \in Values :
                  ~Unanswered(i, a) /\ pst' = [pst EXCEPT !.intent = i, !.amount = a]
          BY <3>2
        <4>2. pst'.intent = i /\ pst'.amount = a
          BY <2>2, <4>1 DEF ExecutionState
        <4> QED BY <4>1, <4>2
      <3> QED BY <1>3, <3>1, <3>2 DEF DetectIntent
    <2>4. Asked'
      BY <2>1, QuietGates, AskedKept
    <2>5. Checked'
      BY <2>1, <2>3 DEF Checked, Complete, Names, Unanswered
    <2>6. Answering' /\ Authorized'
      BY <2>1 DEF Answering, Authorized
    <2> QED BY <2>1, <2>4, <2>5, <2>6, RunsKept DEF PassKept
  <1> QED BY <1>1, <1>2, <1>3

LEMMA AuthorizePasses ==
    ASSUME PassInv, Authorize
    PROVE  PassKept
  <1>1. /\ Lasting /\ runs' = runs /\ ppc = "authorize"
        /\ UNCHANGED <<store, cfg, ask, ptask, pst, clarified>>
        /\ ppc' \in {"fail", "validate"}
    BY DEF Authorize, Lasting, Fail, Goto, faults
  <1>2. CASE ppc' = "fail"
    BY <1>1, <1>2, QuietGates, EndsPass
  <1>3. CASE ppc' = "validate"
    <2>1. pst.intent \in Names /\ ~Denied /\ logged' = logged \cup {ptask}
      BY <1>3 DEF Authorize, Fail, Goto
    <2>2. Complete
      BY <1>1, <2>1 DEF PassInv, Checked
    <2>3. Checked'
      BY <1>1, <1>3, <2>1, <2>2 DEF Checked, Complete, Names, Unanswered
    <2>4. Authorized'
      BY <1>1, <2>1 DEF Authorized, Denied, Granted, IsAllowed
    <2>5. Answering'
      BY <1>3 DEF Answering
    <2> QED BY <1>1, <2>3, <2>4, <2>5, QuietGates, AskedKept, RunsKept DEF PassKept
  <1> QED BY <1>1, <1>2, <1>3

LEMMA ValidatePasses ==
    ASSUME PassInv, Validate \/ ResumePlan
    PROVE  PassKept
  <1>1. /\ Lasting /\ runs' = runs /\ ppc \in {"validate", "resume"}
        /\ UNCHANGED <<store, cfg, ask, ptask, clarified, logged>>
        /\ ppc = "validate" => ppc' \in {"idle", "fail", "gate"}
        /\ ppc = "resume" => ppc' \in {"idle", "regate"}
    BY DEF Validate, ResumePlan, Lasting, Fail, Goto, GuardRefuses, Finish, faults
  <1>2. CASE ppc' \in {"idle", "fail"}
    BY <1>1, <1>2, QuietGates, EndsPass
  <1>3. CASE ppc' \in {"gate", "regate"}
    <2>1. /\ pst' = pst /\ ValidateAll(pst.intent, pst.amount)
          /\ ppc = "validate" => Plannable
      BY <1>1, <1>3 DEF Validate, ResumePlan, Fail, Goto, GuardRefuses, Finish
    <2>2. Runnable(pst.intent, pst.amount)
      <3>1. CASE ppc = "validate"
        <4>1. pst.intent \in Names /\ Complete
          BY <3>1 DEF PassInv, Checked
        <4>2. cfg.intents[pst.intent].pipeline /\ ~Unanswered(pst.intent, pst.amount)
          BY <2>1, <3>1, <4>1 DEF Plannable, Complete, Unanswered, ValidateStructuredParams
        <4> QED BY <2>1, <4>1, <4>2 DEF Runnable
      <3>2. CASE ppc = "resume"
        BY <2>1, <3>2 DEF PassInv, Answering, Checked, Runnable
      <3> QED BY <1>1, <3>1, <3>2
    <2>3. Runnable(pst.intent, pst.amount)'
      BY <1>1, <2>1, <2>2 DEF Runnable, Names, ValidateAll, Unanswered
    <2>4. Checked'
      BY <1>3, <2>3 DEF Checked
    <2>5. Authorized'
      BY <1>1, <1>3, <2>1 DEF PassInv, Authorized, Granted, IsAllowed
    <2>6. Answering'
      BY <1>1, <1>3, <2>1 DEF PassInv, Answering, Names
    <2> QED BY <1>1, <2>4, <2>5, <2>6, QuietGates, AskedKept, RunsKept DEF PassKept
  <1> QED BY <1>1, <1>2, <1>3

(***************************************************************************)
(* On, with the same record: what was checked stays checked.               *)
(***************************************************************************)
LEMMA OnwardPasses ==
    ASSUME PassInv, Lasting, ppc' \in {"persist", "dispatch"}, ppc \in {"gate", "regate", "persist"},
           ppc = "regate" => ppc' = "dispatch",
           UNCHANGED <<cfg, ask, ptask, pst, clarified, logged, runs>>,
           \A u \in Tasks : Gated(u)' => Gated(u) /\ store'[u].intent = store[u].intent
    PROVE  PassKept
  <1>1. Runnable(pst.intent, pst.amount)'
    BY DEF PassInv, Checked, Runnable, Names, ValidateAll, Unanswered
  <1>2. Checked'
    BY <1>1 DEF Checked
  <1>3. Authorized'
    BY DEF PassInv, Authorized, Answering, Granted, IsAllowed
  <1>4. Answering'
    BY DEF Answering
  <1> QED BY <1>2, <1>3, <1>4, AskedKept, RunsKept DEF PassKept

LEMMA GatePasses ==
    ASSUME PassInv,
           PassUngoverned \/ RefuseUngoverned \/ \E a \in Answers \cup {Unreachable} : Evaluate(a)
    PROVE  PassKept
  <1>1. /\ Lasting /\ ppc \in {"gate", "regate"}
        /\ UNCHANGED <<cfg, ask, clarified, logged, runs>>
    BY DEF PassUngoverned, RefuseUngoverned, Evaluate, AtGate, Lasting, faults, history
  <1>2. CASE PassUngoverned
    <2>1. /\ UNCHANGED <<store, pst, ptask>> /\ ppc' \in {"persist", "dispatch"}
          /\ ppc = "regate" => ppc' = "dispatch"
      BY <1>2 DEF PassUngoverned, Goto
    <2> QED BY <1>1, <2>1, QuietGates, OnwardPasses
  <1>3. CASE RefuseUngoverned
    <2>1. store' = store /\ ppc' = "idle"
      BY <1>3 DEF RefuseUngoverned, Finish
    <2> QED BY <1>1, <2>1, QuietGates, EndsPass
  <1>4. ASSUME NEW a \in Answers \cup {Unreachable}, Evaluate(a)
        PROVE  PassKept
    <2>1. CASE ppc' # "idle"
      <3>1. /\ UNCHANGED <<store, pst, ptask>> /\ ppc' \in {"persist", "dispatch"}
            /\ ppc = "regate" => ppc' = "dispatch"
        BY <1>4, <2>1 DEF Evaluate, Goto, Finish
      <3> QED BY <1>1, <3>1, QuietGates, OnwardPasses
    <2>2. CASE ppc' = "idle"
      <3>1. store' = store \/ Save(ptask, Blocked)
        BY <1>4 DEF Evaluate
      <3>2. Blocked.gate # "clarification" /\ ptask \in Tasks
        BY BlockedFields, Places DEF PassInv, TaskInv, TypeOK
      <3>3. \A u \in Tasks : Gated(u)' => Gated(u) /\ store'[u].intent = store[u].intent
        BY <3>1, <3>2, QuietGates, SavedGates DEF PassInv
      <3> QED BY <1>1, <2>2, <3>3, EndsPass
    <2> QED BY <2>1, <2>2
  <1> QED BY <1>2, <1>3, <1>4

LEMMA PersistPasses ==
    ASSUME PassInv, PersistExecution
    PROVE  PassKept
  <1> DEFINE st == [pst EXCEPT !.decision = Governed(pst.intent)]
  <1>1. /\ Lasting /\ ppc = "persist" /\ ppc' = "dispatch" /\ Save(ptask, st) /\ ptask \in Tasks
        /\ UNCHANGED <<cfg, ask, ptask, pst, clarified, logged, runs>>
    BY DEF PersistExecution, Lasting, Goto, history, PassInv, TaskInv, TypeOK
  <1>2. st.gate = pst.gate
    BY DEF PassInv, TaskInv, TypeOK, ExecutionState
  <1>3. pst.gate = ""
    BY <1>1 DEF PassInv, TaskInv, Working, Going, OnItsWay
  <1> HIDE DEF st
  <1>4. st.gate # "clarification"
    BY <1>2, <1>3, Places
  <1>5. \A u \in Tasks : Gated(u)' => Gated(u) /\ store'[u].intent = store[u].intent
    BY <1>1, <1>4, SavedGates DEF PassInv
  <1> QED BY <1>1, <1>5, OnwardPasses

LEMMA DispatchPasses ==
    ASSUME PassInv, DispatchPipeline
    PROVE  PassKept
  <1> DEFINE run == [intent |-> pst.intent, amount |-> pst.amount]
  <1>1. /\ Lasting /\ ppc = "dispatch" /\ ppc' = "idle" /\ ptask \in Tasks
        /\ runs' = runs \/ runs' = [runs EXCEPT ![ptask] = Append(@, run)]
        /\ UNCHANGED <<cfg, ask, store, clarified, logged>>
    BY DEF DispatchPipeline, Lasting, Finish, PassInv, TaskInv, TypeOK
  <1>2. CASE runs' = runs
    BY <1>1, <1>2, QuietGates, EndsPass
  <1>3. CASE runs' = [runs EXCEPT ![ptask] = Append(@, run)]
    <2>1. run.intent = pst.intent /\ run.amount = pst.amount /\ run \in Runs
      BY DEF PassInv, TaskInv, TypeOK, ExecutionState, Runs
    <2>2. /\ Runnable(run.intent, run.amount)
          /\ ptask \notin clarified => Granted(run.intent, ask[ptask].user) /\ ptask \in logged
      BY <1>1, <2>1 DEF PassInv, Checked, Authorized
    <2> HIDE DEF run
    <2>3. \A t \in Tasks : \A k \in DOMAIN runs'[t] :
              \/ k \in DOMAIN runs[t] /\ runs'[t][k] = runs[t][k]
              \/ t = ptask /\ runs'[t][k] = run
      <3> SUFFICES ASSUME NEW t \in Tasks, NEW k \in DOMAIN runs'[t]
                   PROVE  \/ k \in DOMAIN runs[t] /\ runs'[t][k] = runs[t][k]
                          \/ t = ptask /\ runs'[t][k] = run
        OBVIOUS
      <3>1. runs \in [Tasks -> Seq(Runs)]
        BY DEF PassInv, TaskInv, TypeOK
      <3>2. CASE t # ptask
        BY <1>3, <3>1, <3>2
      <3>3. CASE t = ptask
        <4>1. runs'[t] = Append(runs[t], run) /\ runs[t] \in Seq(Runs)
          BY <1>1, <1>3, <3>1, <3>3
        <4> QED BY <2>1, <3>3, <4>1, AppendOf
      <3> QED BY <3>2, <3>3
    <2>4. \A i, a : Runnable(i, a)' <=> Runnable(i, a)
      BY <1>1 DEF Runnable, Names, ValidateAll, Unanswered
    <2>5. RunsRunnable
      BY ValidMeansRunnable DEF PassInv
    <2>6. RunsRunnable'
      BY <2>2, <2>3, <2>4, <2>5 DEF RunsRunnable
    <2>7. OnlyValidRuns'
      BY <2>6, ValidMeansRunnable, PTL
    <2>8. DirectRuns'
      <3>1. \A i, u : Granted(i, u)' <=> Granted(i, u)
        BY <1>1 DEF Granted, IsAllowed
      <3> QED BY <1>1, <2>2, <2>3, <3>1 DEF PassInv, DirectRuns
    <2>9. Answering' /\ Checked' /\ Authorized'
      BY <1>1 DEF Answering, Checked, Authorized
    <2> QED BY <1>1, <2>7, <2>8, <2>9, QuietGates, AskedKept DEF PassKept
  <1> QED BY <1>1, <1>2, <1>3

LEMMA ClarifyPasses ==
    ASSUME PassInv, handleClarifyIntent, NEW t, ptask' = t
    PROVE  PassKept
  <1>1. /\ Lasting /\ t \in Tasks /\ UNCHANGED <<cfg, store, ask, clarified, runs>>
        /\ \/ ppc' = "extract" /\ pst' = store[t] /\ Gated(t)
           \/ ppc' = "fail"
    BY ReceiveType DEF handleClarifyIntent, Lasting, history, faults, AwaitsReply, HasState, Gated,
                       PassInv, TaskInv
  <1>2. Answering'
    BY <1>1 DEF PassInv, Asked, Answering, Names
  <1>3. Checked' /\ Authorized'
    BY <1>1 DEF Checked, Authorized
  <1> QED BY <1>1, <1>2, <1>3, QuietGates, AskedKept, RunsKept DEF PassKept

LEMMA ExtractPasses ==
    ASSUME PassInv, ExtractFails \/ ExtractMissing \/ ExtractParams
    PROVE  PassKept
  <1>1. ppc = "extract" /\ ptask \in clarified /\ pst.intent \in Names /\ ptask \in Tasks
    BY DEF ExtractFails, ExtractMissing, ExtractParams, PassInv, Answering, TaskInv, TypeOK
  <1>2. CASE ExtractFails
    <2>1. Lasting /\ runs' = runs /\ ppc' = "fail" /\ store' = store
      BY <1>2 DEF ExtractFails, Lasting, Fail, Goto, faults, history
    <2> QED BY <2>1, QuietGates, EndsPass
  <1>3. CASE ExtractMissing
    <2>1. PICK a \in Values : RequestClarification(Merged(a))
      BY <1>3 DEF ExtractMissing
    <2>2. Merged(a).intent \in Names
      BY <1>1, MergedFields DEF PassInv, TaskInv
    <2> QED BY <2>1, <2>2, AskAgainPasses
  <1>4. CASE ExtractParams
    <2>1. PICK a \in Values :
              LET st == GateCleared(Merged(a))
              IN  ~Unanswered(pst.intent, st.amount) /\ pst' = st /\ Save(ptask, st)
      BY <1>4 DEF ExtractParams
    <2> DEFINE st == GateCleared(Merged(a))
    <2>2. st.intent = pst.intent /\ st.gate # "clarification"
      <3>1. Merged(a) \in ExecutionState /\ Merged(a).intent = pst.intent
        BY MergedFields DEF PassInv, TaskInv
      <3>2. st.intent = Merged(a).intent /\ st.gate = ""
        BY <3>1, ClearedFields
      <3> QED BY <3>1, <3>2, Places
    <2> HIDE DEF st
    <2>3. ~Unanswered(pst.intent, st.amount) /\ pst' = st /\ Save(ptask, st)
      BY <2>1 DEF st
    <2>4. /\ Lasting /\ runs' = runs /\ ppc' = "resume"
          /\ UNCHANGED <<cfg, ask, ptask, clarified>>
          /\ cfg.intents[pst.intent].pipeline
      BY <1>4 DEF ExtractParams, Lasting, Goto, history
    <2>5. Asked'
      BY <1>1, <2>2, <2>3, <2>4, SavedGates, AskedKept DEF PassInv
    <2>6. Answering'
      BY <1>1, <2>2, <2>3, <2>4 DEF Answering, Names
    <2>7. Checked'
      BY <2>2, <2>3, <2>4 DEF Checked, Unanswered
    <2>8. Authorized'
      BY <2>4 DEF Authorized
    <2> QED BY <2>4, <2>5, <2>6, <2>7, <2>8, RunsKept DEF PassKept
  <1> QED BY <1>2, <1>3, <1>4

LEMMA ErrorPasses ==
    ASSUME PassInv, storeError \/ SaveError
    PROVE  PassKept
  <1>1. CASE storeError
    <2>1. Lasting /\ runs' = runs /\ ppc' \in {"idle", "failsave"} /\ store' = store
      BY <1>1 DEF storeError, Lasting, Finish, Goto, faults
    <2> QED BY <2>1, QuietGates, EndsPass
  <1>2. CASE SaveError
    <2>1. /\ Lasting /\ runs' = runs /\ ppc' = "idle" /\ ppc = "failsave" /\ Save(ptask, pst)
          /\ ptask \in Tasks /\ UNCHANGED <<cfg, clarified>>
      BY <1>2 DEF SaveError, Lasting, Finish, history, PassInv, TaskInv, TypeOK
    <2>2. /\ store[ptask] \in ExecutionState /\ pst = [store[ptask] EXCEPT !.error = TRUE]
      BY <2>1, InHand DEF PassInv, TaskInv, Working
    <2>3. pst.gate = store[ptask].gate /\ pst.intent = store[ptask].intent
      BY <2>2, ErrorFields
    <2>4. store[ptask] # NoState
      BY <2>2, NoStateAssumption DEF NoStateAssumption
    <2>5. \A u \in Tasks : Gated(u)' => Gated(u) /\ store'[u].intent = store[u].intent
      BY <2>1, <2>3, <2>4, SavedGates DEF PassInv, Gated
    <2> QED BY <2>1, <2>5, EndsPass
  <1> QED BY <1>1, <1>2
-----------------------------------------------------------------------------
LEMMA NextPassInv == PassInv /\ [Next]_vars => PassInv'
  <1> SUFFICES ASSUME PassInv, [Next]_vars PROVE PassInv'
    OBVIOUS
  <1>1. FallbackNeedsNothing' /\ TaskInv'
    BY NextTaskInv DEF PassInv, FallbackNeedsNothing
  <1>2. PassKept
    <2>1. CASE PlannerStep
      BY <2>1, DetectPasses, IntentPasses, AuthorizePasses, ValidatePasses, GatePasses,
         PersistPasses, DispatchPasses, ClarifyPasses, ExtractPasses, ErrorPasses
      DEF PlannerStep, ModelAnswers, OwnStep
    <2>2. ASSUME NEW t \in Tasks, handleAsk(t) \/ handleAsk2(t)
          PROVE  PassKept
      <3>1. PICK op, amount : Accept(t, op, amount)
        BY <2>2 DEF handleAsk, handleAsk2
      <3> DEFINE rec == [Blank EXCEPT !.user = ask[t].user, !.status = "processing"]
                 asked == [pc |-> "saved", user |-> ask[t].user, op |-> op, amount |-> amount]
      <3>2. /\ UNCHANGED <<cfg, clarified, logged, runs, plannerVars>> /\ Saved(t, rec)
            /\ ask' = [ask EXCEPT ![t] = asked] /\ ask[t].pc = "new"
        BY <3>1 DEF Accept, history
      <3>3. rec.gate # "clarification" /\ asked.user = ask[t].user
        BY Places DEF Blank
      <3> HIDE DEF rec, asked
      <3>4. /\ ask \in [Tasks -> Requests] /\ ask'[t] = asked
            /\ \A u \in Tasks \ {t} : ask'[u] = ask[u]
        BY <3>2 DEF PassInv, TaskInv, TypeOK
      <3>5. \A u \in Tasks : Gated(u)' => store'[u] = store[u]
        BY <3>2, <3>3 DEF Saved, Gated, PassInv, TaskInv, TypeOK
      <3>6. ppc # "idle" => ptask # t /\ ptask \in Tasks
        <4>1. Untouched(t)
          BY <3>2 DEF PassInv, TaskInv, Fresh, Waiting
        <4> QED BY <4>1 DEF Untouched, PassInv, TaskInv, TypeOK
      <3> QED BY <3>2, <3>3, <3>4, <3>5, <3>6, OthersPass DEF PassKept
    <2>3. ASSUME NEW t \in Tasks, Submit(t)
          PROVE  PassKept
      <3>1. /\ UNCHANGED <<cfg, store, clarified, logged, runs, plannerVars>>
            /\ ask' = [ask EXCEPT ![t].pc = "sent"] /\ ask \in [Tasks -> Requests]
        BY <2>3 DEF Submit, history, PassInv, TaskInv, TypeOK
      <3>2. \A u \in Tasks : ask'[u].user = ask[u].user /\ ask'[u].op = ask[u].op
        BY <3>1 DEF Requests
      <3>3. ptask \in Tasks
        BY DEF PassInv, TaskInv, TypeOK
      <3> QED BY <3>1, <3>2, <3>3, OthersPass DEF PassKept
    <2>4. CASE UNCHANGED <<cfg, store, ask, clarified, logged, runs, plannerVars>>
      BY <2>4, OthersPass DEF PassKept
    <2>5. CASE Crash
      <3>1. /\ Lasting /\ runs' = runs /\ ppc' = "idle" /\ store' = store
        <4>1. \A u \in Tasks : ask'[u].user = ask[u].user
          <5> TAKE u \in Tasks
          <5>1. ask'[u] = IF ask[u].pc = "saved" THEN [ask[u] EXCEPT !.pc = "sent"] ELSE ask[u]
            BY <2>5 DEF Crash
          <5>2. ask[u] \in Requests
            BY DEF PassInv, TaskInv, TypeOK
          <5> QED BY <5>1, <5>2 DEF Requests
        <4> QED BY <2>5, <4>1 DEF Crash, Lasting, history
      <3> QED BY <3>1, QuietGates, EndsPass
    <2>6. CASE Inspect \/ (\E t \in Tasks : Notice(t) \/ Poll(t))
               \/ (\E r \in Replies : SendReply(r) \/ \E t \in Tasks, u \in Users : ReadForReply(r, t, u))
               \/ UNCHANGED vars
      BY <2>4, <2>6 DEF Inspect, Notice, Poll, SendReply, ReadForReply, vars, history, plannerVars
    <2> QED BY <2>1, <2>2, <2>3, <2>5, <2>6 DEF Next, ApiStep
  <1> QED BY <1>1, <1>2 DEF PassInv, PassKept

LEMMA RunsHavePassed == FallbackNeedsNothing /\ Spec => []PassInv
  BY InitPassInv, NextPassInv, PTL DEF Spec

(***************************************************************************)
(* Only defined pipelines run, with parameters the guard accepts and no    *)
(* required one missing: what the verifier receives has passed the guard   *)
(* on the direct path and after every clarification (planner.go:           *)
(* handleDetectIntent, handleClarifyIntent, dispatchPipeline).             *)
(***************************************************************************)
THEOREM RunsAreValid == FallbackNeedsNothing /\ Spec => []OnlyValidRuns
  <1>1. PassInv => OnlyValidRuns
    BY DEF PassInv
  <1> QED BY <1>1, RunsHavePassed, PTL

(***************************************************************************)
(* A run that needed no clarification was granted by RBAC to the user the  *)
(* task belongs to, the journal has said so, and the record is the user's  *)
(* (planner.go: authorizeIntent, dispatchPipeline).                        *)
(***************************************************************************)
THEOREM DirectRunsAreAuthorized == FallbackNeedsNothing /\ Spec => []DirectRunIsAuthorized
  <1>1. PassInv => DirectRunIsAuthorized
    <2> SUFFICES ASSUME PassInv, NEW t \in Tasks \ clarified, NEW k \in DOMAIN runs[t]
                 PROVE  /\ Granted(runs[t][k].intent, ask[t].user) /\ t \in logged
                        /\ store[t] # NoState /\ store[t].user = ask[t].user
      BY DEF DirectRunIsAuthorized
    <2>1. runs[t] # <<>>
      OBVIOUS
    <2>2. ask[t].pc = "sent"
      BY <2>1 DEF PassInv, TaskInv, Fresh, Waiting, Untouched
    <2> QED BY <2>2 DEF PassInv, DirectRuns, TaskInv, Owned
  <1> QED BY <1>1, RunsHavePassed, PTL
=============================================================================
