-------------------------- MODULE LinearRunProofs --------------------------
(***************************************************************************)
(* Proofs about LinearRun, for any tasks, requests, pipelines, inbox       *)
(* capacity and numbers of crashes.                                        *)
(***************************************************************************)
EXTENDS LinearRun, InboxLemmas, SequenceTheorems, FiniteSetTheorems, TLAPS

(***************************************************************************)
(* TypeOK is not inductive: the verifier's local record is only a record,  *)
(* its index only an index, and its outcome only an outcome, at the points *)
(* of the code that use them.                                              *)
(***************************************************************************)
Locals ==
    /\ vpc \in {"callback", "decision", "expire", "loop", "invoke", "calling", "fail", "failsave"}
          => vst \in ExecutionState
    /\ vpc \in {"loop", "invoke", "calling"} => vidx \in Nat \ {0}
    /\ vpc \in {"invoke", "calling"} => vidx \in 1..N
    /\ vpc \in {"fail", "failsave"} => varg \in {"error", "rejected"}

(***************************************************************************)
(* TypeOK and Locals by the part of the system that writes each.           *)
(***************************************************************************)
StoreType == store \in [Tasks -> ExecutionState \cup {NoState}]

VerifierType ==
    /\ vpc \in VerifierSteps
    /\ vtask \in Tasks
    /\ vst \in ExecutionState \cup {NoState}
    /\ vidx \in Nat
    /\ vdl \in Nat
    /\ varg \in {"", "approved", "rejected", "error"}
    /\ Locals

BusType == inbox \in Seq(Messages) /\ abox \in Seq(Tasks)

AnalystType == analyst \in [pc : {"idle", "save"}, task : Tasks, st : ExecutionState]

RequestType ==
    req \in [Requests -> [pc : {"new", "read", "done"}, op : Operations, task : Tasks,
                          st : ExecutionState, at : Nat]]

ResultType == results \in [Tasks -> Outcomes]

EnvType ==
    /\ steps \in Pipelines
    /\ submitted \subseteq Tasks
    /\ notices \subseteq Tasks
    /\ reading \subseteq Tasks
    /\ journal \in BOOLEAN
    /\ cfg \in Nat
    /\ now \in Nat
    /\ crashes \in Nat
    /\ known \subseteq Tasks
    /\ blind \in Nat

CountType ==
    /\ ran \in [Tasks -> [1..N -> Nat]]
    /\ approvals \in [Tasks -> [Gates \cup {"await_callback"} -> Nat]]
    /\ consumed \in [Tasks -> Nat]

TypeInv ==
    /\ StoreType /\ VerifierType /\ BusType /\ AnalystType /\ RequestType /\ ResultType
    /\ EnvType /\ CountType

LEMMA TypeInvImpliesTypeOK == TypeInv => TypeOK
BY DEF TypeInv, TypeOK, StoreType, VerifierType, BusType, AnalystType, RequestType, ResultType,
       EnvType, CountType

(***************************************************************************)
(* What a pipeline is.                                                     *)
(***************************************************************************)
LEMMA PipelineType ==
    ASSUME steps \in Pipelines
    PROVE  /\ N \in Nat
           /\ DOMAIN steps = 1..N
           /\ \A i \in 1..N : /\ steps[i].kind \in Kinds
                              /\ steps[i].timeout \in Nat
                              /\ steps[i].kind = "gate" => steps[i].gate \in Gates
<1> DEFINE S == [kind : Kinds, gate : STRING, submits : BOOLEAN, cond : BOOLEAN, timeout : Nat]
<1>1. steps \in Seq(S)
  BY PipelinesAssumption
<1>2. N \in Nat /\ DOMAIN steps = 1..N
  BY <1>1, LenProperties DEF N
<1>3. \A i \in 1..N : steps[i] \in S
  BY <1>1, <1>2, ElementOfSeq DEF N
<1>4. \A i \in 1..N : steps[i].kind \in Kinds /\ steps[i].timeout \in Nat
  BY <1>3
<1>5. \A i \in 1..N : steps[i].kind = "gate" => steps[i].gate \in Gates
  BY <1>2 DEF Gates
<1> QED BY <1>2, <1>4, <1>5

LEMMA SuccessorType ==
    ASSUME NEW n \in Nat
    PROVE  n + 1 \in Nat /\ n + 1 \in Nat \ {0}
OBVIOUS

(***************************************************************************)
(* The records the handlers write are records.                             *)
(***************************************************************************)
LEMMA BlankType == Blank \in ExecutionState
BY DEF Blank, ExecutionState, Statuses

LEMMA RecordTypes ==
    ASSUME NEW st \in ExecutionState
    PROVE  /\ Failed(st) \in ExecutionState
           /\ Rejected(st) \in ExecutionState
           /\ Resumed(st) \in ExecutionState
           /\ [Resumed(st) EXCEPT !.status = "error", !.error = TRUE] \in ExecutionState
           /\ Expired(st) \in ExecutionState
           /\ \A v \in Nat : [st EXCEPT !.version = v] \in ExecutionState
           /\ \A at \in Nat : Accepted(st, at) \in ExecutionState
           /\ \A o \in {"error", "rejected"} : Ended(st, o) \in ExecutionState
<1> USE DEF ExecutionState, Statuses
<1>1. Failed(st) \in ExecutionState
  BY DEF Failed
<1>2. Rejected(st) \in ExecutionState
  BY DEF Rejected
<1>3. Resumed(st) \in ExecutionState
  <2>a. st.done \in Nat
    OBVIOUS
  <2>1. st.done + 1 \in Nat
    BY <2>a, SuccessorType, Zenon
  <2> QED BY <2>1 DEF Resumed
<1>4. [Resumed(st) EXCEPT !.status = "error", !.error = TRUE] \in ExecutionState
  BY <1>3
<1>5. Expired(st) \in ExecutionState
  BY DEF Expired
<1>6. \A v \in Nat : [st EXCEPT !.version = v] \in ExecutionState
  OBVIOUS
<1>7. \A at \in Nat : Accepted(st, at) \in ExecutionState
  BY DEF Accepted
<1>8. \A o \in {"error", "rejected"} : Ended(st, o) \in ExecutionState
  BY DEF Ended
<1> QED BY <1>1, <1>2, <1>3, <1>4, <1>5, <1>6, <1>7, <1>8

LEMMA PauseTypes ==
    ASSUME TypeInv, vpc = "loop"
    PROVE  /\ \A gate \in Gates \cup {"", "await_callback"} : Paused(gate) \in ExecutionState
           /\ Awaiting \in ExecutionState
           /\ Prepared \in ExecutionState
<1>1. vst \in ExecutionState /\ vst.version \in Nat
  BY DEF TypeInv, VerifierType, Locals, ExecutionState
<1>2. vidx \in Nat \ {0} /\ vdl \in Nat
  BY DEF TypeInv, VerifierType, Locals
<1>a. vidx - 1 \in Nat
  BY <1>2
<1>3. \A gate \in Gates \cup {"", "await_callback"} : Paused(gate) \in ExecutionState
  BY <1>1, <1>a, BlankType DEF Paused, ExecutionState
<1>4. Awaiting \in ExecutionState
  <2>1. Paused("await_callback") \in ExecutionState
    BY <1>3
  <2> QED BY <1>2, <2>1 DEF Awaiting, ExecutionState, Statuses
<1>5. Prepared \in ExecutionState
  BY <1>1, <1>2, BlankType DEF Prepared, ExecutionState, Statuses
<1> QED BY <1>3, <1>4, <1>5

LEMMA CompletedType ==
    ASSUME steps \in Pipelines, NEW st \in ExecutionState
    PROVE  Completed(st) \in ExecutionState
<1> DEFINE S == {i \in DOMAIN steps : \A j \in 1..i : steps[j].kind # "analyst"}
<1>1. S \subseteq 1..N /\ N \in Int
  BY PipelineType
<1>a. IsFiniteSet(1..N)
  BY <1>1, FS_Interval
<1>2. IsFiniteSet(S)
  BY <1>1, <1>a, FS_Subset
<1>3. CompletedSteps \in Nat
  BY <1>2, FS_CardinalityType DEF CompletedSteps
<1> QED BY <1>3 DEF Completed, ExecutionState, Statuses

(***************************************************************************)
(* The bus: a message is appended or dropped.                              *)
(***************************************************************************)
LEMMA DeliveredType ==
    ASSUME NEW S, NEW box \in Seq(S), NEW m \in S
    PROVE  Delivered(box, m) \in Seq(S)
BY AppendProperties DEF Delivered

LEMMA HeadTailType ==
    ASSUME NEW S, NEW box \in Seq(S), box # <<>>
    PROVE  Head(box) \in S /\ Tail(box) \in Seq(S)
BY HeadTailProperties

LEMMA InitType == Init => TypeInv
<1> SUFFICES ASSUME Init PROVE TypeInv
  OBVIOUS
<1>1. BusType
  BY EmptySeq DEF Init, BusType
<1>2. StoreType
  BY DEF Init, StoreType
<1>3. AnalystType
  BY BlankType DEF Init, AnalystType
<1>4. RequestType
  BY BlankType DEF Init, RequestType, Operations
<1>5. ResultType
  BY DEF Init, ResultType, Outcomes
<1>6. CountType
  BY DEF Init, CountType
<1>7. VerifierType
  BY DEF Init, VerifierType, VerifierSteps, Locals
<1>8. EnvType
  BY DEF Init, EnvType
<1> QED BY <1>1, <1>2, <1>3, <1>4, <1>5, <1>6, <1>7, <1>8 DEF TypeInv

(***************************************************************************)
(* What the building blocks of the handlers write.                         *)
(***************************************************************************)
LEMMA SaveType ==
    ASSUME StoreType, NEW t \in Tasks, NEW st \in ExecutionState \cup {NoState}, Save(t, st)
    PROVE  StoreType'
BY DEF StoreType, Save

LEMMA StoreResultType ==
    ASSUME ResultType, NEW t \in Tasks, NEW status \in Outcomes, StoreResult(t, status)
    PROVE  ResultType'
BY DEF ResultType, StoreResult

LEMMA ReturnType == ASSUME VerifierType, Return PROVE VerifierType'
BY DEF VerifierType, Locals, Return, VerifierSteps

LEMMA AdvanceType ==
    ASSUME VerifierType, vst \in ExecutionState, Advance
    PROVE  VerifierType'
<1>a. vidx \in Nat /\ vidx' = vidx + 1
  BY DEF VerifierType, Advance
<1>1. vidx' \in Nat \ {0}
  BY <1>a, SuccessorType
<1> QED BY <1>1 DEF VerifierType, Locals, Advance, VerifierSteps

LEMMA StoredType ==
    ASSUME StoreType, NEW t \in Tasks
    PROVE  /\ store[t] \in ExecutionState \cup {NoState}
           /\ LoadOrNew(t) \in ExecutionState
BY BlankType DEF StoreType, LoadOrNew

LEMMA StoreErrorType ==
    ASSUME StoreType, ResultType, VerifierType, NEW t \in Tasks, storeError(t)
    PROVE  StoreType' /\ ResultType' /\ VerifierType'
BY SaveType, StoreResultType, ReturnType DEF storeError, Outcomes

LEMMA FailAuditType ==
    ASSUME StoreType, ResultType, VerifierType, NEW t \in Tasks, NEW st \in ExecutionState,
           failAuditExecution(t, st)
    PROVE  StoreType' /\ ResultType' /\ VerifierType'
<1>1. Failed(st) \in ExecutionState \cup {NoState}
  BY RecordTypes
<1> QED BY <1>1, SaveType, StoreResultType, ReturnType DEF failAuditExecution, Outcomes

LEMMA SendTypes ==
    ASSUME BusType, NEW t \in Tasks, NEW type \in {"run_pipeline"} \cup Operations,
           Send(type, t), UNCHANGED abox
    PROVE  BusType'
<1>1. [type |-> type, task |-> t] \in Messages
  BY DEF Messages, Operations
<1>2. inbox' \in Seq(Messages)
  BY <1>1, DeliveredType DEF Send, BusType
<1> QED BY <1>2 DEF BusType

LEMMA ReceiveType ==
    ASSUME BusType, NEW type, Receive(type), UNCHANGED abox
    PROVE  BusType' /\ Head(inbox).task \in Tasks
<1>1. inbox \in Seq(Messages) /\ inbox # <<>>
  BY DEF Receive, BusType
<1>2. Head(inbox) \in Messages /\ Tail(inbox) \in Seq(Messages)
  BY <1>1, HeadTailType
<1>3. Head(inbox).task \in Tasks
  BY <1>2 DEF Messages
<1> QED BY <1>2, <1>3 DEF Receive, BusType

LEMMA GotoLoadType ==
    ASSUME VerifierType, Goto("load", NoState)
    PROVE  VerifierType'
BY DEF VerifierType, Locals, Goto, VerifierSteps

LEMMA ResumeType ==
    ASSUME StoreType, ResultType, VerifierType, NEW t \in Tasks, NEW st \in ExecutionState,
           resumeFromState(t, st)
    PROVE  StoreType' /\ ResultType' /\ VerifierType'
<1>1. CASE storeError(t)
  BY <1>1, StoreErrorType
<1>2. CASE failAuditExecution(t, st)
  BY <1>2, FailAuditType
<1>3. CASE Save(t, st) /\ Goto("load", NoState) /\ UNCHANGED results
  BY <1>3, SaveType, GotoLoadType DEF ResultType
<1> QED BY <1>1, <1>2, <1>3 DEF resumeFromState

(***************************************************************************)
(* A part keeps its type when its variables keep their values.             *)
(***************************************************************************)
LEMMA Unmoved ==
    ASSUME TypeInv, UNCHANGED steps
    PROVE  /\ UNCHANGED store => StoreType'
           /\ UNCHANGED verifierVars => VerifierType'
           /\ UNCHANGED <<inbox, abox>> => BusType'
           /\ UNCHANGED analyst => AnalystType'
           /\ UNCHANGED req => RequestType'
           /\ UNCHANGED results => ResultType'
           /\ UNCHANGED <<submitted, notices, reading, journal, cfg, now, crashes, known, blind>>
                 => EnvType'
           /\ UNCHANGED <<ran, approvals, consumed>> => CountType'
<1> USE DEF TypeInv
<1>1. UNCHANGED store => StoreType'
  BY DEF StoreType
<1>2. UNCHANGED verifierVars => VerifierType'
  BY DEF VerifierType, verifierVars, Locals, N
<1>3. UNCHANGED <<inbox, abox>> => BusType'
  BY DEF BusType
<1>4. UNCHANGED analyst => AnalystType'
  BY DEF AnalystType
<1>5. UNCHANGED req => RequestType'
  BY DEF RequestType
<1>6. UNCHANGED results => ResultType'
  BY DEF ResultType
<1>7. UNCHANGED <<submitted, notices, reading, journal, cfg, now, crashes, known, blind>>
         => EnvType'
  BY DEF EnvType
<1>8. UNCHANGED <<ran, approvals, consumed>> => CountType'
  BY DEF CountType, N
<1> QED BY <1>1, <1>2, <1>3, <1>4, <1>5, <1>6, <1>7, <1>8

-----------------------------------------------------------------------------
(***************************************************************************)
(* The verifier's handlers.                                                *)
(***************************************************************************)
LEMMA DispatchPipelineType ==
    ASSUME TypeInv, NEW t \in Tasks, DispatchPipeline(t)
    PROVE  TypeInv'
<1> USE DEF DispatchPipeline, envVars, history, analystVars
<1>1. StoreType'
  BY BlankType, SaveType DEF TypeInv
<1>2. BusType'
  BY SendTypes DEF TypeInv
<1>3. EnvType'
  BY DEF TypeInv, EnvType
<1> QED BY <1>1, <1>2, <1>3, Unmoved DEF TypeInv

LEMMA RunPipelineType ==
    ASSUME TypeInv, handleRunPipeline
    PROVE  TypeInv'
<1> DEFINE t  == Head(inbox).task
           st == [LoadOrNew(t) EXCEPT !.version = cfg]
<1>1. BusType' /\ t \in Tasks
  BY ReceiveType DEF TypeInv, handleRunPipeline, analystVars
<1>2. st \in ExecutionState
  <2>1. LoadOrNew(t) \in ExecutionState /\ cfg \in Nat
    BY <1>1, StoredType DEF TypeInv, EnvType
  <2> QED BY <2>1, RecordTypes
<1>3. EnvType' /\ AnalystType' /\ RequestType' /\ CountType'
  BY Unmoved DEF TypeInv, EnvType, handleRunPipeline, envVars, history, analystVars
<1> HIDE DEF t, st
<1>4. StoreType' /\ ResultType' /\ VerifierType'
  <2>1. CASE /\ Save(t, st) /\ vtask' = t /\ vpc' = "load"
             /\ UNCHANGED <<vst, vidx, vdl, varg, results>>
    <3>1. StoreType'
      BY <2>1, <1>1, <1>2, SaveType DEF TypeInv
    <3>2. ResultType'
      BY <2>1 DEF TypeInv, ResultType
    <3>3. VerifierType'
      BY <2>1, <1>1 DEF TypeInv, VerifierType, Locals, VerifierSteps
    <3> QED BY <3>1, <3>2, <3>3
  <2>2. CASE failAuditExecution(t, st)
    BY <2>2, <1>1, <1>2, FailAuditType DEF TypeInv
  <2>3. CASE Return /\ UNCHANGED <<store, results>>
    BY <2>3, ReturnType DEF TypeInv, StoreType, ResultType
  <2> QED BY <2>1, <2>2, <2>3 DEF handleRunPipeline, t, st
<1> QED BY <1>1, <1>3, <1>4 DEF TypeInv

LEMMA DecisionType ==
    ASSUME TypeInv, NEW decision \in {"approved", "rejected"}, handleHumanDecision(decision)
    PROVE  TypeInv'
<1> DEFINE t == Head(inbox).task
<1>1. BusType' /\ t \in Tasks
  BY ReceiveType DEF TypeInv, handleHumanDecision, analystVars
<1>2. store[t] # NoState => store[t] \in ExecutionState
  BY <1>1, StoredType DEF TypeInv
<1>3. EnvType' /\ AnalystType' /\ RequestType' /\ CountType'
  BY Unmoved DEF TypeInv, EnvType, handleHumanDecision, envVars, history, analystVars
<1> HIDE DEF t
<1>4. StoreType' /\ ResultType' /\ VerifierType'
  <2>1. CASE storeError(t)
    BY <2>1, <1>1, StoreErrorType DEF TypeInv
  <2>2. CASE /\ store[t] # NoState
             /\ vtask' = t /\ vst' = store[t] /\ varg' = decision /\ vpc' = "decision"
             /\ UNCHANGED <<vidx, vdl, store, results>>
    <3>1. StoreType' /\ ResultType'
      BY <2>2 DEF TypeInv, StoreType, ResultType
    <3>2. VerifierType'
      BY <2>2, <1>1, <1>2 DEF TypeInv, VerifierType, Locals, VerifierSteps
    <3> QED BY <3>1, <3>2
  <2> QED BY <2>1, <2>2 DEF handleHumanDecision, t
<1> QED BY <1>1, <1>3, <1>4 DEF TypeInv

LEMMA SaveDecisionType ==
    ASSUME TypeInv, SaveDecision
    PROVE  TypeInv'
<1>1. vst \in ExecutionState /\ vtask \in Tasks
  BY DEF SaveDecision, TypeInv, VerifierType, Locals
<1>2. Rejected(vst) \in ExecutionState \cup {NoState}
  BY <1>1, RecordTypes
<1>3. BusType' /\ EnvType' /\ AnalystType' /\ RequestType' /\ CountType'
  BY Unmoved DEF SaveDecision, envVars, history, analystVars
<1>4. StoreType' /\ ResultType' /\ VerifierType'
  <2>1. CASE resumeFromState(vtask, vst)
    BY <2>1, <1>1, ResumeType DEF TypeInv
  <2>2. CASE Save(vtask, Rejected(vst)) /\ StoreResult(vtask, "rejected") /\ Return
    BY <2>2, <1>1, <1>2, SaveType, StoreResultType, ReturnType DEF TypeInv, Outcomes
  <2> QED BY <2>1, <2>2 DEF SaveDecision
<1> QED BY <1>3, <1>4 DEF TypeInv

LEMMA MatchCallbackType ==
    ASSUME TypeInv, NEW t \in Tasks, store[t] # NoState, MatchCallback(t)
    PROVE  VerifierType'
<1>1. store[t] \in ExecutionState
  BY StoredType DEF TypeInv
<1> QED BY <1>1 DEF TypeInv, VerifierType, Locals, VerifierSteps, MatchCallback

LEMMA CallbackType ==
    ASSUME TypeInv, handleCallback
    PROVE  TypeInv'
<1> DEFINE t == Head(inbox).task
<1>1. BusType' /\ t \in Tasks
  BY ReceiveType DEF TypeInv, handleCallback, analystVars
<1>2. StoreType' /\ ResultType' /\ EnvType' /\ AnalystType' /\ RequestType' /\ CountType'
  BY Unmoved DEF TypeInv, EnvType, handleCallback, envVars, history, analystVars
<1> HIDE DEF t
<1>3. VerifierType'
  <2>1. CASE Resumable(store[t]) /\ MatchCallback(t)
    BY <2>1, <1>1, MatchCallbackType DEF Resumable
  <2>2. CASE UNCHANGED verifierVars
    BY <2>2, Unmoved DEF handleCallback, envVars
  <2> QED BY <2>1, <2>2 DEF handleCallback, t
<1> QED BY <1>1, <1>2, <1>3 DEF TypeInv

LEMMA TickerType ==
    ASSUME TypeInv, NEW t \in Tasks, Ticker(t)
    PROVE  TypeInv'
<1>1. CASE recoverPendingCallbacks(t)
  <2>1. VerifierType'
    BY <1>1, MatchCallbackType DEF recoverPendingCallbacks
  <2> QED BY <1>1, <2>1, Unmoved DEF TypeInv, recoverPendingCallbacks, envVars, history, analystVars
<1>2. CASE expireAwaitingCallbacks(t)
  <2>1. store[t] \in ExecutionState
    BY <1>2, StoredType DEF TypeInv, expireAwaitingCallbacks, Overdue
  <2>2. VerifierType'
    BY <1>2, <2>1 DEF TypeInv, VerifierType, Locals, VerifierSteps, expireAwaitingCallbacks
  <2> QED BY <1>2, <2>2, Unmoved DEF TypeInv, expireAwaitingCallbacks, envVars, history, analystVars
<1> QED BY <1>1, <1>2 DEF Ticker

LEMMA SaveCallbackType ==
    ASSUME TypeInv, SaveCallback
    PROVE  TypeInv'
<1>1. vst \in ExecutionState /\ vtask \in Tasks
  BY DEF SaveCallback, TypeInv, VerifierType, Locals
<1> DEFINE failed == [Resumed(vst) EXCEPT !.status = "error", !.error = TRUE]
<1>2. Resumed(vst) \in ExecutionState /\ failed \in ExecutionState \cup {NoState}
  BY <1>1, RecordTypes
<1>3. BusType' /\ EnvType' /\ AnalystType' /\ RequestType'
  BY Unmoved DEF SaveCallback, envVars, analystVars
<1>4. CountType'
  <2>1. N' = N /\ UNCHANGED <<ran, approvals>> /\ consumed' = [consumed EXCEPT ![vtask] = @ + 1]
    BY DEF SaveCallback, envVars, N
  <2>2. consumed' \in [Tasks -> Nat]
    BY <2>1, <1>1 DEF TypeInv, CountType
  <2> QED BY <2>1, <2>2 DEF TypeInv, CountType
<1> HIDE DEF failed
<1>5. StoreType' /\ ResultType' /\ VerifierType'
  <2>1. CASE resumeFromState(vtask, Resumed(vst))
    BY <2>1, <1>1, <1>2, ResumeType DEF TypeInv
  <2>2. CASE Save(vtask, failed) /\ StoreResult(vtask, "error") /\ Return
    BY <2>2, <1>1, <1>2, SaveType, StoreResultType, ReturnType DEF TypeInv, Outcomes
  <2> QED BY <2>1, <2>2 DEF SaveCallback, failed
<1> QED BY <1>3, <1>4, <1>5 DEF TypeInv

LEMMA SaveExpiredType ==
    ASSUME TypeInv, SaveExpired
    PROVE  TypeInv'
<1>1. vst \in ExecutionState /\ vtask \in Tasks
  BY DEF SaveExpired, TypeInv, VerifierType, Locals
<1>2. Expired(vst) \in ExecutionState \cup {NoState}
  BY <1>1, RecordTypes
<1>3. StoreType' /\ ResultType' /\ VerifierType'
  BY <1>1, <1>2, SaveType, StoreResultType, ReturnType DEF SaveExpired, TypeInv, Outcomes
<1> QED BY <1>3, Unmoved DEF SaveExpired, TypeInv, envVars, history, analystVars

-----------------------------------------------------------------------------
(***************************************************************************)
(* executeLinear.                                                          *)
(***************************************************************************)
LEMMA LoadStateType ==
    ASSUME TypeInv, LoadState
    PROVE  TypeInv'
<1> DEFINE st == store[vtask]
<1>1. vtask \in Tasks
  BY DEF TypeInv, VerifierType
<1>2. st \in ExecutionState
  BY <1>1, StoredType DEF LoadState, TypeInv
<1>3. st.done \in Nat
  BY <1>2 DEF ExecutionState
<1>4. vidx' \in Nat \ {0}
  <2>1. vidx' = st.done + 1
    BY DEF LoadState
  <2> QED BY <2>1, <1>3, SuccessorType
<1>5. vdl' \in Nat
  <2>1. CASE vdl' = 0
    BY <2>1
  <2>2. ASSUME NEW j \in TimedWaits, vdl' = now + steps[j].timeout
        PROVE  vdl' \in Nat
    <3>1. now \in Nat /\ steps \in Pipelines
      BY DEF TypeInv, EnvType
    <3>2. steps[j].timeout \in Nat
      BY <3>1, PipelineType DEF TimedWaits
    <3> QED BY <2>2, <3>1, <3>2
  <2> QED BY <2>1, <2>2 DEF LoadState, CallbackDeadline
<1> HIDE DEF st
<1>6. VerifierType'
  <2>1. vst' = st /\ vpc' = "loop" /\ UNCHANGED <<vtask, varg>>
    BY DEF LoadState, st
  <2> QED BY <2>1, <1>2, <1>4, <1>5 DEF TypeInv, VerifierType, Locals, VerifierSteps
<1> QED BY <1>6, Unmoved DEF LoadState, TypeInv, envVars, history, analystVars

(***************************************************************************)
(* What every step of the loop leaves alone, and the values it works with. *)
(***************************************************************************)
LEMMA LoopFrame ==
    ASSUME TypeInv, UNCHANGED runUnchanged
    PROVE  /\ RequestType' /\ CountType'
           /\ UNCHANGED notices => EnvType'
           /\ UNCHANGED abox => BusType'
           /\ UNCHANGED analyst => AnalystType'
           /\ UNCHANGED store => StoreType'
           /\ UNCHANGED results => ResultType'
           /\ N' = N
BY Unmoved DEF runUnchanged, envVars, history, N

LEMMA LoopType ==
    ASSUME TypeInv, vpc = "loop"
    PROVE  /\ vst \in ExecutionState
           /\ vtask \in Tasks
           /\ vidx \in Nat \ {0}
           /\ StoreType /\ ResultType /\ VerifierType
BY DEF TypeInv, VerifierType, Locals

LEMMA AuditedStep ==
    ASSUME TypeInv, vst \in ExecutionState, UNCHANGED runUnchanged,
           UNCHANGED <<analystVars, notices>>,
           \/ Advance /\ UNCHANGED <<store, results>>
           \/ failAuditExecution(vtask, vst)
    PROVE  TypeInv'
<1>1. StoreType' /\ ResultType' /\ VerifierType'
  <2>1. CASE Advance /\ UNCHANGED <<store, results>>
    BY <2>1, AdvanceType, LoopFrame DEF TypeInv
  <2>2. CASE failAuditExecution(vtask, vst)
    BY <2>2, FailAuditType DEF TypeInv, VerifierType
  <2> QED BY <2>1, <2>2
<1> QED BY <1>1, LoopFrame DEF TypeInv, analystVars

LEMMA PassingTypes ==
    ASSUME TypeInv, SkipStep \/ PassGate \/ InternalTool \/ ToolSucceeds
    PROVE  TypeInv'
<1>1. vst \in ExecutionState
  BY DEF TypeInv, VerifierType, Locals, SkipStep, PassGate, InternalTool, ToolSucceeds, AtStep
<1> QED BY <1>1, AuditedStep DEF SkipStep, PassGate, InternalTool, ToolSucceeds

LEMMA SendToAnalystType ==
    ASSUME TypeInv, SendToAnalyst
    PROVE  TypeInv'
<1>1. vtask \in Tasks /\ abox \in Seq(Tasks) /\ inbox \in Seq(Messages)
  BY DEF TypeInv, VerifierType, BusType
<1>2. abox' \in Seq(Tasks)
  BY <1>1, DeliveredType DEF SendToAnalyst
<1>3. BusType'
  BY <1>1, <1>2 DEF SendToAnalyst, BusType, runUnchanged
<1>4. VerifierType'
  BY ReturnType DEF SendToAnalyst, TypeInv
<1> QED BY <1>3, <1>4, LoopFrame DEF SendToAnalyst, TypeInv

LEMMA PauseAtGateType ==
    ASSUME TypeInv, PauseAtGate
    PROVE  TypeInv'
<1> DEFINE st == Paused(steps[vidx].gate)
<1>1. vpc = "loop" /\ vtask \in Tasks /\ steps \in Pipelines
  BY DEF TypeInv, VerifierType, EnvType, PauseAtGate, AtStep
<1>2. steps[vidx].gate \in Gates
  <2>1. vidx \in 1..N /\ steps[vidx].kind = "gate"
    BY <1>1, PipelineType DEF PauseAtGate, AtStep
  <2> QED BY <1>1, <2>1, PipelineType
<1>3. st \in ExecutionState
  BY <1>1, <1>2, PauseTypes
<1>4. EnvType'
  <2>1. notices' \subseteq Tasks
    BY <1>1 DEF PauseAtGate, TypeInv, EnvType
  <2> QED BY <2>1 DEF PauseAtGate, TypeInv, EnvType, runUnchanged, envVars, history
<1> HIDE DEF st
<1>5. StoreType' /\ ResultType' /\ VerifierType'
  <2>1. CASE Save(vtask, st) /\ Return /\ UNCHANGED results
    BY <2>1, <1>1, <1>3, SaveType, ReturnType DEF TypeInv, ResultType
  <2>2. CASE failAuditExecution(vtask, st)
    BY <2>2, <1>1, <1>3, FailAuditType DEF TypeInv
  <2> QED BY <2>1, <2>2 DEF PauseAtGate, st
<1> QED BY <1>4, <1>5, LoopFrame DEF PauseAtGate, TypeInv, analystVars

LEMMA AwaitCallbackType ==
    ASSUME TypeInv, AwaitCallback
    PROVE  TypeInv'
<1>1. vpc = "loop" /\ vtask \in Tasks
  BY DEF TypeInv, VerifierType, AwaitCallback, AtStep
<1>2. Awaiting \in ExecutionState
  BY <1>1, PauseTypes
<1>3. StoreType' /\ ResultType' /\ VerifierType'
  <2>1. CASE Save(vtask, Awaiting) /\ Return /\ UNCHANGED results
    BY <2>1, <1>1, <1>2, SaveType, ReturnType DEF TypeInv, ResultType
  <2>2. CASE failAuditExecution(vtask, Awaiting)
    BY <2>2, <1>1, <1>2, FailAuditType DEF TypeInv
  <2> QED BY <2>1, <2>2 DEF AwaitCallback
<1> QED BY <1>3, LoopFrame DEF AwaitCallback, TypeInv, analystVars

LEMMA InvokingType ==
    ASSUME VerifierType, NEW st \in ExecutionState, vidx \in 1..N, N \in Nat, N' = N,
           NEW pc \in {"invoke", "calling"}, Goto(pc, st)
    PROVE  VerifierType'
<1>1. vpc' = pc /\ vst' = st /\ UNCHANGED <<vtask, vidx, vdl, varg>>
  BY DEF Goto
<1>2. vidx' \in 1..N' /\ vidx' \in Nat \ {0}
  <2>1. vidx \in Nat \ {0}
    OBVIOUS
  <2>2. N' = N /\ vidx' = vidx
    BY <1>1
  <2> QED BY <2>1, <2>2
<1>3. Locals'
  BY <1>1, <1>2, Zenon DEF Locals
<1> QED BY <1>1, <1>3 DEF VerifierType, VerifierSteps

LEMMA StartToolType ==
    ASSUME TypeInv, StartTool
    PROVE  TypeInv'
<1>1. vpc = "loop" /\ vtask \in Tasks /\ vst \in ExecutionState /\ Prepared \in ExecutionState
  BY PauseTypes DEF TypeInv, VerifierType, Locals, StartTool, AtStep
<1>2. vidx \in 1..N /\ N \in Nat /\ N' = N
  BY PipelineType, LoopFrame DEF TypeInv, EnvType, StartTool, AtStep
<1>3. StoreType' /\ ResultType' /\ VerifierType'
  <2>1. CASE Save(vtask, Prepared) /\ Goto("invoke", Prepared) /\ UNCHANGED results
    BY <2>1, <1>1, <1>2, SaveType, InvokingType DEF TypeInv, ResultType
  <2>2. CASE Goto("invoke", vst) /\ UNCHANGED store /\ UNCHANGED results
    BY <2>2, <1>1, <1>2, InvokingType DEF TypeInv, StoreType, ResultType
  <2>3. CASE failAuditExecution(vtask, vst)
    BY <2>3, <1>1, FailAuditType DEF TypeInv
  <2> QED BY <2>1, <2>2, <2>3 DEF StartTool
<1> QED BY <1>3, LoopFrame DEF StartTool, TypeInv, analystVars

LEMMA InvokeType ==
    ASSUME TypeInv, Invoke
    PROVE  TypeInv'
<1>1. vpc = "invoke" /\ vtask \in Tasks /\ vst \in ExecutionState /\ vidx \in 1..N
  BY DEF TypeInv, VerifierType, Locals, Invoke
<1>2. N \in Nat /\ N' = N
  BY PipelineType DEF TypeInv, EnvType, Invoke, envVars, N
<1>3. VerifierType'
  BY <1>1, <1>2, InvokingType DEF TypeInv, Invoke
<1>4. CountType'
  <2> DEFINE row == [ran[vtask] EXCEPT ![vidx] = ran[vtask][vidx] + 1]
  <2>1. ran \in [Tasks -> [1..N -> Nat]]
    BY DEF TypeInv, CountType
  <2>a. ran[vtask] \in [1..N -> Nat]
    BY <1>1, <2>1
  <2>b. ran[vtask][vidx] \in Nat
    BY <1>1, <2>a
  <2>2. ran[vtask][vidx] + 1 \in Nat
    BY <2>b, SuccessorType
  <2>3. ran' = [ran EXCEPT ![vtask] = row]
    BY <1>1, <2>1, <2>a DEF Invoke
  <2>4. row \in [1..N -> Nat]
    BY <1>1, <2>a, <2>2
  <2> HIDE DEF row
  <2>5. ran' \in [Tasks -> [1..N -> Nat]]
    BY <1>1, <2>1, <2>3, <2>4
  <2> QED BY <1>2, <2>5 DEF TypeInv, CountType, Invoke
<1>5. EnvType'
  <2>1. blind' \in Nat /\ known' \subseteq Tasks
    BY <1>1 DEF TypeInv, EnvType, Invoke
  <2> QED BY <2>1 DEF TypeInv, EnvType, Invoke, envVars
<1> QED BY <1>3, <1>4, <1>5, Unmoved DEF TypeInv, Invoke, envVars, analystVars

LEMMA AgentFailsType ==
    ASSUME TypeInv, AgentFails
    PROVE  TypeInv'
<1>1. vst \in ExecutionState /\ vtask \in Tasks
  BY DEF TypeInv, VerifierType, Locals, AgentFails
<1>2. StoreType' /\ ResultType' /\ VerifierType'
  <2>1. CASE StoreResult(vtask, "error") /\ Return /\ UNCHANGED store
    BY <2>1, <1>1, StoreResultType, ReturnType DEF TypeInv, StoreType, Outcomes
  <2>2. CASE failAuditExecution(vtask, vst)
    BY <2>2, <1>1, FailAuditType DEF TypeInv
  <2> QED BY <2>1, <2>2 DEF AgentFails
<1> QED BY <1>2, LoopFrame DEF AgentFails, TypeInv, analystVars

LEMMA ToolFailsType ==
    ASSUME TypeInv, ToolFails
    PROVE  TypeInv'
<1>1. vst \in ExecutionState /\ vtask \in Tasks
  BY DEF TypeInv, VerifierType, Locals, ToolFails
<1>2. Failed(vst) \in ExecutionState
  BY <1>1, RecordTypes
<1>3. /\ vst' \in ExecutionState
      /\ StoreType'
  BY <1>1, <1>2, SaveType DEF ToolFails, TypeInv, StoreType
<1>4. VerifierType'
  BY <1>3 DEF ToolFails, TypeInv, VerifierType, Locals, VerifierSteps
<1> QED BY <1>3, <1>4, LoopFrame DEF ToolFails, TypeInv, analystVars

LEMMA LoadFailedType ==
    ASSUME TypeInv, LoadFailed
    PROVE  TypeInv'
<1>1. vst \in ExecutionState /\ vtask \in Tasks /\ varg \in {"error", "rejected"}
  BY DEF TypeInv, VerifierType, Locals, LoadFailed
<1> DEFINE st == IF store[vtask] # NoState THEN store[vtask] ELSE vst
<1>2. st \in ExecutionState
  BY <1>1, StoredType DEF TypeInv
<1> HIDE DEF st
<1>3. vpc' = "failsave" /\ vst' = st /\ UNCHANGED <<vtask, vidx, vdl, varg>>
  BY DEF LoadFailed, Goto, st
<1>4. VerifierType'
  BY <1>1, <1>2, <1>3 DEF TypeInv, VerifierType, Locals, VerifierSteps
<1> QED BY <1>4, LoopFrame DEF LoadFailed, TypeInv, analystVars

LEMMA SaveFailedType ==
    ASSUME TypeInv, SaveFailed
    PROVE  TypeInv'
<1>1. vst \in ExecutionState /\ vtask \in Tasks /\ varg \in {"error", "rejected"}
  BY DEF TypeInv, VerifierType, Locals, SaveFailed
<1>2. Ended(vst, varg) \in ExecutionState \cup {NoState}
  BY <1>1, RecordTypes
<1>3. StoreType' /\ ResultType' /\ VerifierType'
  BY <1>1, <1>2, SaveType, StoreResultType, ReturnType DEF SaveFailed, TypeInv, Outcomes
<1> QED BY <1>3, LoopFrame DEF SaveFailed, TypeInv, analystVars

-----------------------------------------------------------------------------
(***************************************************************************)
(* The analyst, the HTTP handlers and the environment.                     *)
(***************************************************************************)
LEMMA AnalystStepType ==
    ASSUME TypeInv, Analyst
    PROVE  TypeInv'
<1>1. CASE LoadCompletion
  <2> DEFINE t == Head(abox)
  <2>1. abox \in Seq(Tasks) /\ abox # <<>> /\ inbox \in Seq(Messages)
    BY <1>1 DEF TypeInv, BusType, LoadCompletion
  <2>2. t \in Tasks /\ Tail(abox) \in Seq(Tasks)
    BY <2>1, HeadTailType
  <2>3. LoadOrNew(t) \in ExecutionState
    BY <2>2, StoredType DEF TypeInv
  <2>4. BusType'
    BY <1>1, <2>1, <2>2 DEF BusType, LoadCompletion, runUnchanged
  <2> HIDE DEF t
  <2>5. AnalystType'
    BY <1>1, <2>2, <2>3 DEF AnalystType, LoadCompletion, t
  <2>6. VerifierType'
    BY <1>1, Unmoved DEF LoadCompletion, runUnchanged, envVars
  <2> QED BY <1>1, <2>4, <2>5, <2>6, LoopFrame DEF TypeInv, LoadCompletion
<1>2. CASE SaveCompletion
  <2>1. analyst.task \in Tasks /\ analyst.st \in ExecutionState
    BY DEF TypeInv, AnalystType
  <2>2. Completed(analyst.st) \in ExecutionState \cup {NoState}
    BY <2>1, CompletedType DEF TypeInv, EnvType
  <2>3. StoreType' /\ ResultType'
    BY <1>2, <2>1, <2>2, SaveType, StoreResultType DEF SaveCompletion, TypeInv, Outcomes
  <2>4. AnalystType'
    BY <1>2, BlankType DEF SaveCompletion, TypeInv, AnalystType
  <2>5. VerifierType'
    BY <1>2, Unmoved DEF SaveCompletion, runUnchanged, envVars
  <2> QED BY <1>2, <2>3, <2>4, <2>5, LoopFrame DEF TypeInv, SaveCompletion
<1> QED BY <1>1, <1>2 DEF Analyst

LEMMA RequestStep ==
    ASSUME TypeInv, NEW r \in Requests
    PROVE  /\ \A op \in Operations, t \in Tasks : Read(r, op, t) => RequestType'
           /\ Done(r) => RequestType'
<1> DEFINE Request == [pc : {"new", "read", "done"}, op : Operations, task : Tasks,
                       st : ExecutionState, at : Nat]
<1>1. req \in [Requests -> Request] /\ now \in Nat
  BY DEF TypeInv, RequestType, EnvType
<1>2. ASSUME NEW op \in Operations, NEW t \in Tasks, Read(r, op, t)
      PROVE  RequestType'
  <2> DEFINE new == [pc |-> "read", op |-> op, task |-> t, st |-> store[t], at |-> now]
  <2>1. store[t] \in ExecutionState
    BY <1>2, StoredType DEF TypeInv, Read
  <2>2. new \in Request
    BY <1>1, <2>1
  <2>3. req' = [req EXCEPT ![r] = new]
    BY <1>2 DEF Read
  <2> HIDE DEF new
  <2> QED BY <1>1, <2>2, <2>3 DEF RequestType
<1>3. ASSUME Done(r)
      PROVE  RequestType'
  <2> DEFINE new == [req[r] EXCEPT !.pc = "done", !.st = Blank, !.at = 0]
  <2>1. new \in Request
    BY <1>1, BlankType
  <2>2. req' = [req EXCEPT ![r] = new]
    BY <1>1, <1>3 DEF Done
  <2> HIDE DEF new
  <2> QED BY <1>1, <2>1, <2>2 DEF RequestType
<1> QED BY <1>2, <1>3

LEMMA ApiFrame ==
    ASSUME TypeInv, UNCHANGED apiUnchanged
    PROVE  /\ VerifierType' /\ AnalystType' /\ ResultType' /\ N' = N
           /\ UNCHANGED inbox => BusType'
           /\ UNCHANGED store => StoreType'
           /\ UNCHANGED history => EnvType' /\ CountType'
           /\ UNCHANGED <<known, blind>> => EnvType'
BY Unmoved DEF apiUnchanged, envVars, analystVars, history, N

LEMMA ApiType ==
    ASSUME TypeInv, NEW r \in Requests, Api(r)
    PROVE  TypeInv'
<1>1. ASSUME NEW t \in Tasks, ReadCallback(r, t)
      PROVE  TypeInv'
  <2>1. RequestType'
    BY <1>1, RequestStep DEF ReadCallback, Operations
  <2> QED BY <1>1, <2>1, ApiFrame DEF ReadCallback, TypeInv
<1>2. ASSUME NEW t \in Tasks, NEW decision \in {"approved", "rejected"},
             ReadDecision(r, t, decision)
      PROVE  TypeInv'
  <2>1. RequestType'
    BY <1>2, RequestStep DEF ReadDecision, Operations
  <2>2. CountType'
    <3> DEFINE G == Gates \cup {"await_callback"}
               row == [approvals[t] EXCEPT ![store[t].gate] = approvals[t][store[t].gate] + 1]
    <3>1. approvals \in [Tasks -> [G -> Nat]] /\ approvals[t] \in [G -> Nat]
      BY DEF TypeInv, CountType
    <3>2. store[t] \in ExecutionState /\ store[t].gate # ""
      BY <1>2, StoredType DEF TypeInv, ReadDecision, Read
    <3>3. store[t].gate \in G
      BY <3>2 DEF ExecutionState
    <3>4. approvals[t][store[t].gate] + 1 \in Nat
      BY <3>1, <3>3, SuccessorType
    <3>5. row \in [G -> Nat]
      BY <3>1, <3>3, <3>4
    <3>6. approvals' = [approvals EXCEPT ![t] = row] \/ approvals' = approvals
      BY <1>2, <3>1, <3>3 DEF ReadDecision
    <3> HIDE DEF row
    <3>7. approvals' \in [Tasks -> [G -> Nat]]
      BY <3>1, <3>5, <3>6
    <3>8. N' = N /\ UNCHANGED <<ran, consumed>>
      BY <1>2, ApiFrame DEF ReadDecision
    <3> QED BY <3>7, <3>8 DEF TypeInv, CountType
  <2> QED BY <1>2, <2>1, <2>2, ApiFrame DEF ReadDecision, TypeInv
<1>3. CASE AcceptCallback(r)
  <2>1. req[r].task \in Tasks /\ req[r].st \in ExecutionState /\ req[r].at \in Nat /\ now \in Nat
    BY DEF TypeInv, RequestType, EnvType
  <2>2. StoreType'
    <3>1. ASSUME NEW receivedAt \in req[r].at..now,
                 Save(req[r].task, Accepted(req[r].st, receivedAt))
          PROVE  StoreType'
      <4>1. receivedAt \in Nat
        BY <2>1
      <4>2. Accepted(req[r].st, receivedAt) \in ExecutionState \cup {NoState}
        BY <2>1, <4>1, RecordTypes
      <4> QED BY <2>1, <3>1, <4>2, SaveType DEF TypeInv
    <3>2. CASE UNCHANGED store
      BY <3>2, <1>3, ApiFrame DEF AcceptCallback
    <3> QED BY <1>3, <3>1, <3>2 DEF AcceptCallback
  <2>3. BusType'
    BY <1>3, <2>1, SendTypes DEF AcceptCallback, TypeInv, Operations, apiUnchanged, analystVars
  <2>4. RequestType'
    BY <1>3, RequestStep DEF AcceptCallback
  <2> QED BY <1>3, <2>2, <2>3, <2>4, ApiFrame DEF AcceptCallback, TypeInv
<1>4. CASE SendDecision(r)
  <2>1. req[r].task \in Tasks /\ req[r].op \in Operations
    BY DEF TypeInv, RequestType
  <2>2. BusType'
    BY <1>4, <2>1, SendTypes DEF SendDecision, TypeInv, apiUnchanged, analystVars
  <2>3. RequestType'
    BY <1>4, RequestStep DEF SendDecision
  <2> QED BY <1>4, <2>2, <2>3, ApiFrame DEF SendDecision, TypeInv
<1> QED BY <1>1, <1>2, <1>3, <1>4 DEF Api

LEMMA PollType ==
    ASSUME TypeInv, NEW t \in Tasks, Poll(t)
    PROVE  TypeInv'
<1>1. CASE AwaitHuman(t)
  <2>1. ResultType' /\ EnvType'
    BY <1>1, StoreResultType DEF AwaitHuman, TypeInv, EnvType, Outcomes, envVars, history
  <2> QED BY <1>1, <2>1, Unmoved DEF AwaitHuman, TypeInv, envVars, history, analystVars
<1>2. CASE GetResult(t)
  <2>1. EnvType'
    BY <1>2 DEF GetResult, TypeInv, EnvType, envVars, history
  <2> QED BY <1>2, <2>1, Unmoved DEF GetResult, TypeInv, envVars, history, analystVars
<1>3. CASE DeleteResult(t)
  <2>1. ResultType' /\ EnvType'
    BY <1>3, StoreResultType DEF DeleteResult, TypeInv, EnvType, Outcomes, envVars, history
  <2> QED BY <1>3, <2>1, Unmoved DEF DeleteResult, TypeInv, envVars, history, analystVars
<1> QED BY <1>1, <1>2, <1>3 DEF Poll

LEMMA EnvironmentType ==
    ASSUME TypeInv, BreakJournal \/ Tick \/ Crash
    PROVE  TypeInv'
<1>1. CASE BreakJournal
  <2>1. EnvType'
    BY <1>1 DEF BreakJournal, TypeInv, EnvType, history
  <2> QED BY <1>1, <2>1, Unmoved DEF BreakJournal, TypeInv, history, analystVars
<1>2. CASE Tick
  <2>1. now' \in Nat
    BY <1>2, SuccessorType DEF Tick, TypeInv, EnvType
  <2>2. EnvType'
    BY <1>2, <2>1 DEF Tick, TypeInv, EnvType, history
  <2> QED BY <1>2, <2>2, Unmoved DEF Tick, TypeInv, history, analystVars
<1>3. CASE Crash
  <2>1. crashes' \in Nat
    BY <1>3, SuccessorType DEF Crash, TypeInv, EnvType
  <2>2. cfg' \in Nat
    <3>1. cfg \in Nat /\ MaxVersion \in Nat
      BY BoundsAssumption DEF TypeInv, EnvType
    <3>2. cfg' = cfg \/ cfg' \in 0..MaxVersion
      BY <1>3 DEF Crash
    <3> QED BY <3>1, <3>2
  <2>3. EnvType'
    BY <1>3, <2>1, <2>2 DEF Crash, TypeInv, EnvType, history
  <2>4. BusType'
    BY <1>3, EmptySeq DEF Crash, BusType
  <2>5. AnalystType'
    BY <1>3, BlankType DEF Crash, TypeInv, AnalystType
  <2>6. RequestType'
    <3> DEFINE Request == [pc : {"new", "read", "done"}, op : Operations, task : Tasks,
                           st : ExecutionState, at : Nat]
    <3>1. \A r \in Requests : /\ req[r] \in Request
                              /\ [req[r] EXCEPT !.pc = "done", !.st = Blank, !.at = 0] \in Request
      BY BlankType DEF TypeInv, RequestType
    <3> QED BY <1>3, <3>1 DEF Crash, RequestType
  <2>7. ResultType'
    BY <1>3 DEF Crash, ResultType, Outcomes
  <2>8. VerifierType'
    BY <1>3, ReturnType DEF Crash, TypeInv
  <2> QED BY <1>3, <2>3, <2>4, <2>5, <2>6, <2>7, <2>8, Unmoved DEF Crash, TypeInv, history
<1> QED BY <1>1, <1>2, <1>3

LEMMA NextType == TypeInv /\ [Next]_vars => TypeInv'
<1> SUFFICES ASSUME TypeInv, [Next]_vars PROVE TypeInv'
  OBVIOUS
<1>1. CASE Next
  <2>1. CASE executeLinear
    BY <2>1, LoadStateType, PassingTypes, SendToAnalystType, PauseAtGateType, AwaitCallbackType,
       StartToolType, InvokeType, AgentFailsType, ToolFailsType, LoadFailedType, SaveFailedType
       DEF executeLinear
  <2>2. CASE Verifier
    BY <2>1, <2>2, RunPipelineType, DecisionType, SaveDecisionType, CallbackType, SaveCallbackType,
       SaveExpiredType
       DEF Verifier
  <2> QED BY <1>1, <2>2, DispatchPipelineType, TickerType, PollType, AnalystStepType, ApiType,
             EnvironmentType
          DEF Next
<1>2. CASE UNCHANGED vars
  BY <1>2, Unmoved DEF vars, TypeInv, envVars, history, analystVars
<1> QED BY <1>1, <1>2

(***************************************************************************)
(* Every record a handler saves is one ExecutionState can hold: no index   *)
(* leaves the pipeline, no gate is one the pipeline does not have, and no  *)
(* handler works on a record it has not loaded (verifier.go,               *)
(* verifier_linear.go, analyst.go, api_agent.go).                          *)
(***************************************************************************)
THEOREM TypeCorrect == Spec => []TypeOK
<1>1. Spec => []TypeInv
  BY InitType, NextType, PTL DEF Spec
<1> QED BY <1>1, TypeInvImpliesTypeOK, PTL
-----------------------------------------------------------------------------
(***************************************************************************)
(* SettledIsFinal.  Nothing that is under way works for a quiet task, and  *)
(* nothing new is admitted for one whose gate is closed.                   *)
(***************************************************************************)
MessagesTo(T) == [type : {"run_pipeline"} \cup Operations, task : T]

(***************************************************************************)
(* No goroutine and no request works for t; but for a message, nothing     *)
(* will.                                                                   *)
(***************************************************************************)
Idle(t) ==
    /\ vpc # "idle" => vtask # t
    /\ abox \in Seq(Tasks \ {t})
    /\ analyst.pc # "idle" => analyst.task # t
    /\ \A r \in Requests : req[r].pc = "read" => req[r].task # t

Elsewhere(t) == Idle(t) /\ inbox \in Seq(MessagesTo(Tasks \ {t}))

(***************************************************************************)
(* The step takes no message for t.                                        *)
(***************************************************************************)
Untaken(t) == inbox # <<>> /\ inbox' = Tail(inbox) => Head(inbox).task # t

Kept(t) == store'[t] = store[t] /\ submitted \subseteq submitted'

LEMMA NarrowSeq ==
    ASSUME NEW S, NEW T, NEW box \in Seq(S), \A k \in DOMAIN box : box[k] \in T
    PROVE  box \in Seq(T)
<1>1. box \in [1..Len(box) -> S] /\ Len(box) \in Nat /\ DOMAIN box = 1..Len(box)
  BY LenProperties
<1>2. box \in [1..Len(box) -> T]
  BY <1>1
<1> QED BY <1>1, <1>2, SeqDef

LEMMA QuietElsewhere ==
    ASSUME TypeInv, NEW t \in Tasks
    PROVE  Quiet(t) => Elsewhere(t)
<1> SUFFICES ASSUME Quiet(t) PROVE Elsewhere(t)
  OBVIOUS
<1>1. inbox \in Seq(Messages) /\ abox \in Seq(Tasks)
  BY DEF TypeInv, BusType
<1>2. \A k \in DOMAIN inbox : inbox[k] \in MessagesTo(Tasks \ {t})
  <2> TAKE k \in DOMAIN inbox
  <2>1. inbox[k] \in Messages
    BY <1>1, LenProperties, ElementOfSeq
  <2>2. inbox[k].task # t
    BY DEF Quiet
  <2> QED BY <2>1, <2>2 DEF Messages, MessagesTo, Operations
<1>3. \A k \in DOMAIN abox : abox[k] \in Tasks \ {t}
  <2> TAKE k \in DOMAIN abox
  <2>1. abox[k] \in Tasks
    BY <1>1, LenProperties, ElementOfSeq
  <2> QED BY <2>1 DEF Quiet
<1>4. inbox \in Seq(MessagesTo(Tasks \ {t}))
  BY <1>1, <1>2, NarrowSeq
<1>5. abox \in Seq(Tasks \ {t})
  BY <1>1, <1>3, NarrowSeq
<1> QED BY <1>4, <1>5 DEF Quiet, Elsewhere, Idle

LEMMA ElsewhereQuiet ==
    ASSUME NEW t
    PROVE  Elsewhere(t) => Quiet(t)
<1> SUFFICES ASSUME Elsewhere(t) PROVE Quiet(t)
  OBVIOUS
<1>1. \A k \in DOMAIN inbox : inbox[k].task # t
  <2> TAKE k \in DOMAIN inbox
  <2>1. inbox \in Seq(MessagesTo(Tasks \ {t}))
    BY DEF Elsewhere
  <2>2. inbox[k] \in MessagesTo(Tasks \ {t})
    BY <2>1, LenProperties, ElementOfSeq
  <2> QED BY <2>2 DEF MessagesTo
<1>2. \A k \in DOMAIN abox : abox[k] # t
  <2> TAKE k \in DOMAIN abox
  <2>1. abox \in Seq(Tasks \ {t})
    BY DEF Elsewhere, Idle
  <2>2. abox[k] \in Tasks \ {t}
    BY <2>1, LenProperties, ElementOfSeq
  <2> QED BY <2>2
<1> QED BY <1>1, <1>2 DEF Elsewhere, Idle, Quiet

LEMMA ElsewhereQuietNext ==
    ASSUME NEW t
    PROVE  Elsewhere(t)' => Quiet(t)'
BY ElsewhereQuiet, PTL

(***************************************************************************)
(* A step of the verifier for the task it works for.                       *)
(***************************************************************************)
Working ==
    /\ vpc # "idle"
    /\ vtask' = vtask
    /\ UNCHANGED <<inbox, analyst, req, submitted>>
    /\ \A u \in Tasks : u # vtask => store'[u] = store[u]
    /\ abox' = abox \/ abox' = Delivered(abox, vtask)

LEMMA SaveFrame ==
    ASSUME StoreType, NEW t, NEW st, Save(t, st)
    PROVE  \A u \in Tasks : u # t => store'[u] = store[u]
BY DEF StoreType, Save

LEMMA EndFrame ==
    ASSUME StoreType, NEW t, NEW st,
           storeError(t) \/ failAuditExecution(t, st) \/ resumeFromState(t, st)
    PROVE  vtask' = vtask /\ \A u \in Tasks : u # t => store'[u] = store[u]
<1>1. CASE storeError(t)
  <2>1. Save(t, NoState) /\ vtask' = vtask
    BY <1>1 DEF storeError, Return
  <2> QED BY <2>1, SaveFrame
<1>2. CASE failAuditExecution(t, st)
  <2>1. Save(t, Failed(st)) /\ vtask' = vtask
    BY <1>2 DEF failAuditExecution, Return
  <2> QED BY <2>1, SaveFrame
<1>3. CASE Save(t, st) /\ Goto("load", NoState)
  <2>1. vtask' = vtask
    BY <1>3 DEF Goto
  <2> QED BY <1>3, <2>1, SaveFrame
<1> QED BY <1>1, <1>2, <1>3 DEF resumeFromState

LEMMA WorkingSteps ==
    ASSUME TypeInv, SaveDecision \/ SaveCallback \/ SaveExpired \/ executeLinear
    PROVE  Working
<1> USE DEF TypeInv, runUnchanged, analystVars
<1>1. CASE SaveDecision
  <2>1. CASE resumeFromState(vtask, vst)
    BY <1>1, <2>1, EndFrame DEF Working, SaveDecision
  <2>2. CASE Save(vtask, Rejected(vst)) /\ Return
    <3>1. \A u \in Tasks : u # vtask => store'[u] = store[u]
      BY <2>2, SaveFrame
    <3> QED BY <1>1, <2>2, <3>1 DEF Working, SaveDecision, Return
  <2> QED BY <1>1, <2>1, <2>2 DEF SaveDecision
<1>2. CASE SaveCallback
  <2> DEFINE failed == [Resumed(vst) EXCEPT !.status = "error", !.error = TRUE]
  <2>1. CASE resumeFromState(vtask, Resumed(vst))
    BY <1>2, <2>1, EndFrame DEF Working, SaveCallback
  <2>2. CASE Save(vtask, failed) /\ Return
    <3>1. \A u \in Tasks : u # vtask => store'[u] = store[u]
      BY <2>2, SaveFrame
    <3> QED BY <1>2, <2>2, <3>1 DEF Working, SaveCallback, Return
  <2> QED BY <1>2, <2>1, <2>2 DEF SaveCallback
<1>3. CASE SaveExpired
  <2>1. \A u \in Tasks : u # vtask => store'[u] = store[u]
    BY <1>3, SaveFrame DEF SaveExpired
  <2> QED BY <1>3, <2>1 DEF Working, SaveExpired, Return
<1>4. CASE LoadState
  BY <1>4 DEF Working, LoadState
<1>5. CASE SkipStep \/ PassGate \/ InternalTool \/ ToolSucceeds
  BY <1>5, EndFrame
     DEF Working, SkipStep, PassGate, InternalTool, ToolSucceeds, AtStep, Advance
<1>6. CASE SendToAnalyst
  BY <1>6 DEF Working, SendToAnalyst, AtStep, Return
<1>7. CASE PauseAtGate
  BY <1>7, EndFrame, SaveFrame DEF Working, PauseAtGate, AtStep, Return
<1>8. CASE AwaitCallback
  BY <1>8, EndFrame, SaveFrame DEF Working, AwaitCallback, AtStep, Return
<1>9. CASE StartTool
  BY <1>9, EndFrame, SaveFrame DEF Working, StartTool, AtStep, Goto
<1>10. CASE Invoke
  BY <1>10 DEF Working, Invoke, Goto
<1>11. CASE AgentFails
  BY <1>11, EndFrame DEF Working, AgentFails, Return
<1>12. CASE ToolFails
  <2>1. CASE Save(vtask, Failed(vst))
    BY <1>12, <2>1, SaveFrame DEF Working, ToolFails
  <2>2. CASE UNCHANGED store
    BY <1>12, <2>2 DEF Working, ToolFails
  <2> QED BY <1>12, <2>1, <2>2 DEF ToolFails
<1>13. CASE LoadFailed
  BY <1>13 DEF Working, LoadFailed, Goto
<1>14. CASE SaveFailed
  <2>1. \A u \in Tasks : u # vtask => store'[u] = store[u]
    BY <1>14, SaveFrame DEF SaveFailed
  <2> QED BY <1>14, <2>1 DEF Working, SaveFailed, Return
<1> QED
  BY <1>1, <1>2, <1>3, <1>4, <1>5, <1>6, <1>7, <1>8, <1>9, <1>10, <1>11, <1>12, <1>13, <1>14
     DEF executeLinear

LEMMA WorkingIdle ==
    ASSUME NEW t \in Tasks, TypeInv, Idle(t), Working
    PROVE  Idle(t)' /\ Kept(t)
<1>1. vtask \in Tasks \ {t}
  BY DEF Working, Idle, TypeInv, VerifierType
<1>2. abox' \in Seq(Tasks \ {t})
  BY <1>1, DeliveredType DEF Working, Idle
<1> QED BY <1>1, <1>2 DEF Working, Idle, Kept

(***************************************************************************)
(* The steps that begin a handler, and those of the other goroutines.      *)
(***************************************************************************)
Shut(t) == store[t] # NoState => store[t].gate = ""

LEMMA TakenType ==
    ASSUME TypeInv, NEW type, Receive(type), NEW t, Untaken(t)
    PROVE  Head(inbox).task \in Tasks \ {t}
<1>1. inbox \in Seq(Messages) /\ inbox # <<>>
  BY DEF Receive, TypeInv, BusType
<1>2. Head(inbox) \in Messages
  BY <1>1, HeadTailType
<1> QED BY <1>1, <1>2 DEF Messages, Receive, Untaken

LEMMA VerifierIdle ==
    ASSUME NEW t \in Tasks, TypeInv, Idle(t), Untaken(t), Verifier
    PROVE  Idle(t)' /\ Kept(t)
<1> DEFINE u == Head(inbox).task
<1>1. CASE handleRunPipeline
  <2>1. u \in Tasks \ {t}
    BY <1>1, TakenType DEF handleRunPipeline
  <2> DEFINE st == [LoadOrNew(u) EXCEPT !.version = cfg]
  <2> HIDE DEF u, st
  <2>2. store'[t] = store[t] /\ (vpc' # "idle" => vtask' # t)
    <3>1. CASE Save(u, st) /\ vtask' = u
      BY <2>1, <3>1, SaveFrame DEF TypeInv
    <3>2. CASE failAuditExecution(u, st)
      <4>1. vpc' = "idle"
        BY <3>2 DEF failAuditExecution, Return
      <4> QED BY <2>1, <3>2, <4>1, EndFrame DEF TypeInv
    <3>3. CASE Return /\ UNCHANGED store
      BY <3>3 DEF Return
    <3> QED BY <1>1, <3>1, <3>2, <3>3 DEF handleRunPipeline, u, st
  <2> QED BY <1>1, <2>1, <2>2 DEF handleRunPipeline, Idle, Kept, analystVars
<1>2. ASSUME NEW decision \in {"approved", "rejected"}, handleHumanDecision(decision)
      PROVE  Idle(t)' /\ Kept(t)
  <2>1. u \in Tasks \ {t}
    BY <1>2, TakenType DEF handleHumanDecision
  <2> HIDE DEF u
  <2>2. store'[t] = store[t] /\ (vpc' # "idle" => vtask' # t)
    <3>1. CASE storeError(u)
      <4>1. vpc' = "idle"
        BY <3>1 DEF storeError, Return
      <4> QED BY <2>1, <3>1, <4>1, EndFrame DEF TypeInv
    <3>2. CASE vtask' = u /\ UNCHANGED store
      BY <2>1, <3>2
    <3> QED BY <1>2, <3>1, <3>2 DEF handleHumanDecision, u
  <2> QED BY <1>2, <2>1, <2>2 DEF handleHumanDecision, Idle, Kept, analystVars
<1>3. CASE handleCallback
  <2>1. u \in Tasks \ {t}
    BY <1>3, TakenType DEF handleCallback
  <2>2. vpc' # "idle" => vtask' # t
    BY <1>3, <2>1 DEF handleCallback, MatchCallback, verifierVars, Receive
  <2> QED BY <1>3, <2>1, <2>2 DEF handleCallback, Idle, Kept, analystVars
<1>4. CASE SaveDecision \/ SaveCallback \/ SaveExpired \/ executeLinear
  BY <1>4, WorkingSteps, WorkingIdle
<1> QED BY <1>1, <1>2, <1>3, <1>4 DEF Verifier

LEMMA AnalystIdle ==
    ASSUME NEW t \in Tasks, TypeInv, Idle(t), Analyst
    PROVE  Idle(t)' /\ Kept(t)
<1>1. CASE LoadCompletion
  <2> DEFINE u == Head(abox)
  <2>1. u \in Tasks \ {t} /\ abox' \in Seq(Tasks \ {t})
    BY <1>1, HeadTailType DEF LoadCompletion, Idle
  <2>2. analyst'.task = u
    BY <1>1 DEF LoadCompletion
  <2> HIDE DEF u
  <2> QED BY <1>1, <2>1, <2>2 DEF LoadCompletion, Idle, Kept, verifierVars, runUnchanged
<1>2. CASE SaveCompletion
  <2>1. analyst.task # t
    BY <1>2 DEF SaveCompletion, Idle
  <2>2. store'[t] = store[t]
    BY <1>2, <2>1, SaveFrame DEF SaveCompletion, TypeInv
  <2>3. analyst'.pc = "idle"
    BY <1>2 DEF SaveCompletion, TypeInv, AnalystType
  <2> QED BY <1>2, <2>2, <2>3 DEF SaveCompletion, Idle, Kept, verifierVars, runUnchanged
<1> QED BY <1>1, <1>2 DEF Analyst

LEMMA RequestIdle ==
    ASSUME NEW t \in Tasks, TypeInv, Idle(t), NEW r \in Requests,
           \/ Done(r)
           \/ \E op \in Operations, u \in Tasks \ {t} : Read(r, op, u)
    PROVE  \A q \in Requests : req'[q].pc = "read" => req'[q].task # t
<1>1. \A q \in Requests : q # r => req'[q] = req[q]
  BY DEF TypeInv, RequestType, Done, Read
<1>2. req'[r].pc = "read" => req'[r].task # t
  BY DEF TypeInv, RequestType, Done, Read
<1> QED BY <1>1, <1>2 DEF Idle

LEMMA ApiIdle ==
    ASSUME NEW t \in Tasks, TypeInv, Idle(t), Shut(t), NEW r \in Requests, Api(r)
    PROVE  Idle(t)' /\ Kept(t)
<1> USE DEF apiUnchanged, verifierVars, analystVars
<1>1. ASSUME NEW u \in Tasks, ReadCallback(r, u)
      PROVE  Idle(t)' /\ Kept(t)
  <2>1. u # t
    BY <1>1 DEF ReadCallback, Read, Shut
  <2>2. \A q \in Requests : req'[q].pc = "read" => req'[q].task # t
    BY <1>1, <2>1, RequestIdle DEF ReadCallback, Operations
  <2> QED BY <1>1, <2>2 DEF ReadCallback, Idle, Kept
<1>2. ASSUME NEW u \in Tasks, NEW decision \in {"approved", "rejected"},
             ReadDecision(r, u, decision)
      PROVE  Idle(t)' /\ Kept(t)
  <2>1. u # t
    BY <1>2 DEF ReadDecision, Read, Shut
  <2>2. \A q \in Requests : req'[q].pc = "read" => req'[q].task # t
    BY <1>2, <2>1, RequestIdle DEF ReadDecision, Operations
  <2> QED BY <1>2, <2>2 DEF ReadDecision, Idle, Kept
<1>3. CASE AcceptCallback(r)
  <2>1. req[r].task \in Tasks \ {t}
    BY <1>3 DEF AcceptCallback, Idle, TypeInv, RequestType
  <2>2. store'[t] = store[t]
    BY <1>3, <2>1, SaveFrame DEF AcceptCallback, TypeInv
  <2>3. \A q \in Requests : req'[q].pc = "read" => req'[q].task # t
    BY <1>3, RequestIdle DEF AcceptCallback
  <2> QED BY <1>3, <2>2, <2>3 DEF AcceptCallback, Idle, Kept
<1>4. CASE SendDecision(r)
  <2>1. \A q \in Requests : req'[q].pc = "read" => req'[q].task # t
    BY <1>4, RequestIdle DEF SendDecision
  <2> QED BY <1>4, <2>1 DEF SendDecision, Idle, Kept
<1> QED BY <1>1, <1>2, <1>3, <1>4 DEF Api

LEMMA NextIdle ==
    ASSUME NEW t \in Tasks, TypeInv, Idle(t), Shut(t), ~DispatchPipeline(t), Untaken(t),
           [Next]_vars
    PROVE  Idle(t)' /\ Kept(t)
<1> USE DEF verifierVars, analystVars
<1>1. ASSUME NEW u \in Tasks, DispatchPipeline(u)
      PROVE  Idle(t)' /\ Kept(t)
  <2>1. u \in Tasks \ {t}
    BY <1>1
  <2>2. store'[t] = store[t]
    BY <1>1, <2>1, SaveFrame DEF DispatchPipeline, TypeInv
  <2> QED BY <1>1, <2>2 DEF DispatchPipeline, Idle, Kept
<1>2. ASSUME NEW u \in Tasks, Ticker(u)
      PROVE  Idle(t)' /\ Kept(t)
  <2>1. u # t
    BY <1>2 DEF Ticker, recoverPendingCallbacks, expireAwaitingCallbacks, Resumable, Overdue, Shut
  <2>2. vtask' = u
    BY <1>2 DEF Ticker, recoverPendingCallbacks, expireAwaitingCallbacks, MatchCallback
  <2>3. UNCHANGED <<store, submitted, analyst, abox, req>>
    BY <1>2 DEF Ticker, recoverPendingCallbacks, expireAwaitingCallbacks
  <2> QED BY <2>1, <2>2, <2>3 DEF Idle, Kept
<1>3. ASSUME NEW u \in Tasks, Poll(u)
      PROVE  Idle(t)' /\ Kept(t)
  BY <1>3 DEF Poll, AwaitHuman, GetResult, DeleteResult, Idle, Kept
<1>4. CASE BreakJournal \/ Tick \/ UNCHANGED vars
  BY <1>4 DEF BreakJournal, Tick, vars, Idle, Kept
<1>5. CASE Crash
  <2>1. \A r \in Requests : req'[r].pc = "read" => req'[r].task # t
    BY <1>5 DEF Crash, TypeInv, RequestType
  <2>2. abox' \in Seq(Tasks \ {t})
    BY <1>5, EmptySeq DEF Crash
  <2>3. vpc' = "idle" /\ analyst'.pc = "idle"
    BY <1>5 DEF Crash, Return, TypeInv, AnalystType
  <2>4. UNCHANGED <<store, submitted>>
    BY <1>5 DEF Crash
  <2> QED BY <2>1, <2>2, <2>3, <2>4 DEF Idle, Kept
<1> QED
  BY <1>1, <1>2, <1>3, <1>4, <1>5, VerifierIdle, AnalystIdle, ApiIdle DEF Next

(***************************************************************************)
(* What a step does to the verifier's inbox: the message a step sends is   *)
(* for a task it dispatches or for the one its request names.              *)
(***************************************************************************)
Sends(u, type) ==
    /\ Send(type, u)
    /\ \/ DispatchPipeline(u) /\ type = "run_pipeline"
       \/ /\ type \in Operations
          /\ \E r \in Requests : req[r].pc = "read" /\ req[r].op = type /\ req[r].task = u

InboxStep ==
    \/ inbox' = inbox
    \/ inbox' = <<>>
    \/ inbox # <<>> /\ inbox' = Tail(inbox)
    \/ \E u \in Tasks, type \in {"run_pipeline"} \cup Operations : Sends(u, type)

LEMMA NextInbox == TypeInv /\ [Next]_vars => InboxStep
<1> SUFFICES ASSUME TypeInv, [Next]_vars PROVE InboxStep
  OBVIOUS
<1>1. ASSUME NEW u \in Tasks, DispatchPipeline(u)
      PROVE  InboxStep
  <2>1. Sends(u, "run_pipeline")
    BY <1>1 DEF DispatchPipeline, Sends
  <2> QED BY <2>1 DEF InboxStep
<1>2. ASSUME NEW u \in Tasks, Ticker(u) \/ Poll(u)
      PROVE  inbox' = inbox
  BY <1>2 DEF Ticker, recoverPendingCallbacks, expireAwaitingCallbacks, Poll, AwaitHuman,
              GetResult, DeleteResult
<1>3. CASE Verifier
  <2>1. CASE \/ handleRunPipeline \/ handleCallback
             \/ handleHumanDecision("approved") \/ handleHumanDecision("rejected")
    BY <2>1 DEF handleRunPipeline, handleHumanDecision, handleCallback, Receive, InboxStep
  <2>2. CASE SaveDecision \/ SaveCallback \/ SaveExpired \/ executeLinear
    BY <2>2, WorkingSteps DEF Working, InboxStep
  <2> QED BY <1>3, <2>1, <2>2 DEF Verifier
<1>4. CASE Analyst \/ BreakJournal \/ Tick \/ Crash \/ UNCHANGED vars
  BY <1>4 DEF Analyst, LoadCompletion, SaveCompletion, runUnchanged, BreakJournal, Tick, Crash,
              vars, InboxStep
<1>5. ASSUME NEW r \in Requests, Api(r)
      PROVE  InboxStep
  <2>1. CASE \E u \in Tasks : \/ ReadCallback(r, u) \/ ReadDecision(r, u, "approved")
                              \/ ReadDecision(r, u, "rejected")
    BY <2>1 DEF ReadCallback, ReadDecision, InboxStep
  <2>2. CASE AcceptCallback(r) \/ SendDecision(r)
    <3>1. req[r].task \in Tasks /\ req[r].op \in Operations
      BY DEF TypeInv, RequestType
    <3>2. Sends(req[r].task, req[r].op)
      BY <2>2, <3>1 DEF AcceptCallback, SendDecision, Sends, Operations
    <3> QED BY <3>1, <3>2 DEF InboxStep
  <2> QED BY <1>5, <2>1, <2>2 DEF Api
<1> QED BY <1>1, <1>2, <1>3, <1>4, <1>5 DEF Next, InboxStep

LEMMA NextElsewhere ==
    ASSUME NEW t \in Tasks, TypeInv, Elsewhere(t), Shut(t), ~DispatchPipeline(t), [Next]_vars
    PROVE  Elsewhere(t)' /\ Kept(t)
<1>1. inbox \in Seq(MessagesTo(Tasks \ {t}))
  BY DEF Elsewhere
<1>2. inbox # <<>> => /\ Head(inbox) \in MessagesTo(Tasks \ {t})
                      /\ Tail(inbox) \in Seq(MessagesTo(Tasks \ {t}))
  BY <1>1, HeadTailType
<1>3. Untaken(t)
  BY <1>2 DEF Untaken, MessagesTo
<1>4. Idle(t)' /\ Kept(t)
  BY <1>3, NextIdle DEF Elsewhere
<1>5. ASSUME NEW u \in Tasks, NEW type \in {"run_pipeline"} \cup Operations, Sends(u, type)
      PROVE  inbox' \in Seq(MessagesTo(Tasks \ {t}))
  <2>1. u \in Tasks \ {t}
    BY <1>5 DEF Sends, Elsewhere, Idle
  <2>2. [type |-> type, task |-> u] \in MessagesTo(Tasks \ {t})
    BY <2>1 DEF MessagesTo
  <2> QED BY <1>1, <1>5, <2>2, DeliveredType DEF Sends, Send
<1>6. inbox' \in Seq(MessagesTo(Tasks \ {t}))
  BY <1>1, <1>2, <1>5, NextInbox, EmptySeq DEF InboxStep
<1> QED BY <1>4, <1>6 DEF Elsewhere

(***************************************************************************)
(* Once a run is rejected, timed out or completed, its gate is closed and  *)
(* no work for it is in flight, no later request, callback, tick or        *)
(* restart changes its record: the API refuses a decision or a callback    *)
(* for a closed gate, and the ticker skips it.                             *)
(***************************************************************************)
THEOREM SettledStaysFinal == Spec => SettledIsFinal
<1> DEFINE Final == \A t \in Tasks : Settled(t) => Settled(t)' /\ store'[t] = store[t]
<1>1. TypeInv /\ [Next]_vars => Final
  <2> SUFFICES ASSUME TypeInv, [Next]_vars, NEW t \in Tasks, Settled(t)
               PROVE  Settled(t)' /\ store'[t] = store[t]
    OBVIOUS
  <2>1. Elsewhere(t) /\ Shut(t) /\ t \in submitted
    BY QuietElsewhere DEF Settled, Shut
  <2>2. Elsewhere(t)' /\ Kept(t)
    BY <2>1, NextElsewhere DEF DispatchPipeline
  <2>3. Quiet(t)'
    BY <2>2, ElsewhereQuietNext
  <2> QED BY <2>2, <2>3 DEF Settled, Kept
<1>2. TypeInv /\ [Next]_vars => [Final]_vars
  BY <1>1
<1>3. Spec => [][Final]_vars
  BY <1>2, InitType, NextType, PTL DEF Spec
<1> QED BY <1>3 DEF SettledIsFinal
-----------------------------------------------------------------------------
(***************************************************************************)
(* JournalBeforeTool.  Only StartTool makes a call ready, and only while   *)
(* the journal is up; a call that finds it down leaves none ready, and     *)
(* only a restart brings the journal back.                                 *)
(***************************************************************************)
Ahead == journal \/ vpc = "invoke" => blind <= crashes

Logging == Ahead /\ blind <= crashes + 1

(***************************************************************************)
(* Every other step: no call that was not ready becomes so without a line. *)
(***************************************************************************)
Logged ==
    /\ UNCHANGED <<journal, crashes, blind>>
    /\ vpc' = "invoke" => journal \/ vpc = "invoke"

LEMMA EndIsLogged ==
    ASSUME NEW t, NEW st
    PROVE  storeError(t) \/ failAuditExecution(t, st) \/ resumeFromState(t, st)
              => vpc' # "invoke"
BY DEF storeError, failAuditExecution, resumeFromState, Return, Goto

LEMMA LinearIsLogged == executeLinear => Invoke \/ Logged
<1> USE DEF runUnchanged, envVars, history, Logged
<1>1. LoadState \/ LoadFailed => Logged
  BY DEF LoadState, LoadFailed, Goto
<1>2. SkipStep \/ PassGate \/ InternalTool \/ ToolSucceeds => Logged
  BY EndIsLogged DEF SkipStep, PassGate, InternalTool, ToolSucceeds, Advance
<1>3. SendToAnalyst \/ SaveFailed => Logged
  BY DEF SendToAnalyst, SaveFailed, Return
<1>4. PauseAtGate \/ AwaitCallback => Logged
  BY EndIsLogged DEF PauseAtGate, AwaitCallback, Return
<1>5. StartTool => Logged
  BY EndIsLogged DEF StartTool, Goto
<1>6. AgentFails \/ ToolFails => Logged
  BY EndIsLogged DEF AgentFails, ToolFails, Return
<1> QED BY <1>1, <1>2, <1>3, <1>4, <1>5, <1>6 DEF executeLinear

LEMMA VerifierIsLogged == Verifier => Invoke \/ Logged
<1> USE DEF envVars, history, Logged
<1>1. handleRunPipeline => Logged
  BY EndIsLogged DEF handleRunPipeline, Return
<1>2. \A decision : handleHumanDecision(decision) => Logged
  BY EndIsLogged DEF handleHumanDecision
<1>3. SaveDecision => Logged
  BY EndIsLogged DEF SaveDecision, Return
<1>4. handleCallback => Logged
  BY DEF handleCallback, MatchCallback, verifierVars
<1>5. SaveCallback => Logged
  BY EndIsLogged DEF SaveCallback, Return
<1>6. SaveExpired => Logged
  BY DEF SaveExpired, Return
<1> QED BY <1>1, <1>2, <1>3, <1>4, <1>5, <1>6, LinearIsLogged DEF Verifier

LEMMA OthersAreLogged ==
    /\ \A t \in Tasks : DispatchPipeline(t) \/ Ticker(t) \/ Poll(t) => Logged
    /\ Analyst \/ Tick => Logged
    /\ \A r \in Requests : Api(r) => Logged
<1> USE DEF envVars, history, verifierVars, Logged
<1>1. \A t \in Tasks : DispatchPipeline(t) => Logged
  BY DEF DispatchPipeline
<1>2. \A t \in Tasks : Ticker(t) => Logged
  BY DEF Ticker, recoverPendingCallbacks, expireAwaitingCallbacks, MatchCallback
<1>3. \A t \in Tasks : Poll(t) => Logged
  BY DEF Poll, AwaitHuman, GetResult, DeleteResult
<1>4. Analyst \/ Tick => Logged
  BY DEF Analyst, LoadCompletion, SaveCompletion, Tick, runUnchanged
<1>5. \A r \in Requests : Api(r) => Logged
  BY DEF Api, ReadCallback, ReadDecision, AcceptCallback, SendDecision, apiUnchanged
<1> QED BY <1>1, <1>2, <1>3, <1>4, <1>5

LEMMA NextIsLogged == TypeInv /\ Logging /\ [Next]_vars => Logging'
<1> SUFFICES ASSUME TypeInv, Logging, [Next]_vars PROVE Logging'
  OBVIOUS
<1>1. blind \in Nat /\ crashes \in Nat
  BY DEF TypeInv, EnvType
<1>2. CASE Logged
  BY <1>2 DEF Logged, Logging, Ahead
<1>3. CASE Invoke
  <2>1. vpc' = "calling" /\ UNCHANGED <<journal, crashes>>
    BY <1>3 DEF Invoke, Goto, envVars
  <2>2. vpc = "invoke" /\ blind' = IF journal THEN blind ELSE blind + 1
    BY <1>3 DEF Invoke
  <2> QED BY <1>1, <2>1, <2>2 DEF Logging, Ahead
<1>4. CASE BreakJournal
  BY <1>4 DEF BreakJournal, Logging, Ahead, history
<1>5. CASE Crash
  <2>1. crashes' = crashes + 1 /\ blind' = blind
    BY <1>5 DEF Crash, history
  <2> QED BY <1>1, <2>1 DEF Logging, Ahead
<1>6. CASE UNCHANGED vars
  BY <1>6 DEF vars, verifierVars, envVars, history, Logging, Ahead
<1> QED
  BY <1>2, <1>3, <1>4, <1>5, <1>6, VerifierIsLogged, OthersAreLogged DEF Next

(***************************************************************************)
(* After the journal has failed at most the one call that is already in it *)
(* goes out per process: logLifecycleAudit's error ends the handler at     *)
(* every point where executeLinear would go on to a tool.                  *)
(***************************************************************************)
THEOREM LoggedBeforeCalled == Spec => []JournalBeforeTool
<1>1. Init => Logging
  <2> SUFFICES ASSUME Init PROVE Logging
    OBVIOUS
  <2>1. blind = 0 /\ crashes = 0
    BY DEF Init
  <2> QED BY <2>1 DEF Logging, Ahead
<1>2. TypeInv /\ Logging => JournalBeforeTool
  BY DEF TypeInv, EnvType, Logging, JournalBeforeTool
<1>3. Spec => []TypeInv
  BY InitType, NextType, PTL DEF Spec
<1> QED BY <1>1, <1>2, <1>3, NextIsLogged, PTL DEF Spec
-----------------------------------------------------------------------------
(***************************************************************************)
(* PinnedVersion.  A record travels as copies: in the store, with the      *)
(* verifier, with the analyst, with each request that read it.  While AOS  *)
(* runs they all carry one version, for only handleRunPipeline writes one, *)
(* and its message finds the record as the planner saved it and nobody     *)
(* else at work on it.                                                     *)
(***************************************************************************)
Holding == {"callback", "decision", "expire", "loop", "invoke", "calling", "fail", "failsave"}
Executing == {"load", "loop", "invoke", "calling"}

VerifierAgrees(t) ==
    /\ vpc \in Holding /\ vtask = t => vst.version = store[t].version
    /\ vpc \in Executing /\ vtask = t => store[t].version = cfg

AnalystAgrees(t) ==
    analyst.pc = "save" /\ analyst.task = t => analyst.st.version = store[t].version

RequestsAgree(t) ==
    \A r \in Requests :
        req[r].pc = "read" /\ req[r].op = "callback_received" /\ req[r].task = t
           => req[r].st.version = store[t].version

Agree(t) == VerifierAgrees(t) /\ AnalystAgrees(t) /\ RequestsAgree(t)

FirstMessage(t) ==
    \A k \in DOMAIN inbox :
        inbox[k].type = "run_pipeline" /\ inbox[k].task = t
           => /\ store[t] = Blank
              /\ Idle(t)
              /\ \A j \in DOMAIN inbox : inbox[j].task = t => j = k

Stored(t) == store[t] # NoState /\ Agree(t)

Pinned(t) ==
    \/ Elsewhere(t) /\ store[t] = NoState
    \/ Stored(t) /\ FirstMessage(t)

Pinning ==
    /\ \A t \in Tasks \ submitted : Elsewhere(t) /\ store[t] = NoState
    /\ cfg # 0 => \A t \in Tasks : Pinned(t)
    /\ vpc \in Executing => cfg # 0

(***************************************************************************)
(* What a handler makes of a record keeps its version.                     *)
(***************************************************************************)
LEMMA KeptVersions ==
    ASSUME NEW st \in ExecutionState
    PROVE  /\ Failed(st).version = st.version
           /\ Rejected(st).version = st.version
           /\ Resumed(st).version = st.version
           /\ [Resumed(st) EXCEPT !.status = "error", !.error = TRUE].version = st.version
           /\ Expired(st).version = st.version
           /\ Completed(st).version = st.version
           /\ \A at : Accepted(st, at).version = st.version
           /\ \A o : Ended(st, o).version = st.version
BY DEF ExecutionState, Failed, Rejected, Resumed, Expired, Completed, Accepted, Ended

LEMMA PauseVersions ==
    /\ \A gate : Paused(gate).version = vst.version
    /\ Awaiting.version = vst.version
    /\ Prepared.version = vst.version
<1>1. \A gate : Paused(gate).version = vst.version
  BY DEF Paused, Blank
<1>2. Awaiting.version = vst.version
  BY DEF Awaiting, Paused, Blank
<1>3. Prepared.version = vst.version
  BY DEF Prepared, Blank
<1> QED BY <1>1, <1>2, <1>3

(***************************************************************************)
(* A step of the verifier for the task it works for, as Agree sees it.     *)
(***************************************************************************)
SavesCopy ==
    \/ store' = store
    \/ /\ vpc \in Holding
       /\ \E st \in ExecutionState : st.version = vst.version /\ Save(vtask, st)

CopyKept ==
    vpc' \in Holding
       => \/ vpc \in Holding /\ vst'.version = vst.version
          \/ store[vtask] # NoState /\ vst' = store[vtask] /\ store' = store

ExecutionKept ==
    vpc' \in Executing => \/ vpc \in Executing
                          \/ \E st : st.version = cfg /\ Save(vtask, st)

Faithful == SavesCopy /\ CopyKept /\ ExecutionKept /\ UNCHANGED cfg

LEMMA FailIsFaithful ==
    ASSUME NEW st \in ExecutionState, st.version = vst.version, vpc \in Holding,
           failAuditExecution(vtask, st), UNCHANGED cfg
    PROVE  Faithful
<1>1. Failed(st) \in ExecutionState /\ Failed(st).version = vst.version
  BY RecordTypes, KeptVersions
<1>2. Save(vtask, Failed(st)) /\ vpc' = "idle"
  BY DEF failAuditExecution, Return
<1> QED BY <1>1, <1>2 DEF Faithful, SavesCopy, CopyKept, ExecutionKept, Holding, Executing

LEMMA ResumeIsFaithful ==
    ASSUME NEW st \in ExecutionState, st.version = vst.version, vpc \in Holding, cfg # 0,
           resumeFromState(vtask, st), UNCHANGED cfg
    PROVE  Faithful
<1>1. CASE failAuditExecution(vtask, st)
  BY <1>1, FailIsFaithful
<1>2. CASE st.version = cfg /\ Save(vtask, st) /\ Goto("load", NoState)
  <2>1. vpc' = "load"
    BY <1>2 DEF Goto
  <2> QED BY <1>2, <2>1 DEF Faithful, SavesCopy, CopyKept, ExecutionKept, Holding
<1> QED BY <1>1, <1>2 DEF resumeFromState

LEMMA SaveIsFaithful ==
    ASSUME NEW st \in ExecutionState, st.version = vst.version, vpc \in Holding,
           Save(vtask, st), Return, UNCHANGED cfg
    PROVE  Faithful
BY DEF Faithful, SavesCopy, CopyKept, ExecutionKept, Holding, Executing, Return

LEMMA AdvanceIsFaithful ==
    ASSUME vpc \in {"loop", "calling"}, Advance, UNCHANGED <<store, cfg>>
    PROVE  Faithful
BY DEF Faithful, SavesCopy, CopyKept, ExecutionKept, Holding, Executing, Advance

LEMMA ReturnIsFaithful ==
    ASSUME Return, UNCHANGED <<store, cfg>>
    PROVE  Faithful
BY DEF Faithful, SavesCopy, CopyKept, ExecutionKept, Holding, Executing, Return

LEMMA WorkIsFaithful ==
    ASSUME TypeInv, cfg # 0, SaveDecision \/ SaveCallback \/ SaveExpired \/ executeLinear
    PROVE  Faithful
<1> USE DEF runUnchanged, envVars
<1>1. vpc \in Holding => vst \in ExecutionState
  BY DEF TypeInv, VerifierType, Locals, Holding
<1>2. vpc \in {"decision", "callback", "expire", "loop", "calling", "failsave"} => vpc \in Holding
  BY DEF Holding
<1>3. CASE SaveDecision
  <2>1. vst \in ExecutionState /\ vpc \in Holding /\ UNCHANGED cfg
    BY <1>1, <1>2, <1>3 DEF SaveDecision
  <2>2. CASE resumeFromState(vtask, vst)
    BY <2>1, <2>2, ResumeIsFaithful
  <2>3. CASE Save(vtask, Rejected(vst)) /\ Return
    BY <2>1, <2>3, RecordTypes, KeptVersions, SaveIsFaithful
  <2> QED BY <1>3, <2>2, <2>3 DEF SaveDecision
<1>4. CASE SaveCallback
  <2> DEFINE failed == [Resumed(vst) EXCEPT !.status = "error", !.error = TRUE]
  <2>1. vst \in ExecutionState /\ vpc \in Holding /\ UNCHANGED cfg
    BY <1>1, <1>2, <1>4 DEF SaveCallback
  <2>2. Resumed(vst) \in ExecutionState /\ Resumed(vst).version = vst.version
    BY <2>1, RecordTypes, KeptVersions
  <2>3. failed \in ExecutionState /\ failed.version = vst.version
    BY <2>1, RecordTypes, KeptVersions
  <2>4. \/ resumeFromState(vtask, Resumed(vst))
        \/ Save(vtask, failed) /\ Return
    BY <1>4 DEF SaveCallback
  <2> HIDE DEF failed
  <2> QED BY <2>1, <2>2, <2>3, <2>4, ResumeIsFaithful, SaveIsFaithful
<1>5. CASE SaveExpired
  <2>1. vst \in ExecutionState /\ vpc \in Holding /\ UNCHANGED cfg
    BY <1>1, <1>2, <1>5 DEF SaveExpired
  <2> QED BY <1>5, <2>1, RecordTypes, KeptVersions, SaveIsFaithful DEF SaveExpired
<1>6. CASE LoadState
  BY <1>6 DEF LoadState, Faithful, SavesCopy, CopyKept, ExecutionKept, Executing
<1>7. CASE SkipStep \/ PassGate \/ InternalTool \/ ToolSucceeds
  <2>1. vst \in ExecutionState /\ vpc \in {"loop", "calling"} /\ vpc \in Holding /\ UNCHANGED cfg
    BY <1>1, <1>2, <1>7 DEF SkipStep, PassGate, InternalTool, ToolSucceeds, AtStep
  <2>2. failAuditExecution(vtask, vst) \/ (Advance /\ UNCHANGED store)
    BY <1>7 DEF SkipStep, PassGate, InternalTool, ToolSucceeds
  <2> QED BY <2>1, <2>2, FailIsFaithful, AdvanceIsFaithful
<1>8. CASE SendToAnalyst
  BY <1>8, ReturnIsFaithful DEF SendToAnalyst
<1>9. CASE PauseAtGate
  <2> DEFINE st == Paused(steps[vidx].gate)
  <2>1. vpc = "loop" /\ vpc \in Holding /\ UNCHANGED cfg
    BY <1>2, <1>9 DEF PauseAtGate, AtStep
  <2>2. steps[vidx].gate \in Gates
    BY <1>9, PipelineType DEF PauseAtGate, AtStep, TypeInv, EnvType
  <2>3. st \in ExecutionState /\ st.version = vst.version
    BY <2>1, <2>2, PauseTypes, PauseVersions
  <2>4. failAuditExecution(vtask, st) \/ (Save(vtask, st) /\ Return)
    BY <1>9 DEF PauseAtGate
  <2> HIDE DEF st
  <2> QED BY <2>1, <2>3, <2>4, FailIsFaithful, SaveIsFaithful
<1>10. CASE AwaitCallback
  <2>1. vpc = "loop" /\ vpc \in Holding /\ UNCHANGED cfg
    BY <1>2, <1>10 DEF AwaitCallback, AtStep
  <2>2. Awaiting \in ExecutionState /\ Awaiting.version = vst.version
    BY <2>1, PauseTypes, PauseVersions
  <2>3. failAuditExecution(vtask, Awaiting) \/ (Save(vtask, Awaiting) /\ Return)
    BY <1>10 DEF AwaitCallback
  <2> QED BY <2>1, <2>2, <2>3, FailIsFaithful, SaveIsFaithful
<1>11. CASE StartTool
  <2>1. vpc = "loop" /\ vpc \in Holding /\ vst \in ExecutionState /\ UNCHANGED cfg
    BY <1>1, <1>2, <1>11 DEF StartTool, AtStep
  <2>2. CASE failAuditExecution(vtask, vst)
    BY <2>1, <2>2, FailIsFaithful
  <2>3. CASE Save(vtask, Prepared) /\ Goto("invoke", Prepared)
    <3>1. Prepared \in ExecutionState /\ Prepared.version = vst.version
      BY <2>1, PauseTypes, PauseVersions
    <3> QED BY <2>1, <2>3, <3>1
            DEF Faithful, SavesCopy, CopyKept, ExecutionKept, Executing, Goto
  <2>4. CASE UNCHANGED store /\ Goto("invoke", vst)
    BY <2>1, <2>4 DEF Faithful, SavesCopy, CopyKept, ExecutionKept, Executing, Goto
  <2> QED BY <1>11, <2>2, <2>3, <2>4 DEF StartTool
<1>12. CASE Invoke
  BY <1>12 DEF Invoke, Faithful, SavesCopy, CopyKept, ExecutionKept, Holding, Executing, Goto
<1>13. CASE AgentFails
  <2>1. vst \in ExecutionState /\ vpc \in Holding /\ UNCHANGED cfg
    BY <1>1, <1>2, <1>13 DEF AgentFails
  <2>2. failAuditExecution(vtask, vst) \/ (Return /\ UNCHANGED store)
    BY <1>13 DEF AgentFails
  <2> QED BY <2>1, <2>2, FailIsFaithful, ReturnIsFaithful
<1>14. CASE ToolFails
  <2>1. vst \in ExecutionState /\ vpc \in Holding /\ UNCHANGED cfg /\ vpc' = "fail"
    BY <1>1, <1>2, <1>14 DEF ToolFails
  <2>2. Failed(vst) \in ExecutionState /\ Failed(vst).version = vst.version
    BY <2>1, RecordTypes, KeptVersions
  <2>3. \/ vst' = Failed(vst) /\ Save(vtask, Failed(vst))
        \/ UNCHANGED <<vst, store>>
    BY <1>14 DEF ToolFails
  <2> QED BY <2>1, <2>2, <2>3 DEF Faithful, SavesCopy, CopyKept, ExecutionKept, Executing
<1>15. CASE LoadFailed
  <2>1. vpc = "fail" /\ vpc' = "failsave" /\ UNCHANGED <<store, cfg>>
    BY <1>15 DEF LoadFailed, Goto
  <2>2. vst' = IF store[vtask] # NoState THEN store[vtask] ELSE vst
    BY <1>15 DEF LoadFailed, Goto
  <2> QED BY <2>1, <2>2 DEF Faithful, SavesCopy, CopyKept, ExecutionKept, Holding, Executing
<1>16. CASE SaveFailed
  <2>1. vst \in ExecutionState /\ vpc \in Holding /\ UNCHANGED cfg
    BY <1>1, <1>2, <1>16 DEF SaveFailed
  <2>2. varg \in {"error", "rejected"}
    BY <1>16 DEF SaveFailed, TypeInv, VerifierType, Locals
  <2>3. Ended(vst, varg) \in ExecutionState /\ Ended(vst, varg).version = vst.version
    BY <2>1, <2>2, RecordTypes, KeptVersions
  <2> QED BY <1>16, <2>1, <2>3, SaveIsFaithful DEF SaveFailed
<1> QED
  BY <1>3, <1>4, <1>5, <1>6, <1>7, <1>8, <1>9, <1>10, <1>11, <1>12, <1>13, <1>14, <1>15, <1>16
     DEF executeLinear

(***************************************************************************)
(* The steps that keep a stored record stored and its copies in agreement, *)
(* by goroutine.                                                           *)
(***************************************************************************)
SameVersion(t) ==
    /\ store'[t] # NoState
    /\ store'[t].version = store[t].version
    /\ UNCHANGED cfg

LEMMA OthersAgree ==
    ASSUME NEW t \in Tasks, SameVersion(t)
    PROVE  /\ AnalystAgrees(t) /\ UNCHANGED analyst => AnalystAgrees(t)'
           /\ RequestsAgree(t) /\ UNCHANGED req => RequestsAgree(t)'
           /\ VerifierAgrees(t) /\ UNCHANGED verifierVars => VerifierAgrees(t)'
<1> USE DEF SameVersion
<1>1. AnalystAgrees(t) /\ UNCHANGED analyst => AnalystAgrees(t)'
  BY DEF AnalystAgrees
<1>2. RequestsAgree(t) /\ UNCHANGED req => RequestsAgree(t)'
  BY DEF RequestsAgree
<1>3. VerifierAgrees(t) /\ UNCHANGED verifierVars => VerifierAgrees(t)'
  BY DEF VerifierAgrees, verifierVars
<1> QED BY <1>1, <1>2, <1>3

LEMMA WorkingStored ==
    ASSUME NEW t \in Tasks, TypeInv, cfg # 0, Stored(t),
           SaveDecision \/ SaveCallback \/ SaveExpired \/ executeLinear
    PROVE  Stored(t)'
<1>1. Working /\ Faithful
  BY WorkingSteps, WorkIsFaithful
<1>2. UNCHANGED <<cfg, analyst, req>> /\ vtask' = vtask
  BY <1>1 DEF Working, Faithful
<1>3. CASE vtask # t
  <2>1. store'[t] = store[t]
    BY <1>1, <1>3 DEF Working
  <2>2. SameVersion(t)
    BY <1>2, <2>1 DEF SameVersion, Stored
  <2>3. VerifierAgrees(t)'
    BY <1>2, <1>3 DEF VerifierAgrees
  <2> QED BY <1>2, <2>1, <2>2, <2>3, OthersAgree DEF Stored, Agree
<1>4. CASE vtask = t
  <2>1. /\ vpc \in Holding => vst.version = store[t].version
        /\ vpc \in Executing => store[t].version = cfg
    BY <1>4 DEF Stored, Agree, VerifierAgrees
  <2>2. \A st : Save(t, st) => store'[t] = st
    BY DEF Save, TypeInv, StoreType
  <2>3. SameVersion(t)
    <3>1. CASE store' = store
      BY <1>2, <3>1 DEF SameVersion, Stored
    <3>2. CASE /\ vpc \in Holding
               /\ \E st \in ExecutionState : st.version = vst.version /\ Save(vtask, st)
      <4>1. PICK st \in ExecutionState : st.version = vst.version /\ Save(t, st)
        BY <1>4, <3>2
      <4>2. store'[t] = st /\ st.version = store[t].version
        BY <2>1, <2>2, <3>2, <4>1
      <4> QED BY <1>2, <4>2, NoStateAssumption DEF SameVersion
    <3> QED BY <1>1, <3>1, <3>2 DEF Faithful, SavesCopy
  <2>4. vpc' \in Holding => vst'.version = store'[t].version
    BY <1>1, <1>4, <2>1, <2>3 DEF Faithful, CopyKept, SameVersion
  <2>5. vpc' \in Executing => store'[t].version = cfg'
    <3>1. CASE vpc \in Executing
      BY <2>1, <2>3, <3>1 DEF SameVersion
    <3>2. CASE \E st : st.version = cfg /\ Save(vtask, st)
      BY <1>2, <1>4, <2>2, <3>2
    <3> QED BY <1>1, <3>1, <3>2 DEF Faithful, ExecutionKept
  <2>6. VerifierAgrees(t)'
    BY <2>4, <2>5 DEF VerifierAgrees
  <2> QED BY <1>2, <2>3, <2>6, OthersAgree DEF Stored, Agree, SameVersion
<1> QED BY <1>3, <1>4

LEMMA BeginsStored ==
    ASSUME NEW t \in Tasks, TypeInv, Stored(t), UNCHANGED <<cfg, analyst, req>>,
           store'[t] = store[t],
           \/ UNCHANGED verifierVars
           \/ vpc' = "idle"
           \/ vtask' \in Tasks \ {t}
           \/ vpc' \in {"callback", "decision", "expire"} /\ vst' = store[t]
    PROVE  Stored(t)'
<1>1. SameVersion(t)
  BY DEF SameVersion, Stored
<1>2. VerifierAgrees(t)'
  BY <1>1, OthersAgree DEF VerifierAgrees, Stored, Agree, Holding, Executing
<1> QED BY <1>1, <1>2, OthersAgree DEF Stored, Agree, SameVersion

LEMMA RunPipelineStored ==
    ASSUME NEW t \in Tasks, TypeInv, cfg # 0, Stored(t), FirstMessage(t), handleRunPipeline
    PROVE  Stored(t)'
<1> DEFINE u == Head(inbox).task
           st == [LoadOrNew(u) EXCEPT !.version = cfg]
<1>1. /\ inbox \in Seq(Messages) /\ inbox # <<>>
      /\ Head(inbox) = inbox[1] /\ 1 \in DOMAIN inbox /\ u \in Tasks
  <2>1. inbox \in Seq(Messages) /\ inbox # <<>>
    BY DEF handleRunPipeline, Receive, TypeInv, BusType
  <2>2. Head(inbox) \in Messages
    BY <2>1, HeadTailType
  <2>3. Head(inbox) = inbox[1] /\ 1 \in DOMAIN inbox
    BY <2>1
  <2> QED BY <2>1, <2>2, <2>3 DEF Messages
<1>2. st \in ExecutionState /\ st.version = cfg
  <2>1. LoadOrNew(u) \in ExecutionState /\ cfg \in Nat
    BY <1>1, StoredType DEF TypeInv, EnvType
  <2> QED BY <2>1, RecordTypes DEF ExecutionState
<1>3. UNCHANGED <<cfg, analyst, req>>
  BY DEF handleRunPipeline, envVars, analystVars
<1>4. \/ Save(u, st) /\ vtask' = u /\ vpc' = "load"
      \/ failAuditExecution(u, st)
  BY DEF handleRunPipeline
<1>5. Failed(st) \in ExecutionState /\ Failed(st).version = cfg
  BY <1>2, RecordTypes, KeptVersions
<1>6. CASE u # t
  <2> HIDE DEF u, st
  <2>1. store'[t] = store[t] /\ (vpc' = "idle" \/ vtask' \in Tasks \ {t})
    <3>1. CASE Save(u, st) /\ vtask' = u
      BY <1>1, <1>6, <3>1, SaveFrame DEF TypeInv
    <3>2. CASE failAuditExecution(u, st)
      <4>1. vpc' = "idle"
        BY <3>2 DEF failAuditExecution, Return
      <4> QED BY <1>6, <3>2, <4>1, EndFrame DEF TypeInv
    <3> QED BY <1>4, <3>1, <3>2
  <2> QED BY <1>3, <2>1, BeginsStored
<1>7. CASE u = t
  <2>1. Idle(t)
    BY <1>1, <1>7 DEF FirstMessage, handleRunPipeline, Receive
  <2>2. AnalystAgrees(t)' /\ RequestsAgree(t)'
    BY <1>3, <2>1 DEF Idle, AnalystAgrees, RequestsAgree
  <2> HIDE DEF u, st
  <2>3. store'[t] # NoState /\ VerifierAgrees(t)'
    <3>1. CASE Save(u, st) /\ vpc' = "load"
      <4>1. store'[t] = st
        BY <1>7, <3>1 DEF Save, TypeInv, StoreType
      <4> QED BY <1>2, <1>3, <3>1, <4>1, NoStateAssumption DEF VerifierAgrees, Holding
    <3>2. CASE failAuditExecution(u, st)
      <4>1. store'[t] = Failed(st) /\ vpc' = "idle"
        BY <1>7, <3>2 DEF failAuditExecution, Return, Save, TypeInv, StoreType
      <4> QED BY <1>5, <4>1, NoStateAssumption DEF VerifierAgrees, Holding, Executing
    <3> QED BY <1>4, <3>1, <3>2
  <2> QED BY <2>2, <2>3 DEF Stored, Agree
<1> QED BY <1>6, <1>7

LEMMA VerifierStored ==
    ASSUME NEW t \in Tasks, TypeInv, cfg # 0, Stored(t), FirstMessage(t), Verifier
    PROVE  Stored(t)'
<1> USE DEF envVars, analystVars
<1>1. ASSUME NEW decision \in {"approved", "rejected"}, handleHumanDecision(decision)
      PROVE  Stored(t)'
  <2> DEFINE u == Head(inbox).task
  <2>1. u \in Tasks
    BY <1>1, ReceiveType DEF handleHumanDecision, TypeInv
  <2>2. UNCHANGED <<cfg, analyst, req>>
    BY <1>1 DEF handleHumanDecision
  <2>3. \/ store[u] = NoState /\ storeError(u)
        \/ vtask' = u /\ vst' = store[u] /\ vpc' = "decision" /\ UNCHANGED store
    BY <1>1 DEF handleHumanDecision
  <2> HIDE DEF u
  <2>4. CASE store[u] = NoState /\ storeError(u)
    <3>1. u # t /\ vpc' = "idle"
      BY <2>4 DEF Stored, storeError, Return
    <3>2. store'[t] = store[t]
      BY <2>4, <3>1, EndFrame DEF TypeInv
    <3> QED BY <2>2, <3>1, <3>2, BeginsStored
  <2>5. CASE vtask' = u /\ vst' = store[u] /\ vpc' = "decision" /\ UNCHANGED store
    BY <2>1, <2>2, <2>5, BeginsStored
  <2> QED BY <2>3, <2>4, <2>5
<1>2. CASE handleCallback
  <2> DEFINE u == Head(inbox).task
  <2>1. u \in Tasks
    BY <1>2, ReceiveType DEF handleCallback, TypeInv
  <2>2. UNCHANGED <<cfg, analyst, req, store>>
    BY <1>2 DEF handleCallback
  <2>3. \/ vtask' = u /\ vst' = store[u] /\ vpc' = "callback"
        \/ UNCHANGED verifierVars
    BY <1>2 DEF handleCallback, MatchCallback
  <2> HIDE DEF u
  <2> QED BY <2>1, <2>2, <2>3, BeginsStored
<1> QED BY <1>1, <1>2, RunPipelineStored, WorkingStored DEF Verifier

LEMMA TickerStored ==
    ASSUME NEW t \in Tasks, TypeInv, Stored(t), NEW u \in Tasks, Ticker(u)
    PROVE  Stored(t)'
<1>1. /\ vtask' = u /\ vst' = store[u] /\ vpc' \in {"callback", "expire"}
      /\ UNCHANGED <<store, cfg, analyst, req>>
  BY DEF Ticker, recoverPendingCallbacks, expireAwaitingCallbacks, MatchCallback, envVars,
         analystVars
<1> QED BY <1>1, BeginsStored

LEMMA AnalystStored ==
    ASSUME NEW t \in Tasks, TypeInv, Stored(t), Analyst
    PROVE  Stored(t)'
<1> USE DEF runUnchanged, envVars
<1>1. CASE LoadCompletion
  <2>1. analyst' = [pc |-> "save", task |-> Head(abox), st |-> LoadOrNew(Head(abox))]
    BY <1>1 DEF LoadCompletion
  <2>2. SameVersion(t) /\ UNCHANGED <<store, verifierVars, req>>
    BY <1>1 DEF LoadCompletion, SameVersion, Stored
  <2>3. AnalystAgrees(t)'
    BY <2>1, <2>2 DEF AnalystAgrees, LoadOrNew, Stored
  <2> QED BY <2>2, <2>3, OthersAgree DEF Stored, Agree
<1>2. CASE SaveCompletion
  <2> DEFINE u == analyst.task
             st == Completed(analyst.st)
  <2>1. UNCHANGED <<cfg, verifierVars, req>> /\ Save(u, st)
    BY <1>2 DEF SaveCompletion
  <2>2. analyst'.pc = "idle"
    BY <1>2 DEF SaveCompletion, TypeInv, AnalystType
  <2>3. analyst.pc = "save" /\ analyst.st \in ExecutionState
    BY <1>2 DEF SaveCompletion, TypeInv, AnalystType
  <2>4. st \in ExecutionState /\ st.version = analyst.st.version
    BY <2>3, CompletedType, KeptVersions DEF TypeInv, EnvType
  <2> HIDE DEF st
  <2>5. SameVersion(t)
    <3>1. CASE u # t
      BY <2>1, <3>1, SaveFrame DEF SameVersion, Stored, TypeInv
    <3>2. CASE u = t
      <4>1. store'[t] = st
        BY <2>1, <3>2 DEF Save, TypeInv, StoreType
      <4>2. analyst.st.version = store[t].version
        BY <2>3, <3>2 DEF Stored, Agree, AnalystAgrees
      <4> QED BY <2>1, <2>4, <4>1, <4>2, NoStateAssumption DEF SameVersion
    <3> QED BY <3>1, <3>2
  <2>6. AnalystAgrees(t)'
    BY <2>2 DEF AnalystAgrees
  <2> QED BY <2>1, <2>5, <2>6, OthersAgree DEF Stored, Agree, SameVersion
<1> QED BY <1>1, <1>2 DEF Analyst

LEMMA ApiStored ==
    ASSUME NEW t \in Tasks, TypeInv, Stored(t), NEW r \in Requests, Api(r)
    PROVE  Stored(t)'
<1> USE DEF apiUnchanged, envVars, analystVars
<1>1. UNCHANGED <<cfg, verifierVars, analyst>>
  BY DEF Api, ReadCallback, ReadDecision, AcceptCallback, SendDecision
<1>2. ASSUME NEW u \in Tasks, NEW op \in Operations, Read(r, op, u), UNCHANGED store
      PROVE  Stored(t)'
  <2>1. SameVersion(t)
    BY <1>1, <1>2 DEF SameVersion, Stored
  <2>2. req'[r].task = u /\ req'[r].st = store[u]
    BY <1>2 DEF Read, TypeInv, RequestType
  <2>3. \A q \in Requests : q # r => req'[q] = req[q]
    BY <1>2 DEF Read, TypeInv, RequestType
  <2>4. RequestsAgree(t)'
    BY <1>2, <2>2, <2>3 DEF RequestsAgree, Stored, Agree
  <2> QED BY <1>1, <2>1, <2>4, OthersAgree DEF Stored, Agree, SameVersion
<1>3. ASSUME Done(r), SameVersion(t)
      PROVE  Stored(t)'
  <2>1. req'[r].pc = "done"
    BY <1>3 DEF Done, TypeInv, RequestType
  <2>2. \A q \in Requests : q # r => req'[q] = req[q]
    BY <1>3 DEF Done, TypeInv, RequestType
  <2>3. RequestsAgree(t)'
    BY <1>3, <2>1, <2>2 DEF RequestsAgree, Stored, Agree, SameVersion
  <2> QED BY <1>1, <1>3, <2>3, OthersAgree DEF Stored, Agree, SameVersion
<1>4. CASE AcceptCallback(r)
  <2> DEFINE u == req[r].task
  <2>1. /\ req[r].pc = "read" /\ req[r].op = "callback_received"
        /\ u \in Tasks /\ req[r].st \in ExecutionState /\ req[r].at \in Nat /\ now \in Nat
    BY <1>4 DEF AcceptCallback, TypeInv, RequestType, EnvType
  <2>2. CASE UNCHANGED store
    BY <1>1, <1>3, <1>4, <2>2 DEF AcceptCallback, SameVersion, Stored
  <2>3. ASSUME NEW receivedAt \in req[r].at..now, Save(u, Accepted(req[r].st, receivedAt))
        PROVE  SameVersion(t)
    <3> DEFINE st == Accepted(req[r].st, receivedAt)
    <3>1. receivedAt \in Nat
      BY <2>1
    <3>2. st \in ExecutionState /\ st.version = req[r].st.version
      BY <2>1, <3>1, RecordTypes, KeptVersions
    <3> HIDE DEF st
    <3>3. CASE u # t
      <4>1. store'[t] = store[t]
        BY <2>3, <3>3, SaveFrame DEF TypeInv
      <4> QED BY <1>1, <4>1 DEF SameVersion, Stored
    <3>4. CASE u = t
      <4>1. store'[t] = st
        BY <2>3, <3>4 DEF Save, TypeInv, StoreType, st
      <4>2. req[r].st.version = store[t].version
        BY <2>1, <3>4 DEF Stored, Agree, RequestsAgree
      <4> QED BY <1>1, <3>2, <4>1, <4>2, NoStateAssumption DEF SameVersion
    <3> QED BY <3>3, <3>4
  <2> QED BY <1>3, <1>4, <2>2, <2>3 DEF AcceptCallback
<1>5. CASE SendDecision(r)
  <2>1. SameVersion(t)
    BY <1>1, <1>5 DEF SendDecision, SameVersion, Stored
  <2> QED BY <1>3, <1>5, <2>1 DEF SendDecision
<1>6. CASE \E u \in Tasks : \/ ReadCallback(r, u) \/ ReadDecision(r, u, "approved")
                            \/ ReadDecision(r, u, "rejected")
  BY <1>2, <1>6 DEF ReadCallback, ReadDecision, Operations
<1> QED BY <1>4, <1>5, <1>6 DEF Api

LEMMA NextStored ==
    ASSUME NEW t \in Tasks, TypeInv, cfg # 0, Stored(t), FirstMessage(t),
           ~DispatchPipeline(t), ~Crash, [Next]_vars
    PROVE  Stored(t)'
<1> USE DEF envVars, analystVars
<1>1. ASSUME NEW u \in Tasks, DispatchPipeline(u)
      PROVE  Stored(t)'
  <2>1. u # t
    BY <1>1
  <2>2. store'[t] = store[t]
    BY <1>1, <2>1, SaveFrame DEF DispatchPipeline, TypeInv
  <2> QED BY <1>1, <2>2, BeginsStored DEF DispatchPipeline
<1>2. ASSUME NEW u \in Tasks, Poll(u)
      PROVE  Stored(t)'
  <2>1. UNCHANGED <<store, cfg, analyst, req, verifierVars>>
    BY <1>2 DEF Poll, AwaitHuman, GetResult, DeleteResult
  <2> QED BY <2>1, BeginsStored
<1>3. CASE BreakJournal \/ Tick \/ UNCHANGED vars
  <2>1. UNCHANGED <<store, cfg, analyst, req, verifierVars>>
    BY <1>3 DEF BreakJournal, Tick, vars
  <2> QED BY <2>1, BeginsStored
<1> QED
  BY <1>1, <1>2, <1>3, VerifierStored, TickerStored, AnalystStored, ApiStored DEF Next

(***************************************************************************)
(* The run_pipeline message of a task stays the only thing under way for   *)
(* it until the verifier takes it.                                         *)
(***************************************************************************)
IsRun(m, t) == m.type = "run_pipeline" /\ m.task = t

LEMMA NextFirst ==
    ASSUME NEW t \in Tasks, TypeInv, FirstMessage(t), ~DispatchPipeline(t), [Next]_vars
    PROVE  FirstMessage(t)'
<1>1. inbox \in Seq(Messages) /\ Len(inbox) \in Nat /\ DOMAIN inbox = 1..Len(inbox)
  BY DEF TypeInv, BusType
<1>2. ASSUME NEW k \in DOMAIN inbox, IsRun(inbox[k], t), Untaken(t)
      PROVE  /\ store'[t] = Blank /\ Idle(t)'
             /\ \A j \in DOMAIN inbox : inbox[j].task = t => j = k
  <2>1. /\ store[t] = Blank /\ Idle(t)
        /\ \A j \in DOMAIN inbox : inbox[j].task = t => j = k
    BY <1>2 DEF FirstMessage, IsRun
  <2>2. Shut(t)
    <3>1. Blank.gate = ""
      BY DEF Blank
    <3> QED BY <2>1, <3>1 DEF Shut
  <2> QED BY <1>2, <2>1, <2>2, NextIdle DEF Kept
<1>3. SUFFICES ASSUME NEW k \in DOMAIN inbox', IsRun(inbox'[k], t)
               PROVE  /\ store'[t] = Blank /\ Idle(t)'
                      /\ \A j \in DOMAIN inbox' : inbox'[j].task = t => j = k
  BY DEF FirstMessage, IsRun
<1>4. CASE inbox' = inbox
  <2>1. Untaken(t)
    BY <1>1, <1>4 DEF Untaken
  <2> QED BY <1>2, <1>3, <1>4, <2>1
<1>5. CASE inbox' = <<>>
  BY <1>3, <1>5
<1>6. CASE inbox # <<>> /\ inbox' = Tail(inbox)
  <2>1. /\ Head(inbox) = inbox[1] /\ 1 \in DOMAIN inbox
        /\ \A j \in DOMAIN inbox' : j + 1 \in DOMAIN inbox /\ inbox'[j] = inbox[j + 1]
                                   /\ j \in Nat /\ j + 1 # 1
    BY <1>1, <1>6
  <2>2. k + 1 \in DOMAIN inbox /\ IsRun(inbox[k + 1], t)
    BY <1>3, <2>1
  <2>3. inbox[1].task # t
    BY <2>1, <2>2 DEF FirstMessage, IsRun
  <2>4. Untaken(t)
    BY <2>1, <2>3 DEF Untaken
  <2>5. \A j \in DOMAIN inbox : inbox[j].task = t => j = k + 1
    BY <1>2, <2>2, <2>4
  <2>6. ASSUME NEW j \in DOMAIN inbox', inbox'[j].task = t
        PROVE  j = k
    <3>1. j + 1 = k + 1
      BY <2>1, <2>5, <2>6
    <3> QED BY <2>1, <3>1
  <2> QED BY <1>2, <2>2, <2>4, <2>6
<1>7. ASSUME NEW u \in Tasks, NEW type \in {"run_pipeline"} \cup Operations, Sends(u, type),
             inbox' = Append(inbox, [type |-> type, task |-> u])
      PROVE  /\ store'[t] = Blank /\ Idle(t)'
             /\ \A j \in DOMAIN inbox' : inbox'[j].task = t => j = k
  <2>1. /\ DOMAIN inbox' = 1..(Len(inbox) + 1)
        /\ inbox'[Len(inbox) + 1] = [type |-> type, task |-> u]
        /\ \A j \in DOMAIN inbox : inbox'[j] = inbox[j]
    BY <1>1, <1>7, AppendProperties
  <2>2. Untaken(t)
    BY <1>1, <1>7, <2>1 DEF Untaken
  <2>3. k # Len(inbox) + 1
    BY <1>3, <1>7, <2>1 DEF Sends, IsRun, Operations
  <2>4. k \in DOMAIN inbox /\ IsRun(inbox[k], t)
    BY <1>1, <1>3, <2>1, <2>3
  <2>5. Idle(t)
    BY <2>4 DEF FirstMessage, IsRun
  <2>6. u # t
    BY <1>7, <2>5 DEF Sends, Idle
  <2>7. \A j \in DOMAIN inbox' : inbox'[j].task = t => j \in DOMAIN inbox
    BY <1>1, <2>1, <2>6
  <2> QED BY <1>2, <2>1, <2>2, <2>4, <2>7
<1>8. ASSUME NEW u \in Tasks, NEW type \in {"run_pipeline"} \cup Operations, Sends(u, type)
      PROVE  inbox' = inbox \/ inbox' = Append(inbox, [type |-> type, task |-> u])
  BY <1>8 DEF Sends, Send, Delivered
<1> QED BY <1>4, <1>5, <1>6, <1>7, <1>8, NextInbox DEF InboxStep

LEMMA DispatchPinned ==
    ASSUME NEW t \in Tasks, TypeInv, Elsewhere(t), DispatchPipeline(t)
    PROVE  Stored(t)' /\ FirstMessage(t)'
<1>1. UNCHANGED <<verifierVars, analyst, abox, req>>
  BY DEF DispatchPipeline, analystVars
<1>2. store'[t] = Blank /\ Blank # NoState
  BY BlankType, NoStateAssumption DEF DispatchPipeline, Save, TypeInv, StoreType
<1>3. Idle(t)'
  BY <1>1 DEF Elsewhere, Idle, verifierVars
<1>4. Stored(t)'
  <2>1. AnalystAgrees(t)' /\ RequestsAgree(t)'
    BY <1>1 DEF Elsewhere, Idle, AnalystAgrees, RequestsAgree
  <2>2. VerifierAgrees(t)'
    BY <1>1 DEF Elsewhere, Idle, VerifierAgrees, Holding, Executing, verifierVars
  <2> QED BY <1>2, <2>1, <2>2 DEF Stored, Agree
<1>5. inbox \in Seq(MessagesTo(Tasks \ {t})) /\ Len(inbox) \in Nat
      /\ DOMAIN inbox = 1..Len(inbox)
  BY LenProperties DEF Elsewhere
<1>6. \A k \in DOMAIN inbox : inbox[k].task # t
  <2> TAKE k \in DOMAIN inbox
  <2>1. inbox[k] \in MessagesTo(Tasks \ {t})
    BY <1>5, ElementOfSeq
  <2> QED BY <2>1 DEF MessagesTo
<1>7. ASSUME NEW k \in DOMAIN inbox', NEW j \in DOMAIN inbox',
             inbox'[k].task = t, inbox'[j].task = t
      PROVE  j = k
  <2> DEFINE m == [type |-> "run_pipeline", task |-> t]
  <2>1. inbox' = inbox \/ inbox' = Append(inbox, m)
    BY DEF DispatchPipeline, Send, Delivered
  <2>2. CASE inbox' = inbox
    BY <1>6, <1>7, <2>2
  <2>3. CASE inbox' = Append(inbox, m)
    <3>1. /\ DOMAIN inbox' = 1..(Len(inbox) + 1)
          /\ \A i \in DOMAIN inbox : inbox'[i] = inbox[i]
      BY <1>5, <2>3, AppendProperties
    <3>2. k \notin DOMAIN inbox /\ j \notin DOMAIN inbox
      BY <1>6, <1>7, <3>1
    <3> QED BY <1>5, <3>1, <3>2
  <2> QED BY <2>1, <2>2, <2>3
<1> QED BY <1>2, <1>3, <1>4, <1>7 DEF FirstMessage

LEMMA CrashPinned ==
    ASSUME TypeInv, Pinning, Crash
    PROVE  Pinning'
<1>1. /\ UNCHANGED <<store, submitted>> /\ inbox' = <<>> /\ abox' = <<>> /\ vpc' = "idle"
      /\ analyst'.pc = "idle" /\ \A r \in Requests : req'[r].pc # "read"
  BY DEF Crash, Return, TypeInv, AnalystType, RequestType
<1>2. \A t : Elsewhere(t)'
  BY <1>1, EmptySeq DEF Elsewhere, Idle
<1>3. \A t : Agree(t)' /\ FirstMessage(t)'
  BY <1>1 DEF Agree, VerifierAgrees, AnalystAgrees, RequestsAgree, FirstMessage, Holding, Executing
<1>4. \A t \in Tasks : Pinned(t)'
  BY <1>2, <1>3 DEF Pinned, Stored
<1> QED BY <1>1, <1>2, <1>4 DEF Pinning, Executing

(***************************************************************************)
(* No run is executed while its definition is gone.                        *)
(***************************************************************************)
LEMMA NotStarted ==
    ASSUME TypeInv, cfg = 0, vpc \notin Executing, [Next]_vars
    PROVE  vpc' \notin Executing
<1> USE DEF Executing
<1>1. \A t, st : storeError(t) \/ failAuditExecution(t, st) \/ resumeFromState(t, st)
                   => vpc' = "idle"
  BY DEF storeError, failAuditExecution, resumeFromState, Return
<1>2. CASE handleRunPipeline
  BY <1>1, <1>2 DEF handleRunPipeline, Return
<1>3. \A decision : handleHumanDecision(decision) => vpc' \in {"idle", "decision"}
  BY <1>1 DEF handleHumanDecision
<1>4. CASE SaveDecision \/ SaveCallback \/ SaveExpired
  BY <1>1, <1>4 DEF SaveDecision, SaveCallback, SaveExpired, Return
<1>5. CASE handleCallback
  BY <1>5 DEF handleCallback, MatchCallback, verifierVars
<1>6. CASE executeLinear
  <2>1. LoadFailed \/ SaveFailed
    BY <1>6 DEF executeLinear, LoadState, SkipStep, SendToAnalyst, PassGate, PauseAtGate,
                AwaitCallback, InternalTool, StartTool, Invoke, ToolSucceeds, AgentFails,
                ToolFails, AtStep
  <2> QED BY <2>1 DEF LoadFailed, SaveFailed, Goto, Return
<1>7. CASE Verifier
  BY <1>2, <1>3, <1>4, <1>5, <1>6, <1>7 DEF Verifier
<1>8. ASSUME NEW t \in Tasks, Ticker(t)
      PROVE  vpc' \notin Executing
  BY <1>8 DEF Ticker, recoverPendingCallbacks, expireAwaitingCallbacks, MatchCallback
<1>9. ASSUME NEW t \in Tasks, DispatchPipeline(t) \/ Poll(t)
      PROVE  vpc' = vpc
  BY <1>9 DEF DispatchPipeline, Poll, AwaitHuman, GetResult, DeleteResult, verifierVars
<1>10. ASSUME NEW r \in Requests, Api(r)
       PROVE  vpc' = vpc
  BY <1>10 DEF Api, ReadCallback, ReadDecision, AcceptCallback, SendDecision, apiUnchanged,
               verifierVars
<1>11. CASE Analyst \/ BreakJournal \/ Tick \/ UNCHANGED vars
  BY <1>11 DEF Analyst, LoadCompletion, SaveCompletion, BreakJournal, Tick, vars, verifierVars
<1>12. CASE Crash
  BY <1>12 DEF Crash, Return
<1> QED BY <1>7, <1>8, <1>9, <1>10, <1>11, <1>12 DEF Next

(***************************************************************************)
(* Definitions change only across a restart, and a dispatched task stays   *)
(* dispatched.                                                             *)
(***************************************************************************)
LEMMA NextEnvironment ==
    ASSUME TypeInv, [Next]_vars
    PROVE  submitted \subseteq submitted' /\ (~Crash => UNCHANGED cfg)
<1> USE DEF envVars
<1>1. CASE Verifier
  <2>1. CASE \/ handleRunPipeline \/ handleCallback
             \/ handleHumanDecision("approved") \/ handleHumanDecision("rejected")
    BY <2>1 DEF handleRunPipeline, handleHumanDecision, handleCallback
  <2>2. CASE SaveDecision \/ SaveCallback \/ SaveExpired \/ executeLinear
    <3>1. UNCHANGED submitted
      BY <2>2, WorkingSteps DEF Working
    <3>2. UNCHANGED cfg
      BY <2>2 DEF SaveDecision, SaveCallback, SaveExpired, executeLinear, LoadState, SkipStep,
                  SendToAnalyst, PassGate, PauseAtGate, AwaitCallback, InternalTool, StartTool,
                  Invoke, ToolSucceeds, AgentFails, ToolFails, LoadFailed, SaveFailed,
                  runUnchanged
    <3> QED BY <3>1, <3>2
  <2> QED BY <1>1, <2>1, <2>2 DEF Verifier
<1>2. ASSUME NEW t \in Tasks, DispatchPipeline(t) \/ Ticker(t) \/ Poll(t)
      PROVE  submitted \subseteq submitted' /\ UNCHANGED cfg
  BY <1>2 DEF DispatchPipeline, Ticker, recoverPendingCallbacks, expireAwaitingCallbacks, Poll,
              AwaitHuman, GetResult, DeleteResult
<1>3. ASSUME NEW r \in Requests, Api(r)
      PROVE  UNCHANGED <<submitted, cfg>>
  BY <1>3 DEF Api, ReadCallback, ReadDecision, AcceptCallback, SendDecision, apiUnchanged
<1>4. CASE Analyst \/ BreakJournal \/ Tick \/ UNCHANGED vars
  BY <1>4 DEF Analyst, LoadCompletion, SaveCompletion, runUnchanged, BreakJournal, Tick, vars
<1>5. CASE Crash
  BY <1>5 DEF Crash
<1> QED BY <1>1, <1>2, <1>3, <1>4, <1>5 DEF Next

LEMMA NextPinning == TypeInv /\ Pinning /\ [Next]_vars => Pinning'
<1> SUFFICES ASSUME TypeInv, Pinning, [Next]_vars, ~Crash PROVE Pinning'
  BY CrashPinned
<1>1. submitted \subseteq submitted' /\ UNCHANGED cfg
  BY NextEnvironment
<1>2. ASSUME NEW t \in Tasks, Elsewhere(t), store[t] = NoState, ~DispatchPipeline(t)
      PROVE  Elsewhere(t)' /\ store'[t] = NoState
  BY <1>2, NextElsewhere DEF Shut, Kept
<1>3. ASSUME NEW t \in Tasks \ submitted'
      PROVE  Elsewhere(t)' /\ store'[t] = NoState
  <2>1. t \notin submitted /\ ~DispatchPipeline(t)
    BY <1>1, <1>3 DEF DispatchPipeline
  <2> QED BY <1>2, <2>1 DEF Pinning
<1>4. ASSUME cfg # 0, NEW t \in Tasks
      PROVE  Pinned(t)'
  <2>1. CASE DispatchPipeline(t)
    <3>1. Elsewhere(t)
      BY <2>1 DEF DispatchPipeline, Pinning
    <3> QED BY <2>1, <3>1, DispatchPinned DEF Pinned
  <2>2. CASE ~DispatchPipeline(t) /\ Elsewhere(t) /\ store[t] = NoState
    BY <1>2, <2>2 DEF Pinned
  <2>3. CASE ~DispatchPipeline(t) /\ Stored(t) /\ FirstMessage(t)
    BY <1>4, <2>3, NextStored, NextFirst DEF Pinned
  <2> QED BY <1>4, <2>1, <2>2, <2>3 DEF Pinning, Pinned
<1>5. vpc' \in Executing => cfg' # 0
  BY <1>1, NotStarted DEF Pinning
<1> QED BY <1>1, <1>3, <1>4, <1>5 DEF Pinning

LEMMA InitPinning == Init => Pinning
<1> SUFFICES ASSUME Init PROVE Pinning
  OBVIOUS
<1>1. \A t \in Tasks : Elsewhere(t) /\ store[t] = NoState
  BY EmptySeq DEF Init, Elsewhere, Idle
<1> QED BY <1>1 DEF Init, Pinning, Pinned, Executing

(***************************************************************************)
(* The definition whose steps run is the one the manifest recorded,        *)
(* however many restarts and edits lie between: ensurePipelineManifest     *)
(* writes the version before the first step, no handler loses it, and      *)
(* resumeFromState compares it with the loaded one.                        *)
(***************************************************************************)
THEOREM OneDefinitionPerRun == Spec => []PinnedVersion
<1>1. TypeInv /\ Pinning => PinnedVersion
  <2> SUFFICES ASSUME TypeInv, Pinning, vpc \in {"loop", "invoke", "calling"}
               PROVE  vst.version = cfg /\ cfg # 0
    BY DEF PinnedVersion
  <2>1. cfg # 0 /\ vpc \in Executing /\ vpc \in Holding /\ vtask \in Tasks
    BY DEF Pinning, Executing, Holding, TypeInv, VerifierType
  <2>2. Pinned(vtask) /\ ~Elsewhere(vtask)
    BY <2>1 DEF Pinning, Elsewhere, Idle
  <2>3. VerifierAgrees(vtask)
    BY <2>2 DEF Pinned, Stored, Agree
  <2> QED BY <2>1, <2>3 DEF VerifierAgrees
<1>2. Spec => []TypeInv
  BY InitType, NextType, PTL DEF Spec
<1> QED BY <1>1, <1>2, InitPinning, NextPinning, PTL DEF Spec
-----------------------------------------------------------------------------
(***************************************************************************)
(* Bus.Send adds at most the message it is given.                          *)
(***************************************************************************)
LEMMA CopiesDelivered ==
    ASSUME NEW S, NEW box \in Seq(S), NEW x \in S, NEW m
    PROVE  Copies(Delivered(box, x), m) <= Copies(box, m) + (IF x = m THEN 1 ELSE 0)
<1>1. Copies(box, m) \in Nat
  BY CopiesType
<1> QED BY <1>1, CopiesAppend DEF Delivered

(***************************************************************************)
(* The approvals of a task that have left the API, and what is left of     *)
(* them once those are taken away that no goroutine has acted on yet: the  *)
(* messages in the verifier's inbox and the one it is handling.            *)
(***************************************************************************)
Answered == {r \in Requests : req[r].pc # "new"}

Decided(t) == {r \in Requests : req[r].pc = "done" /\ req[r].op = "approved" /\ req[r].task = t}

Message(type, t) == [type |-> type, task |-> t]

Approving(t) == vpc = "decision" /\ varg = "approved" /\ vtask = t

Spent(t) ==
    Cardinality(Decided(t)) - Copies(inbox, Message("approved", t))
                            - (IF Approving(t) THEN 1 ELSE 0)

(***************************************************************************)
(* A request is answered once: what it was stays known.                    *)
(***************************************************************************)
LEMMA NextRequests ==
    ASSUME TypeInv, [Next]_vars
    PROVE  /\ \A r \in Requests :
                 req[r].pc = "done" => /\ req'[r].pc = "done"
                                       /\ req'[r].op = req[r].op /\ req'[r].task = req[r].task
           /\ \E r : Answered' \subseteq Answered \cup {r}
<1> USE DEF analystVars, runUnchanged, Answered
<1>1. CASE UNCHANGED req
  BY <1>1
<1>2. ASSUME NEW r \in Requests, Api(r), ~UNCHANGED req
      PROVE  /\ \A q \in Requests : q # r => req'[q] = req[q]
             /\ req[r].pc # "done"
  <2>1. (\E op, t : Read(r, op, t)) \/ (req[r].pc = "read" /\ Done(r))
    BY <1>2 DEF Api, ReadCallback, ReadDecision, AcceptCallback, SendDecision
  <2> QED BY <2>1 DEF TypeInv, RequestType, Read, Done
<1>3. CASE Crash
  <2>1. \A r \in Requests :
           /\ req[r].pc = "new" => req'[r] = req[r]
           /\ req'[r].op = req[r].op /\ req'[r].task = req[r].task
           /\ req[r].pc = "done" => req'[r].pc = "done"
    BY <1>3 DEF Crash, TypeInv, RequestType
  <2>2. Answered' \subseteq Answered
    BY <2>1
  <2> QED BY <2>1, <2>2
<1>4. CASE Verifier
  <2>1. CASE \/ handleRunPipeline \/ handleCallback
             \/ handleHumanDecision("approved") \/ handleHumanDecision("rejected")
    BY <1>1, <2>1 DEF handleRunPipeline, handleHumanDecision, handleCallback
  <2>2. CASE SaveDecision \/ SaveCallback \/ SaveExpired \/ executeLinear
    BY <1>1, <2>2, WorkingSteps DEF Working
  <2> QED BY <1>4, <2>1, <2>2 DEF Verifier
<1>5. ASSUME NEW t \in Tasks, DispatchPipeline(t) \/ Ticker(t) \/ Poll(t)
      PROVE  UNCHANGED req
  BY <1>5 DEF DispatchPipeline, Ticker, recoverPendingCallbacks, expireAwaitingCallbacks, Poll,
              AwaitHuman, GetResult, DeleteResult
<1>6. CASE Analyst \/ BreakJournal \/ Tick \/ UNCHANGED vars
  BY <1>1, <1>6 DEF Analyst, LoadCompletion, SaveCompletion, BreakJournal, Tick, vars
<1>7. CASE \E r \in Requests : Api(r)
  BY <1>1, <1>2, <1>7
<1> QED BY <1>1, <1>3, <1>4, <1>5, <1>6, <1>7 DEF Next

LEMMA InitAnswered == Init => IsFiniteSet(Answered)
<1> SUFFICES ASSUME Init PROVE IsFiniteSet(Answered)
  OBVIOUS
<1>1. Answered = {}
  BY DEF Init, Answered
<1> QED BY <1>1, FS_EmptySet

LEMMA NextAnswered == TypeInv /\ IsFiniteSet(Answered) /\ [Next]_vars => IsFiniteSet(Answered)'
<1> SUFFICES ASSUME TypeInv, IsFiniteSet(Answered), [Next]_vars PROVE IsFiniteSet(Answered')
  OBVIOUS
<1>1. PICK r : Answered' \subseteq Answered \cup {r}
  BY NextRequests
<1>2. IsFiniteSet(Answered \cup {r})
  BY FS_AddElement
<1> HIDE DEF Answered
<1> QED BY <1>1, <1>2, FS_Subset

LEMMA DecidedType ==
    ASSUME IsFiniteSet(Answered), NEW t
    PROVE  IsFiniteSet(Decided(t)) /\ Cardinality(Decided(t)) \in Nat
<1>1. Decided(t) \subseteq Answered
  BY DEF Decided, Answered
<1> QED BY <1>1, FS_Subset, FS_CardinalityType

(***************************************************************************)
(* What a step does to the messages for a task and to its approvals.       *)
(***************************************************************************)
LEMMA SendCopies ==
    ASSUME TypeInv, NEW u \in Tasks, NEW type \in {"run_pipeline"} \cup Operations, Send(type, u),
           NEW m
    PROVE  /\ Copies(inbox, m) \in Nat /\ Copies(inbox', m) \in Nat
           /\ Copies(inbox', m) <= Copies(inbox, m) + (IF m = Message(type, u) THEN 1 ELSE 0)
<1>1. inbox \in Seq(Messages) /\ Message(type, u) \in Messages
  BY DEF TypeInv, BusType, Message, Messages, Operations
<1>2. inbox' = Delivered(inbox, Message(type, u))
  BY DEF Send, Message
<1>3. inbox' \in Seq(Messages)
  BY <1>1, <1>2, DeliveredType
<1>4. Copies(inbox, m) \in Nat /\ Copies(inbox', m) \in Nat
  BY <1>1, <1>3, CopiesType
<1>5. Copies(inbox', m) <= Copies(inbox, m) + (IF Message(type, u) = m THEN 1 ELSE 0)
  BY <1>1, <1>2, CopiesDelivered
<1>6. CASE m = Message(type, u)
  BY <1>4, <1>5, <1>6
<1>7. CASE m # Message(type, u)
  BY <1>4, <1>5, <1>7
<1> QED BY <1>6, <1>7

LEMMA ReceiveCopies ==
    ASSUME TypeInv, NEW type, Receive(type), NEW m
    PROVE  /\ Copies(inbox, m) \in Nat /\ Copies(inbox', m) \in Nat
           /\ Head(inbox) = Message(type, Head(inbox).task) /\ Head(inbox).task \in Tasks
           /\ m = Head(inbox) => Copies(inbox, m) = Copies(inbox', m) + 1
           /\ m # Head(inbox) => Copies(inbox, m) = Copies(inbox', m)
<1>1. inbox \in Seq(Messages) /\ inbox # <<>> /\ inbox' = Tail(inbox)
  BY DEF Receive, TypeInv, BusType
<1>2. Head(inbox) \in Messages /\ inbox' \in Seq(Messages)
  BY <1>1, HeadTailType
<1>3. Head(inbox) = Message(type, Head(inbox).task) /\ Head(inbox).task \in Tasks
  BY <1>2 DEF Messages, Message, Receive
<1>4. Copies(inbox, m) \in Nat /\ Copies(inbox', m) \in Nat
  BY <1>1, <1>2, CopiesType
<1>5. Copies(inbox, m) = Copies(inbox', m) + (IF Head(inbox) = m THEN 1 ELSE 0)
  BY <1>1, CopiesTail
<1>6. m = Head(inbox) => Copies(inbox, m) = Copies(inbox', m) + 1
  BY <1>4, <1>5
<1>7. m # Head(inbox) => Copies(inbox, m) = Copies(inbox', m)
  BY <1>4, <1>5
<1> QED BY <1>3, <1>4, <1>6, <1>7

(***************************************************************************)
(* Approvals are only added, and an approval is spent when the run is      *)
(* resumed on it: Spent never goes back, whatever is dropped or lost.      *)
(***************************************************************************)
LEMMA SpentType ==
    ASSUME TypeInv, IsFiniteSet(Answered), NEW t
    PROVE  /\ Spent(t) \in Int
           /\ Cardinality(Decided(t)) \in Nat
           /\ Copies(inbox, Message("approved", t)) \in Nat
           /\ Spent(t) <= Cardinality(Admitted(t, "approved"))
<1>1. inbox \in Seq(Messages)
  BY DEF TypeInv, BusType
<1>2. Cardinality(Decided(t)) \in Nat /\ Copies(inbox, Message("approved", t)) \in Nat
  BY <1>1, DecidedType, CopiesType
<1>3. Admitted(t, "approved") \subseteq Answered /\ Decided(t) \subseteq Admitted(t, "approved")
  BY DEF Admitted, Answered, Decided
<1>4. /\ Cardinality(Admitted(t, "approved")) \in Nat
      /\ Cardinality(Decided(t)) <= Cardinality(Admitted(t, "approved"))
  BY <1>3, FS_Subset, FS_CardinalityType
<1> QED BY <1>2, <1>4 DEF Spent

LEMMA DecidedGrows ==
    ASSUME TypeInv, IsFiniteSet(Answered), [Next]_vars, NEW t
    PROVE  /\ Cardinality(Decided(t)) \in Nat /\ Cardinality(Decided(t)') \in Nat
           /\ Cardinality(Decided(t)') >= Cardinality(Decided(t))
<1>1. IsFiniteSet(Answered)'
  BY NextAnswered
<1>2. Decided(t)' \subseteq Answered'
  BY DEF Decided, Answered
<1>3. Decided(t) \subseteq Decided(t)'
  BY NextRequests DEF Decided
<1> HIDE DEF Decided, Answered
<1>4. IsFiniteSet(Decided(t)') /\ Cardinality(Decided(t)') \in Nat
  BY <1>1, <1>2, FS_Subset, FS_CardinalityType
<1>5. IsFiniteSet(Decided(t)) /\ Cardinality(Decided(t)) <= Cardinality(Decided(t)')
  BY <1>3, <1>4, FS_Subset
<1> QED BY <1>4, <1>5, FS_CardinalityType

LEMMA SpentKept ==
    ASSUME TypeInv, IsFiniteSet(Answered), [Next]_vars, NEW t,
           \/ Copies(inbox', Message("approved", t)) \in Nat
              /\ Copies(inbox', Message("approved", t)) <= Copies(inbox, Message("approved", t))
           \/ UNCHANGED inbox,
           Approving(t)' => Approving(t)
    PROVE  Spent(t)' >= Spent(t)
<1> DEFINE c == Copies(inbox, Message("approved", t))
           d == Copies(inbox', Message("approved", t))
<1>1. Cardinality(Decided(t)) \in Nat /\ Cardinality(Decided(t)') \in Nat
      /\ Cardinality(Decided(t)') >= Cardinality(Decided(t))
  BY DecidedGrows
<1>2. c \in Nat
  BY SpentType
<1>3. d \in Nat /\ d <= c
  BY <1>2
<1>4. /\ Spent(t) = Cardinality(Decided(t)) - c - (IF Approving(t) THEN 1 ELSE 0)
      /\ Spent(t)' = Cardinality(Decided(t)') - d - (IF Approving(t)' THEN 1 ELSE 0)
  BY DEF Spent, Message
<1> HIDE DEF c, d
<1> QED BY <1>1, <1>2, <1>3, <1>4

(***************************************************************************)
(* Only handleHumanDecision takes up a decision.                           *)
(***************************************************************************)
LEMMA WorkTakesNone ==
    ASSUME SaveDecision \/ SaveCallback \/ SaveExpired \/ executeLinear
    PROVE  vpc' # "decision" /\ UNCHANGED inbox
<1> USE DEF runUnchanged
<1>1. /\ \A t, st : storeError(t) \/ failAuditExecution(t, st) \/ resumeFromState(t, st)
                       => vpc' # "decision"
      /\ Return \/ Advance => vpc' # "decision"
  BY DEF storeError, failAuditExecution, resumeFromState, Return, Goto, Advance
<1>2. CASE SaveDecision \/ SaveCallback \/ SaveExpired
  BY <1>1, <1>2 DEF SaveDecision, SaveCallback, SaveExpired
<1>3. CASE LoadState \/ LoadFailed \/ Invoke
  BY <1>3 DEF LoadState, LoadFailed, Invoke, Goto
<1>4. CASE SkipStep \/ PassGate \/ InternalTool \/ ToolSucceeds
  BY <1>1, <1>4 DEF SkipStep, PassGate, InternalTool, ToolSucceeds
<1>5. CASE SendToAnalyst \/ SaveFailed
  BY <1>1, <1>5 DEF SendToAnalyst, SaveFailed
<1>6. CASE PauseAtGate \/ AwaitCallback
  BY <1>1, <1>6 DEF PauseAtGate, AwaitCallback
<1>7. CASE StartTool
  BY <1>1, <1>7 DEF StartTool, Goto
<1>8. CASE AgentFails \/ ToolFails
  BY <1>1, <1>8 DEF AgentFails, ToolFails
<1> QED BY <1>2, <1>3, <1>4, <1>5, <1>6, <1>7, <1>8 DEF executeLinear

LEMMA SpentGrows ==
    ASSUME TypeInv, IsFiniteSet(Answered), [Next]_vars, NEW t \in Tasks
    PROVE  /\ Spent(t) \in Int /\ Spent(t)' \in Int
           /\ Spent(t)' >= Spent(t)
           /\ SaveDecision /\ Approving(t) => Spent(t)' >= Spent(t) + 1
<1> DEFINE m == Message("approved", t)
<1>0. Spent(t) \in Int /\ Spent(t)' \in Int
  <2>1. (TypeInv /\ IsFiniteSet(Answered))'
    BY NextType, NextAnswered
  <2>2. (TypeInv /\ IsFiniteSet(Answered) => Spent(t) \in Int)'
    BY SpentType, PTL
  <2> QED BY <2>1, <2>2, SpentType
<1>1. ASSUME SaveDecision, Approving(t) PROVE Spent(t)' >= Spent(t) + 1
  <2>1. Approving(t)' = FALSE /\ UNCHANGED inbox
    BY <1>1, WorkTakesNone DEF Approving
  <2>2. /\ Cardinality(Decided(t)) \in Nat /\ Cardinality(Decided(t)') \in Nat
        /\ Cardinality(Decided(t)') >= Cardinality(Decided(t))
        /\ Copies(inbox, m) \in Nat
    BY DecidedGrows, SpentType
  <2>3. /\ Spent(t) = Cardinality(Decided(t)) - Copies(inbox, m) - 1
        /\ Spent(t)' = Cardinality(Decided(t)') - Copies(inbox, m) - 0
    BY <1>1, <2>1 DEF Spent, Message
  <2> QED BY <2>2, <2>3
<1>2. CASE Verifier
  <2>1. CASE SaveDecision \/ SaveCallback \/ SaveExpired \/ executeLinear
    <3>1. ~Approving(t)' /\ UNCHANGED inbox
      BY <2>1, WorkTakesNone DEF Approving
    <3> QED BY <1>0, <1>1, <3>1, SpentKept
  <2>2. CASE handleRunPipeline \/ handleCallback
    <3>1. \E type \in {"run_pipeline", "callback_received"} : Receive(type)
      BY <2>2 DEF handleRunPipeline, handleCallback
    <3>2. Copies(inbox, m) \in Nat /\ Copies(inbox', m) \in Nat
          /\ Copies(inbox', m) <= Copies(inbox, m)
      BY <3>1, ReceiveCopies
    <3>3. ~Approving(t)'
      <4>1. \A u, st : failAuditExecution(u, st) => vpc' # "decision"
        BY DEF failAuditExecution, Return
      <4> QED BY <2>2, <4>1 DEF handleRunPipeline, handleCallback, Receive, Return, MatchCallback,
                                Approving, verifierVars
    <3> QED BY <1>0, <1>1, <3>2, <3>3, SpentKept
  <2>3. CASE handleHumanDecision("rejected")
    <3>1. Receive("rejected")
      BY <2>3 DEF handleHumanDecision
    <3>2. Copies(inbox, m) \in Nat /\ Copies(inbox', m) \in Nat
          /\ Copies(inbox', m) <= Copies(inbox, m)
      BY <3>1, ReceiveCopies
    <3>3. ~Approving(t)'
      BY <2>3 DEF handleHumanDecision, storeError, Return, Approving
    <3> QED BY <1>0, <1>1, <3>2, <3>3, SpentKept
  <2>4. CASE handleHumanDecision("approved")
    <3> DEFINE u == Head(inbox).task
    <3>1. Receive("approved") /\ vpc = "idle"
      BY <2>4 DEF handleHumanDecision, Receive
    <3>2. /\ Copies(inbox, m) \in Nat /\ Copies(inbox', m) \in Nat
          /\ Head(inbox) = Message("approved", u)
          /\ m = Head(inbox) => Copies(inbox, m) = Copies(inbox', m) + 1
          /\ m # Head(inbox) => Copies(inbox, m) = Copies(inbox', m)
      BY <3>1, ReceiveCopies
    <3>3. Approving(t)' => t = u
      BY <2>4 DEF handleHumanDecision, storeError, Return, Approving
    <3>4. CASE u # t
      <4>1. m # Head(inbox)
        BY <3>2, <3>4 DEF Message
      <4> QED BY <1>0, <1>1, <3>2, <3>3, <3>4, <4>1, SpentKept
    <3>5. CASE u = t
      <4>1. Copies(inbox, m) = Copies(inbox', m) + 1 /\ ~Approving(t)
        BY <3>1, <3>2, <3>5 DEF Approving
      <4>2. /\ Cardinality(Decided(t)) \in Nat /\ Cardinality(Decided(t)') \in Nat
            /\ Cardinality(Decided(t)') >= Cardinality(Decided(t))
        BY DecidedGrows
      <4>3. /\ Spent(t) = Cardinality(Decided(t)) - Copies(inbox, m) - 0
            /\ Spent(t)' = Cardinality(Decided(t)') - Copies(inbox', m)
                                                    - (IF Approving(t)' THEN 1 ELSE 0)
        BY <4>1 DEF Spent, Message
      <4>4. ~SaveDecision
        BY <3>1 DEF SaveDecision
      <4> HIDE DEF m
      <4> QED BY <1>0, <3>2, <4>1, <4>2, <4>3, <4>4
    <3> QED BY <3>4, <3>5
  <2> QED BY <1>2, <2>1, <2>2, <2>3, <2>4 DEF Verifier
<1>3. ASSUME NEW u \in Tasks, DispatchPipeline(u)
      PROVE  Spent(t)' >= Spent(t)
  <2>1. Send("run_pipeline", u) /\ UNCHANGED <<vpc, varg, vtask>>
    BY <1>3 DEF DispatchPipeline, verifierVars
  <2>2. m # Message("run_pipeline", u)
    BY DEF Message
  <2>3. Copies(inbox, m) \in Nat /\ Copies(inbox', m) \in Nat
        /\ Copies(inbox', m) <= Copies(inbox, m)
    BY <2>1, <2>2, SendCopies
  <2> QED BY <2>1, <2>3, SpentKept DEF Approving
<1>4. ASSUME NEW u \in Tasks, Ticker(u) \/ Poll(u)
      PROVE  Spent(t)' >= Spent(t)
  <2>1. UNCHANGED inbox /\ (UNCHANGED <<vpc, varg, vtask>> \/ vpc' # "decision")
    BY <1>4 DEF Ticker, recoverPendingCallbacks, expireAwaitingCallbacks, MatchCallback, Poll,
                AwaitHuman, GetResult, DeleteResult, verifierVars
  <2> QED BY <2>1, SpentKept DEF Approving
<1>5. CASE Analyst \/ BreakJournal \/ Tick \/ UNCHANGED vars
  <2>1. UNCHANGED <<inbox, vpc, varg, vtask>>
    BY <1>5 DEF Analyst, LoadCompletion, SaveCompletion, runUnchanged, BreakJournal, Tick, vars,
                verifierVars
  <2> QED BY <1>0, <1>1, <2>1, SpentKept DEF Approving
<1>6. CASE Crash
  <2>1. Copies(inbox, m) \in Nat /\ Copies(inbox', m) = 0
    BY <1>6, CopiesEmpty, SpentType DEF Crash
  <2>2. ~Approving(t)'
    BY <1>6 DEF Crash, Return, Approving
  <2> QED BY <1>0, <1>1, <2>1, <2>2, SpentKept
<1>7. ASSUME NEW r \in Requests, Api(r)
      PROVE  Spent(t)' >= Spent(t)
  <2>1. UNCHANGED <<vpc, varg, vtask>>
    BY <1>7 DEF Api, ReadCallback, ReadDecision, AcceptCallback, SendDecision, apiUnchanged,
                verifierVars
  <2>2. Approving(t)' = Approving(t)
    BY <2>1 DEF Approving
  <2>3. CASE UNCHANGED inbox
    BY <2>2, <2>3, SpentKept
  <2>4. CASE AcceptCallback(r) \/ SendDecision(r)
    <3>1. /\ req[r].pc = "read" /\ Done(r) /\ Send(req[r].op, req[r].task)
          /\ req[r].op \in Operations /\ req[r].task \in Tasks
      BY <2>4 DEF AcceptCallback, SendDecision, TypeInv, RequestType
    <3>2. /\ Copies(inbox, m) \in Nat /\ Copies(inbox', m) \in Nat
          /\ Copies(inbox', m) <= Copies(inbox, m)
                                    + (IF m = Message(req[r].op, req[r].task) THEN 1 ELSE 0)
      BY <3>1, SendCopies
    <3>3. CASE m # Message(req[r].op, req[r].task)
      BY <2>2, <3>2, <3>3, SpentKept
    <3>4. CASE m = Message(req[r].op, req[r].task)
      <4>1. req[r].op = "approved" /\ req[r].task = t
        BY <3>4 DEF Message
      <4>2. r \notin Decided(t) /\ r \in Decided(t)' /\ Decided(t) \subseteq Decided(t)'
        <5>1. req'[r].pc = "done" /\ req'[r].op = "approved" /\ req'[r].task = t
          BY <3>1, <4>1 DEF Done, TypeInv, RequestType
        <5> QED BY <3>1, <5>1, NextRequests DEF Decided
      <4>3. IsFiniteSet(Decided(t)) /\ IsFiniteSet(Decided(t)')
        <5>1. (IsFiniteSet(Answered) => IsFiniteSet(Decided(t)))'
          BY DecidedType, PTL
        <5> QED BY <5>1, DecidedType, NextAnswered
      <4>4. Cardinality(Decided(t)') >= Cardinality(Decided(t)) + 1
        <5> DEFINE more == Decided(t) \cup {r}
        <5>1. IsFiniteSet(more) /\ Cardinality(more) = Cardinality(Decided(t)) + 1
          BY <4>2, <4>3, FS_AddElement
        <5>2. more \subseteq Decided(t)'
          BY <4>2
        <5> HIDE DEF more
        <5>3. Cardinality(more) <= Cardinality(Decided(t)')
          BY <4>3, <5>2, FS_Subset
        <5> QED BY <5>1, <5>3
      <4>5. Cardinality(Decided(t)) \in Nat /\ Cardinality(Decided(t)') \in Nat
        BY DecidedGrows
      <4>6. Copies(inbox', m) <= Copies(inbox, m) + 1
        BY <3>2, <3>4
      <4>7. /\ Spent(t) = Cardinality(Decided(t)) - Copies(inbox, m)
                                                  - (IF Approving(t) THEN 1 ELSE 0)
            /\ Spent(t)' = Cardinality(Decided(t)') - Copies(inbox', m)
                                                    - (IF Approving(t) THEN 1 ELSE 0)
        BY <2>2 DEF Spent, Message
      <4> HIDE DEF m
      <4> QED BY <3>2, <4>4, <4>5, <4>6, <4>7
    <3> QED BY <3>3, <3>4
  <2>5. UNCHANGED inbox \/ AcceptCallback(r) \/ SendDecision(r)
    BY <1>7 DEF Api, ReadCallback, ReadDecision
  <2> QED BY <2>3, <2>4, <2>5
<1> QED BY <1>0, <1>1, <1>2, <1>3, <1>4, <1>5, <1>6, <1>7 DEF Next

(***************************************************************************)
(* The pipeline never changes.                                             *)
(***************************************************************************)
LEMMA NextSteps == [Next]_vars => UNCHANGED steps
<1> SUFFICES ASSUME [Next]_vars PROVE UNCHANGED steps
  OBVIOUS
<1> USE DEF runUnchanged, envVars, apiUnchanged
<1>1. CASE executeLinear
  BY <1>1 DEF executeLinear, LoadState, SkipStep, SendToAnalyst, PassGate, PauseAtGate,
     AwaitCallback, InternalTool, StartTool, Invoke, ToolSucceeds, AgentFails, ToolFails,
     LoadFailed, SaveFailed
<1>2. CASE Verifier /\ ~executeLinear
  BY <1>2 DEF Verifier, handleRunPipeline, handleHumanDecision, SaveDecision, handleCallback,
     SaveCallback, SaveExpired
<1>3. CASE \E t \in Tasks : DispatchPipeline(t) \/ Ticker(t) \/ Poll(t)
  BY <1>3 DEF DispatchPipeline, Ticker, recoverPendingCallbacks, expireAwaitingCallbacks, Poll,
     AwaitHuman, GetResult, DeleteResult
<1>4. CASE Analyst \/ BreakJournal \/ Tick \/ Crash \/ UNCHANGED vars
  BY <1>4 DEF Analyst, LoadCompletion, SaveCompletion, BreakJournal, Tick, Crash, vars
<1>5. CASE \E r \in Requests : Api(r)
  BY <1>5 DEF Api, ReadCallback, ReadDecision, AcceptCallback, SendDecision
<1> QED BY <1>1, <1>2, <1>3, <1>4, <1>5 DEF Next

(***************************************************************************)
(* RepeatsArePaidFor.  A pass over the steps that may still reach step i   *)
(* is under way for t, or a dispatch that will start one; each is paid for *)
(* by the dispatch, a spent approval or a consumed callback.               *)
(***************************************************************************)
Due(t, i) ==
    /\ vtask = t
    /\ \/ vpc = "load"
       \/ vpc \in {"loop", "invoke"} /\ vidx <= i
       \/ vpc = "calling" /\ vidx < i

Owed(t, i) ==
    ran[t][i] + (IF t \in submitted THEN 0 ELSE 1)
              + Copies(inbox, Message("run_pipeline", t))
              + (IF Due(t, i) THEN 1 ELSE 0)

PaidFor == \A t \in Tasks : \A i \in 1..N : Owed(t, i) <= 1 + Spent(t) + consumed[t]

(***************************************************************************)
(* A pass goes forward.                                                    *)
(***************************************************************************)
LEMMA PassGoesForward ==
    ASSUME TypeInv, executeLinear, ~Invoke, NEW t, NEW i \in Nat
    PROVE  (Due(t, i)' => Due(t, i)) /\ UNCHANGED <<ran, consumed, submitted, inbox>>
<1> USE DEF runUnchanged, history, Due
<1>1. vidx \in Nat
  BY DEF TypeInv, VerifierType
<1>2. \A u, st : failAuditExecution(u, st) => vpc' = "idle"
  BY DEF failAuditExecution, Return
<1>3. CASE LoadState
  BY <1>3 DEF LoadState
<1>4. CASE LoadFailed \/ SendToAnalyst \/ SaveFailed
  BY <1>4 DEF LoadFailed, SendToAnalyst, SaveFailed, Goto, Return
<1>5. CASE SkipStep \/ PassGate \/ InternalTool
  <2>1. vpc = "loop"
    BY <1>5 DEF SkipStep, PassGate, InternalTool, AtStep
  <2> QED BY <1>1, <1>2, <1>5, <2>1 DEF SkipStep, PassGate, InternalTool, Advance
<1>6. CASE ToolSucceeds
  BY <1>1, <1>2, <1>6 DEF ToolSucceeds, Advance
<1>7. CASE PauseAtGate \/ AwaitCallback
  BY <1>2, <1>7 DEF PauseAtGate, AwaitCallback, Return
<1>8. CASE StartTool
  BY <1>2, <1>8 DEF StartTool, Goto, AtStep
<1>9. CASE AgentFails \/ ToolFails
  BY <1>2, <1>9 DEF AgentFails, ToolFails, Return
<1> QED BY <1>3, <1>4, <1>5, <1>6, <1>7, <1>8, <1>9 DEF executeLinear

(***************************************************************************)
(* A step that starts no pass, makes no call and delivers no run_pipeline. *)
(***************************************************************************)
LEMMA OwedKept ==
    ASSUME TypeInv, NEW t \in Tasks, NEW i \in 1..N,
           UNCHANGED ran, submitted \subseteq submitted',
           Due(t, i)' => Due(t, i),
           \/ UNCHANGED inbox
           \/ /\ Copies(inbox', Message("run_pipeline", t)) \in Nat
              /\ Copies(inbox', Message("run_pipeline", t))
                    <= Copies(inbox, Message("run_pipeline", t))
    PROVE  Owed(t, i)' <= Owed(t, i)
<1> DEFINE c == Copies(inbox, Message("run_pipeline", t))
           d == Copies(inbox', Message("run_pipeline", t))
<1>1. inbox \in Seq(Messages) /\ ran[t][i] \in Nat
  BY DEF TypeInv, BusType, CountType
<1>2. c \in Nat
  BY <1>1, CopiesType
<1>3. d \in Nat /\ d <= c
  BY <1>2
<1>4. /\ Owed(t, i) = ran[t][i] + (IF t \in submitted THEN 0 ELSE 1) + c
                                + (IF Due(t, i) THEN 1 ELSE 0)
      /\ Owed(t, i)' = ran[t][i] + (IF t \in submitted' THEN 0 ELSE 1) + d
                                 + (IF Due(t, i)' THEN 1 ELSE 0)
  BY DEF Owed, Message
<1> HIDE DEF c, d
<1> QED BY <1>1, <1>2, <1>3, <1>4

LEMMA OwedType ==
    ASSUME TypeInv, NEW t \in Tasks, NEW i \in 1..N
    PROVE  /\ Owed(t, i) \in Nat
           /\ ran[t][i] \in Nat
           /\ Copies(inbox, Message("run_pipeline", t)) \in Nat
           /\ consumed[t] \in Nat
<1>1. inbox \in Seq(Messages) /\ ran[t][i] \in Nat /\ consumed[t] \in Nat
  BY DEF TypeInv, BusType, CountType
<1>2. Copies(inbox, Message("run_pipeline", t)) \in Nat
  BY <1>1, CopiesType
<1> QED BY <1>1, <1>2 DEF Owed

OwedIsNat ==
    \A t \in Tasks : \A i \in 1..N : Owed(t, i) \in Nat /\ consumed[t] \in Nat

LEMMA OwedTypes == TypeInv => OwedIsNat
BY OwedType DEF OwedIsNat

LEMMA NextOwedTypes ==
    ASSUME TypeInv, [Next]_vars, NEW t \in Tasks, NEW i \in 1..N
    PROVE  Owed(t, i)' \in Nat /\ consumed'[t] \in Nat
<1>1. UNCHANGED steps /\ TypeInv'
  BY NextType, NextSteps
<1>2. N' = N
  BY <1>1 DEF N
<1>3. OwedIsNat'
  BY <1>1, OwedTypes, PTL
<1> QED BY <1>2, <1>3 DEF OwedIsNat

LEMMA ReceiveOwed ==
    ASSUME TypeInv, IsFiniteSet(Answered), NEW t \in Tasks, NEW i \in 1..N,
           handleRunPipeline \/ handleCallback
           \/ handleHumanDecision("approved") \/ handleHumanDecision("rejected")
    PROVE  Owed(t, i)' <= Owed(t, i) /\ UNCHANGED consumed
<1> DEFINE m == Message("run_pipeline", t)
           u == Head(inbox).task
<1>1. PICK type \in {"run_pipeline", "callback_received", "approved", "rejected"} :
         Receive(type) /\ (type = "run_pipeline" <=> handleRunPipeline)
  BY DEF handleRunPipeline, handleCallback, handleHumanDecision, Receive
<1>2. /\ Copies(inbox, m) \in Nat /\ Copies(inbox', m) \in Nat
      /\ Head(inbox) = Message(type, u)
      /\ m = Head(inbox) => Copies(inbox, m) = Copies(inbox', m) + 1
      /\ m # Head(inbox) => Copies(inbox, m) = Copies(inbox', m)
  BY <1>1, ReceiveCopies
<1>3. UNCHANGED <<ran, consumed, submitted>> /\ vpc = "idle"
  BY <1>1 DEF handleRunPipeline, handleCallback, handleHumanDecision, history, Receive
<1>4. ~Due(t, i)
  BY <1>3 DEF Due
<1>5. CASE handleRunPipeline /\ u = t
  <2>1. Copies(inbox, m) = Copies(inbox', m) + 1
    BY <1>1, <1>2, <1>5
  <2>2. /\ Owed(t, i) = ran[t][i] + (IF t \in submitted THEN 0 ELSE 1) + Copies(inbox, m) + 0
        /\ Owed(t, i)' = ran[t][i] + (IF t \in submitted THEN 0 ELSE 1) + Copies(inbox', m)
                                   + (IF Due(t, i)' THEN 1 ELSE 0)
    BY <1>3, <1>4 DEF Owed, Message
  <2>3. ran[t][i] \in Nat
    BY OwedType
  <2> HIDE DEF m
  <2> QED BY <1>2, <1>3, <2>1, <2>2, <2>3
<1>6. CASE ~(handleRunPipeline /\ u = t)
  <2>1. ~Due(t, i)'
    <3>1. \A v, st : storeError(v) \/ failAuditExecution(v, st) => vpc' = "idle"
      BY DEF storeError, failAuditExecution, Return
    <3>2. CASE handleRunPipeline
      BY <1>6, <3>1, <3>2 DEF handleRunPipeline, Return, Due
    <3>3. CASE handleCallback
      BY <1>3, <3>3 DEF handleCallback, MatchCallback, verifierVars, Due
    <3>4. CASE handleHumanDecision("approved") \/ handleHumanDecision("rejected")
      BY <3>1, <3>4 DEF handleHumanDecision, Due
    <3> QED BY <3>2, <3>3, <3>4
  <2>2. Copies(inbox', m) <= Copies(inbox, m)
    BY <1>2
  <2> QED BY <1>2, <1>3, <2>1, <2>2, OwedKept
<1> QED BY <1>3, <1>5, <1>6

(***************************************************************************)
(* Dispatching pays for the message, the message for the pass.             *)
(***************************************************************************)
LEMMA DispatchOwed ==
    ASSUME TypeInv, IsFiniteSet(Answered), NEW t \in Tasks, NEW i \in 1..N, NEW u \in Tasks,
           DispatchPipeline(u)
    PROVE  Owed(t, i)' <= Owed(t, i) /\ UNCHANGED consumed
<1> DEFINE m == Message("run_pipeline", t)
<1>1. /\ Send("run_pipeline", u) /\ UNCHANGED <<vpc, vidx, vtask, ran, consumed>>
      /\ u \notin submitted /\ submitted' = submitted \cup {u}
  BY DEF DispatchPipeline, verifierVars, history
<1>2. /\ Copies(inbox, m) \in Nat /\ Copies(inbox', m) \in Nat
      /\ Copies(inbox', m) <= Copies(inbox, m) + (IF m = Message("run_pipeline", u) THEN 1 ELSE 0)
  BY <1>1, SendCopies
<1>3. Due(t, i)' = Due(t, i)
  BY <1>1 DEF Due
<1>4. CASE u # t
  <2>1. m # Message("run_pipeline", u)
    BY <1>4 DEF Message
  <2> QED BY <1>1, <1>2, <1>3, <2>1, OwedKept
<1>5. CASE u = t
  <2>1. Copies(inbox', m) <= Copies(inbox, m) + 1
    BY <1>2, <1>5
  <2>2. /\ Owed(t, i) = ran[t][i] + 1 + Copies(inbox, m) + (IF Due(t, i) THEN 1 ELSE 0)
        /\ Owed(t, i)' = ran[t][i] + 0 + Copies(inbox', m) + (IF Due(t, i) THEN 1 ELSE 0)
    BY <1>1, <1>3, <1>5 DEF Owed, Message
  <2>3. ran[t][i] \in Nat
    BY OwedType
  <2> HIDE DEF m
  <2> QED BY <1>1, <1>2, <2>1, <2>2, <2>3
<1> QED BY <1>1, <1>4, <1>5

(***************************************************************************)
(* A step of the verifier for the task it works for: a spent approval or a *)
(* consumed callback pays for the pass it starts, and the pass for the     *)
(* call.                                                                   *)
(***************************************************************************)
LEMMA StartOwed ==
    ASSUME TypeInv, NEW t \in Tasks, NEW i \in 1..N,
           UNCHANGED <<ran, submitted, inbox>>, ~Due(t, i)
    PROVE  Owed(t, i)' <= Owed(t, i) + 1
<1> DEFINE m == Message("run_pipeline", t)
<1>1. /\ Owed(t, i) = ran[t][i] + (IF t \in submitted THEN 0 ELSE 1) + Copies(inbox, m) + 0
      /\ Owed(t, i)' = ran[t][i] + (IF t \in submitted THEN 0 ELSE 1) + Copies(inbox, m)
                                 + (IF Due(t, i)' THEN 1 ELSE 0)
  BY DEF Owed, Message
<1>2. ran[t][i] \in Nat /\ Copies(inbox, m) \in Nat
  BY OwedType
<1> HIDE DEF m
<1> QED BY <1>1, <1>2

LEMMA InvokeOwed ==
    ASSUME TypeInv, NEW t \in Tasks, NEW i \in 1..N, Invoke
    PROVE  Owed(t, i)' <= Owed(t, i) /\ UNCHANGED consumed
<1> DEFINE m == Message("run_pipeline", t)
<1>1. /\ vpc = "invoke" /\ vpc' = "calling" /\ UNCHANGED <<vtask, vidx, submitted, inbox, consumed>>
      /\ ran' = [ran EXCEPT ![vtask][vidx] = @ + 1]
      /\ vtask \in Tasks /\ vidx \in 1..N
  BY DEF Invoke, Goto, TypeInv, VerifierType, Locals
<1>2. ran[t][i] \in Nat /\ Copies(inbox, m) \in Nat /\ N \in Nat
  BY OwedType, PipelineType DEF TypeInv, EnvType
<1>3. CASE vtask = t /\ vidx = i
  <2>1. ran'[t][i] = ran[t][i] + 1
    BY <1>1, <1>3 DEF TypeInv, CountType
  <2>2. Due(t, i) /\ ~Due(t, i)'
    BY <1>1, <1>2, <1>3 DEF Due
  <2>3. /\ Owed(t, i) = ran[t][i] + (IF t \in submitted THEN 0 ELSE 1) + Copies(inbox, m) + 1
        /\ Owed(t, i)' = ran'[t][i] + (IF t \in submitted THEN 0 ELSE 1) + Copies(inbox, m) + 0
    BY <1>1, <2>2 DEF Owed, Message
  <2> HIDE DEF m
  <2> QED BY <1>1, <1>2, <2>1, <2>3
<1>4. CASE ~(vtask = t /\ vidx = i)
  <2>1. ran'[t][i] = ran[t][i]
    BY <1>1, <1>4 DEF TypeInv, CountType
  <2>2. Due(t, i)' => Due(t, i)
    BY <1>1, <1>2, <1>4 DEF Due
  <2>3. /\ Owed(t, i) = ran[t][i] + (IF t \in submitted THEN 0 ELSE 1) + Copies(inbox, m)
                                  + (IF Due(t, i) THEN 1 ELSE 0)
        /\ Owed(t, i)' = ran[t][i] + (IF t \in submitted THEN 0 ELSE 1) + Copies(inbox, m)
                                   + (IF Due(t, i)' THEN 1 ELSE 0)
    BY <1>1, <2>1 DEF Owed, Message
  <2> HIDE DEF m
  <2> QED BY <1>1, <1>2, <2>2, <2>3
<1> QED BY <1>1, <1>3, <1>4

LEMMA WorkOwed ==
    ASSUME TypeInv, IsFiniteSet(Answered), [Next]_vars, NEW t \in Tasks, NEW i \in 1..N,
           SaveDecision \/ SaveCallback \/ SaveExpired \/ executeLinear
    PROVE  Owed(t, i)' <= Owed(t, i) + (Spent(t)' - Spent(t)) + (consumed'[t] - consumed[t])
<1>1. /\ Owed(t, i) \in Nat /\ consumed[t] \in Nat
      /\ Spent(t) \in Int /\ Spent(t)' \in Int /\ Spent(t)' >= Spent(t)
      /\ SaveDecision /\ Approving(t) => Spent(t)' >= Spent(t) + 1
  BY OwedType, SpentGrows
<1>2. Owed(t, i)' \in Int
  BY NextOwedTypes
<1>3. \A u, st : storeError(u) \/ failAuditExecution(u, st) => vpc' = "idle"
  BY DEF storeError, failAuditExecution, Return
<1>4. CASE SaveDecision
  <2>1. /\ vpc = "decision" /\ ~Due(t, i)
        /\ UNCHANGED <<ran, submitted, inbox, consumed, vtask>>
    BY <1>4 DEF SaveDecision, history, Due, resumeFromState, storeError, failAuditExecution, Return,
                Goto
  <2>2. CASE Approving(t)
    BY <1>1, <1>2, <1>4, <2>1, <2>2, StartOwed
  <2>3. CASE ~Approving(t)
    <3>1. ~Due(t, i)'
      BY <1>3, <1>4, <2>1, <2>3 DEF SaveDecision, Approving, Due, Return
    <3> QED BY <1>1, <1>2, <2>1, <3>1, OwedKept
  <2> QED BY <2>2, <2>3
<1>5. CASE SaveCallback
  <2>1. /\ vpc = "callback" /\ ~Due(t, i)
        /\ UNCHANGED <<ran, submitted, inbox, vtask>>
        /\ consumed' = [consumed EXCEPT ![vtask] = @ + 1]
    BY <1>5 DEF SaveCallback, Due, resumeFromState, storeError, failAuditExecution, Return, Goto
  <2>2. CASE vtask = t
    <3>1. consumed'[t] = consumed[t] + 1
      BY <2>1, <2>2 DEF TypeInv, CountType
    <3> QED BY <1>1, <1>2, <2>1, <3>1, StartOwed
  <2>3. CASE vtask # t
    <3>1. consumed'[t] = consumed[t] /\ ~Due(t, i)'
      BY <2>1, <2>3 DEF TypeInv, CountType, Due
    <3> QED BY <1>1, <1>2, <2>1, <3>1, OwedKept
  <2> QED BY <2>2, <2>3
<1>6. CASE SaveExpired
  <2>1. UNCHANGED <<ran, submitted, inbox, consumed>> /\ ~Due(t, i)'
    BY <1>6 DEF SaveExpired, history, Return, Due
  <2> QED BY <1>1, <1>2, <2>1, OwedKept
<1>7. CASE Invoke
  BY <1>1, <1>2, <1>7, InvokeOwed
<1>8. CASE executeLinear /\ ~Invoke
  <2>1. i \in Nat
    BY PipelineType DEF TypeInv, EnvType
  <2>2. (Due(t, i)' => Due(t, i)) /\ UNCHANGED <<ran, consumed, submitted, inbox>>
    BY <1>8, <2>1, PassGoesForward
  <2> QED BY <1>1, <1>2, <2>2, OwedKept
<1> QED BY <1>4, <1>5, <1>6, <1>7, <1>8

LEMMA NextOwed ==
    ASSUME TypeInv, IsFiniteSet(Answered), [Next]_vars, NEW t \in Tasks, NEW i \in 1..N
    PROVE  Owed(t, i)' <= Owed(t, i) + (Spent(t)' - Spent(t)) + (consumed'[t] - consumed[t])
<1>1. /\ Owed(t, i) \in Nat /\ consumed[t] \in Nat
      /\ Spent(t) \in Int /\ Spent(t)' \in Int /\ Spent(t)' >= Spent(t)
  BY OwedType, SpentGrows
<1>2. Owed(t, i)' \in Int
  BY NextOwedTypes
<1>3. ASSUME Owed(t, i)' <= Owed(t, i), UNCHANGED consumed
      PROVE  Owed(t, i)' <= Owed(t, i) + (Spent(t)' - Spent(t)) + (consumed'[t] - consumed[t])
  BY <1>1, <1>2, <1>3
<1>4. CASE Verifier
  <2>1. CASE SaveDecision \/ SaveCallback \/ SaveExpired \/ executeLinear
    BY <2>1, WorkOwed
  <2>2. CASE handleRunPipeline \/ handleCallback
             \/ handleHumanDecision("approved") \/ handleHumanDecision("rejected")
    BY <1>3, <2>2, ReceiveOwed
  <2> QED BY <1>4, <2>1, <2>2 DEF Verifier
<1>5. ASSUME NEW u \in Tasks, DispatchPipeline(u)
      PROVE  Owed(t, i)' <= Owed(t, i) /\ UNCHANGED consumed
  BY <1>5, DispatchOwed
<1>6. ASSUME NEW u \in Tasks, Ticker(u) \/ Poll(u)
      PROVE  Owed(t, i)' <= Owed(t, i) /\ UNCHANGED consumed
  <2>1. UNCHANGED <<inbox, ran, submitted, consumed>>
    BY <1>6 DEF Ticker, recoverPendingCallbacks, expireAwaitingCallbacks, Poll, AwaitHuman,
                GetResult, DeleteResult, history
  <2>2. Due(t, i)' => Due(t, i)
    BY <1>6 DEF Ticker, recoverPendingCallbacks, expireAwaitingCallbacks, MatchCallback, Poll,
                AwaitHuman, GetResult, DeleteResult, verifierVars, Due
  <2> QED BY <2>1, <2>2, OwedKept
<1>7. CASE Analyst \/ BreakJournal \/ Tick \/ UNCHANGED vars
  <2>1. UNCHANGED <<inbox, ran, submitted, consumed, vpc, vtask, vidx>>
    BY <1>7 DEF Analyst, LoadCompletion, SaveCompletion, runUnchanged, BreakJournal, Tick, vars,
                history, verifierVars
  <2>2. Due(t, i)' = Due(t, i)
    BY <2>1 DEF Due
  <2> QED BY <1>3, <2>1, <2>2, OwedKept
<1>8. CASE Crash
  <2>1. UNCHANGED <<ran, submitted, consumed>> /\ inbox' = <<>> /\ ~Due(t, i)'
    BY <1>8 DEF Crash, history, Return, Due
  <2>2. Copies(inbox', Message("run_pipeline", t)) = 0
    BY <2>1, CopiesEmpty
  <2>3. Copies(inbox, Message("run_pipeline", t)) \in Nat
    BY OwedType
  <2> QED BY <1>3, <2>1, <2>2, <2>3, OwedKept
<1>9. ASSUME NEW r \in Requests, Api(r)
      PROVE  Owed(t, i)' <= Owed(t, i) /\ UNCHANGED consumed
  <2> DEFINE m == Message("run_pipeline", t)
  <2>1. UNCHANGED <<ran, submitted, consumed, vpc, vtask, vidx>>
    BY <1>9 DEF Api, ReadCallback, ReadDecision, AcceptCallback, SendDecision, apiUnchanged,
                history, verifierVars
  <2>2. Due(t, i)' = Due(t, i)
    BY <2>1 DEF Due
  <2>3. CASE UNCHANGED inbox
    BY <2>1, <2>2, <2>3, OwedKept
  <2>4. CASE AcceptCallback(r) \/ SendDecision(r)
    <3>1. Send(req[r].op, req[r].task) /\ req[r].op \in Operations /\ req[r].task \in Tasks
      BY <2>4 DEF AcceptCallback, SendDecision, TypeInv, RequestType
    <3>2. m # Message(req[r].op, req[r].task)
      BY <3>1 DEF Message, Operations
    <3>3. /\ Copies(inbox, m) \in Nat /\ Copies(inbox', m) \in Nat
          /\ Copies(inbox', m) <= Copies(inbox, m)
                                    + (IF m = Message(req[r].op, req[r].task) THEN 1 ELSE 0)
      BY <3>1, SendCopies
    <3>4. Copies(inbox', m) <= Copies(inbox, m)
      BY <3>2, <3>3
    <3> QED BY <2>1, <2>2, <3>3, <3>4, OwedKept
  <2>5. UNCHANGED inbox \/ AcceptCallback(r) \/ SendDecision(r)
    BY <1>9 DEF Api, ReadCallback, ReadDecision
  <2> QED BY <2>3, <2>4, <2>5
<1> QED BY <1>3, <1>4, <1>5, <1>6, <1>7, <1>8, <1>9 DEF Next

LEMMA InitSpent == Init => \A t \in Tasks : Spent(t) = 0
<1> SUFFICES ASSUME Init, NEW t \in Tasks PROVE Spent(t) = 0
  OBVIOUS
<1>1. Decided(t) = {} /\ inbox = <<>> /\ ~Approving(t)
  BY DEF Init, Decided, Approving
<1> QED BY <1>1, CopiesEmpty, FS_EmptySet DEF Spent

LEMMA InitPaidFor == Init => PaidFor
<1> SUFFICES ASSUME Init, NEW t \in Tasks, NEW i \in 1..N
             PROVE  Owed(t, i) <= 1 + Spent(t) + consumed[t]
  BY DEF PaidFor
<1>1. /\ ran[t][i] = 0 /\ t \notin submitted /\ inbox = <<>> /\ ~Due(t, i) /\ consumed[t] = 0
  BY DEF Init, Due
<1>2. Copies(inbox, Message("run_pipeline", t)) = 0
  BY <1>1, CopiesEmpty
<1> QED BY <1>1, <1>2, InitSpent DEF Owed

LEMMA NextPaidFor == TypeInv /\ IsFiniteSet(Answered) /\ PaidFor /\ [Next]_vars => PaidFor'
<1> SUFFICES ASSUME TypeInv, IsFiniteSet(Answered), PaidFor, [Next]_vars,
                    NEW t \in Tasks, NEW i \in 1..N
             PROVE  Owed(t, i)' <= 1 + Spent(t)' + consumed'[t]
  BY NextSteps DEF PaidFor, N
<1>1. /\ Owed(t, i) \in Nat /\ consumed[t] \in Nat
      /\ Spent(t) \in Int /\ Spent(t)' \in Int
  BY OwedType, SpentGrows
<1>2. Owed(t, i)' \in Nat /\ consumed'[t] \in Nat
  BY NextOwedTypes
<1>4. Owed(t, i)' <= Owed(t, i) + (Spent(t)' - Spent(t)) + (consumed'[t] - consumed[t])
  BY NextOwed
<1>5. Owed(t, i) <= 1 + Spent(t) + consumed[t]
  BY DEF PaidFor
<1> QED BY <1>1, <1>2, <1>4, <1>5

(***************************************************************************)
(* A step's tool is called once for the dispatch, and once more at most    *)
(* for each admitted approval and each callback the verifier resumed on:   *)
(* a crash, a dropped or repeated message or the ticker alone repeats no   *)
(* call, for any number of requests and crashes.                           *)
(***************************************************************************)
THEOREM RepeatsPaidFor == Spec => []RepeatsArePaidFor
<1>1. TypeInv /\ IsFiniteSet(Answered) /\ PaidFor => RepeatsArePaidFor
  <2> SUFFICES ASSUME TypeInv, IsFiniteSet(Answered), PaidFor, NEW t \in Tasks, NEW i \in 1..N
               PROVE  ran[t][i] <= 1 + Cardinality(Admitted(t, "approved")) + consumed[t]
    BY DEF RepeatsArePaidFor
  <2>1. /\ Owed(t, i) \in Nat /\ ran[t][i] \in Nat /\ consumed[t] \in Nat
        /\ Copies(inbox, Message("run_pipeline", t)) \in Nat
    BY OwedType
  <2>2. Owed(t, i) <= 1 + Spent(t) + consumed[t]
    BY DEF PaidFor
  <2>3. Spent(t) \in Int /\ Spent(t) <= Cardinality(Admitted(t, "approved"))
    BY SpentType
  <2>4. Cardinality(Admitted(t, "approved")) \in Nat
    <3>1. Admitted(t, "approved") \subseteq Answered
      BY DEF Admitted, Answered
    <3> QED BY <3>1, FS_Subset, FS_CardinalityType
  <2>5. ran[t][i] <= Owed(t, i)
    BY <2>1 DEF Owed
  <2> QED BY <2>1, <2>2, <2>3, <2>4, <2>5
<1>2. Spec => []TypeInv
  BY InitType, NextType, PTL DEF Spec
<1>3. Spec => []IsFiniteSet(Answered)
  BY <1>2, InitAnswered, NextAnswered, PTL DEF Spec
<1> QED BY <1>1, <1>2, <1>3, InitPaidFor, NextPaidFor, PTL DEF Spec
=============================================================================
