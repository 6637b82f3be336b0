-------------------------- MODULE LinearGateProofs --------------------------
(***************************************************************************)
(* What stands in front of a step of a linear pipeline, for any tasks,     *)
(* requests and crashes: ApprovedBeforeActing and OneApprovalPerGate, for  *)
(* pipelines in which no unconditional gate stands right behind a          *)
(* submission whose wait is still ahead (and, for the second, no two gates *)
(* share a name), and NoStepSkipped, for those that submit once and wait   *)
(* right after that.                                                       *)
(***************************************************************************)
EXTENDS LinearRunProofs

(***************************************************************************)
(* Position n of the pipeline is in front of every unconditional gate.     *)
(***************************************************************************)
Before(n) == \A j \in DOMAIN steps : steps[j].kind = "gate" /\ ~steps[j].cond => n < j

(***************************************************************************)
(* A prepared wait is resumed past the step after the submission, which    *)
(* handleCallback counts as the wait: that step is no unconditional gate.  *)
(***************************************************************************)
NoLateGate ==
    \A i \in DOMAIN steps :
        steps[i].kind = "tool" /\ steps[i].submits /\ AwaitAhead(i)
            => ~(steps[i + 1].kind = "gate" /\ ~steps[i + 1].cond)

Unapproved(t) == \A g \in Gates \cup {"await_callback"} : approvals[t][g] = 0

(***************************************************************************)
(* A resume from the record starts in front of every unconditional gate.   *)
(***************************************************************************)
Behind(st) ==
    /\ Before(st.done)
    /\ st.gate = "await_callback" => Before(st.done + 1)

NoGate == {"", "await_callback"}

StoreBehind(t) == store[t] # NoState => Behind(store[t])

VerifierBehind(t) ==
    vtask = t =>
        /\ vpc = "decision" => varg # "approved"
        /\ vpc = "callback" => vst.gate = "await_callback"
        /\ vpc \in Holding => Behind(vst)
        /\ vpc = "load" /\ store[t] # NoState => store[t].gate \in NoGate
        /\ vpc \in {"loop", "invoke", "calling"} => vst.gate \in NoGate /\ Before(vidx - 1)
        /\ vpc \in {"invoke", "calling"} => Before(vidx)

Undecided(t) == {m \in Messages : m.task = t => m.type # "approved"}

Summarised(t) == {u \in Tasks : u = t => Before(CompletedSteps)}

BoxesBehind(t) == inbox \in Seq(Undecided(t)) /\ abox \in Seq(Summarised(t))

AnalystBehind(t) ==
    analyst.pc = "save" /\ analyst.task = t => Behind(analyst.st) /\ Before(CompletedSteps)

RequestsBehind(t) ==
    \A r \in Requests :
        req[r].pc = "read" /\ req[r].task = t =>
            /\ req[r].op # "approved"
            /\ req[r].op = "callback_received"
                  => Behind(req[r].st) /\ req[r].st.gate = "await_callback"

RanBehind(t) == \A i \in 1..N : ran[t][i] > 0 => UnconditionalGates(i) = {}

Held(t) ==
    /\ StoreBehind(t) /\ VerifierBehind(t) /\ BoxesBehind(t) /\ AnalystBehind(t)
    /\ RequestsBehind(t) /\ RanBehind(t)

HeldBack == \A t \in Tasks : Unapproved(t) => Held(t)

-----------------------------------------------------------------------------
(***************************************************************************)
(* Positions and records.                                                  *)
(***************************************************************************)
LEMMA BeforeLess ==
    ASSUME steps \in Pipelines, NEW n \in Nat, NEW m \in Nat, m <= n, Before(n)
    PROVE  Before(m)
<1>1. \A j \in DOMAIN steps : j \in Nat
  BY PipelineType
<1> QED BY <1>1 DEF Before

LEMMA BeforePast ==
    ASSUME steps \in Pipelines, NEW n \in Nat, Before(n),
           ~(n + 1 \in DOMAIN steps /\ steps[n + 1].kind = "gate" /\ ~steps[n + 1].cond)
    PROVE  Before(n + 1)
<1>1. \A j \in DOMAIN steps : j \in Nat
  BY PipelineType
<1>2. \A j \in DOMAIN steps : n < j /\ j # n + 1 => n + 1 < j
  BY <1>1
<1> QED BY <1>2 DEF Before

LEMMA BeforeMeans ==
    ASSUME steps \in Pipelines, NEW i \in 1..N, Before(i)
    PROVE  UnconditionalGates(i) = {}
<1>1. \A j \in DOMAIN steps : j \in Nat /\ i \in Nat
  BY PipelineType
<1> QED BY <1>1 DEF Before, UnconditionalGates

LEMMA RecordsBehind ==
    ASSUME NEW st \in ExecutionState, Behind(st)
    PROVE  /\ Behind(Failed(st))
           /\ Behind(Rejected(st))
           /\ Behind(Expired(st))
           /\ \A o : Behind(Ended(st, o))
           /\ \A at : Behind(Accepted(st, at)) /\ Accepted(st, at).gate = st.gate
           /\ Before(CompletedSteps) => Behind(Completed(st)) /\ Completed(st).gate = ""
<1> USE DEF ExecutionState, Behind
<1>1. Failed(st).gate = "" /\ Failed(st).done = st.done
  BY DEF Failed
<1>2. Rejected(st).gate = "" /\ Rejected(st).done = st.done
  BY DEF Rejected
<1>3. Expired(st).gate = "" /\ Expired(st).done = st.done
  BY DEF Expired
<1>4. \A o : Ended(st, o).gate = st.gate /\ Ended(st, o).done = st.done
  BY DEF Ended
<1>5. \A at : Accepted(st, at).gate = st.gate /\ Accepted(st, at).done = st.done
  BY DEF Accepted
<1>6. Completed(st).gate = "" /\ Completed(st).done \in {st.done, CompletedSteps}
  BY DEF Completed
<1> QED BY <1>1, <1>2, <1>3, <1>4, <1>5, <1>6

LEMMA ResumedBehind ==
    ASSUME NEW st \in ExecutionState, Behind(st), st.gate = "await_callback"
    PROVE  /\ Behind(Resumed(st)) /\ Resumed(st).gate = ""
           /\ Behind([Resumed(st) EXCEPT !.status = "error", !.error = TRUE])
<1>1. Resumed(st).gate = "" /\ Resumed(st).done = st.done + 1
  BY DEF Resumed, ExecutionState
<1>2. /\ [Resumed(st) EXCEPT !.status = "error", !.error = TRUE].gate = ""
      /\ [Resumed(st) EXCEPT !.status = "error", !.error = TRUE].done = st.done + 1
  BY <1>1 DEF Resumed, ExecutionState
<1>3. Before(st.done + 1)
  BY DEF Behind
<1>a. Behind(Resumed(st))
  BY <1>1, <1>3 DEF Behind
<1> QED BY <1>1, <1>2, <1>3, <1>a DEF Behind

LEMMA BlankBehind ==
    ASSUME steps \in Pipelines
    PROVE  Behind(Blank) /\ Blank.gate \in NoGate
<1>1. \A j \in DOMAIN steps : 0 < j
  BY PipelineType
<1>2. Blank.gate = "" /\ Blank.done = 0
  BY DEF Blank
<1> QED BY <1>1, <1>2 DEF Behind, Before, NoGate

-----------------------------------------------------------------------------
(***************************************************************************)
(* The verifier at work for t.  What it leaves in the store, and what it   *)
(* goes on with.                                                           *)
(***************************************************************************)
Saved(t) == store'[t] # NoState => Behind(store'[t])

Going(t) ==
    /\ vpc' = "decision" => varg' # "approved"
    /\ vpc' = "callback" => vst'.gate = "await_callback"
    /\ vpc' \in Holding => Behind(vst')
    /\ vpc' = "load" /\ store'[t] # NoState => store'[t].gate \in NoGate
    /\ vpc' \in {"loop", "invoke", "calling"} => vst'.gate \in NoGate /\ Before(vidx' - 1)
    /\ vpc' \in {"invoke", "calling"} => Before(vidx')

LEMMA IdleGoing == ASSUME NEW t, vpc' = "idle" PROVE Going(t)
BY DEF Going, Holding

LEMMA EndHeld ==
    ASSUME NEW t \in Tasks, StoreType, NEW st \in ExecutionState, Behind(st),
           \/ failAuditExecution(t, st)
           \/ Save(t, st) /\ Return
           \/ storeError(t)
    PROVE  Saved(t) /\ Going(t)
<1>1. vpc' = "idle"
  BY DEF failAuditExecution, storeError, Return
<1>2. store'[t] \in {Failed(st), st, NoState}
  BY DEF failAuditExecution, storeError, Save, StoreType
<1>3. Saved(t)
  BY <1>2, RecordsBehind DEF Saved
<1> QED BY <1>1, <1>3, IdleGoing

LEMMA ResumeHeld ==
    ASSUME NEW t \in Tasks, StoreType, NEW st \in ExecutionState, Behind(st),
           st.gate \in NoGate, resumeFromState(t, st)
    PROVE  Saved(t) /\ Going(t)
<1>1. CASE storeError(t) \/ failAuditExecution(t, st)
  BY <1>1, EndHeld
<1>2. CASE Save(t, st) /\ Goto("load", NoState)
  <2>1. store'[t] = st /\ vpc' = "load"
    BY <1>2 DEF Save, StoreType, Goto
  <2> QED BY <2>1 DEF Saved, Going, Holding
<1> QED BY <1>1, <1>2 DEF resumeFromState

LEMMA AdvanceHeld ==
    ASSUME NEW t \in Tasks, StoreBehind(t), Behind(vst), vst.gate \in NoGate,
           vidx \in Nat, Before(vidx), Advance, UNCHANGED store
    PROVE  Saved(t) /\ Going(t)
<1>1. vpc' = "loop" /\ vst' = vst /\ vidx' = vidx + 1
  BY DEF Advance
<1>2. vidx' - 1 = vidx
  BY <1>1
<1>3. Before(vidx' - 1)
  BY <1>2
<1>4. Going(t)
  BY <1>1, <1>3 DEF Going
<1> QED BY <1>4 DEF Saved, StoreBehind

LEMMA PausesBehind ==
    ASSUME TypeInv, NoLateGate, vpc = "loop", vidx \in DOMAIN steps, Before(vidx - 1)
    PROVE  /\ steps[vidx].kind = "gate" => Behind(Paused(steps[vidx].gate))
           /\ steps[vidx].kind # "gate" \/ steps[vidx].cond => Before(vidx)
           /\ steps[vidx].kind = "await" => Behind(Awaiting)
           /\ steps[vidx].kind = "tool" /\ steps[vidx].submits /\ AwaitAhead(vidx)
                 => Behind(Prepared) /\ Prepared.gate \in NoGate
<1>1. steps \in Pipelines /\ vidx - 1 \in Nat /\ vidx \in Nat /\ vidx - 1 + 1 = vidx
  BY PipelineType DEF TypeInv, EnvType
<1>2. steps[vidx].kind = "gate" => Behind(Paused(steps[vidx].gate))
  <2> SUFFICES ASSUME steps[vidx].kind = "gate" PROVE Behind(Paused(steps[vidx].gate))
    OBVIOUS
  <2>1. steps[vidx].gate # "await_callback"
    BY <1>1, PipelineType, PipelinesAssumption
  <2>2. /\ Paused(steps[vidx].gate).gate = steps[vidx].gate
        /\ Paused(steps[vidx].gate).done = vidx - 1
    BY DEF Paused, Blank
  <2> QED BY <2>1, <2>2 DEF Behind
<1>3. steps[vidx].kind # "gate" \/ steps[vidx].cond => Before(vidx)
  <2> DEFINE n == vidx - 1
  <2> SUFFICES ASSUME steps[vidx].kind # "gate" \/ steps[vidx].cond PROVE Before(vidx)
    OBVIOUS
  <2>1. n \in Nat /\ Before(n) /\ n + 1 = vidx
    BY <1>1
  <2>2. ~(n + 1 \in DOMAIN steps /\ steps[n + 1].kind = "gate" /\ ~steps[n + 1].cond)
    BY <2>1
  <2> HIDE DEF n
  <2>3. Before(n + 1)
    BY <1>1, <2>1, <2>2, BeforePast
  <2> QED BY <2>1, <2>3
<1>4. steps[vidx].kind = "await" => Behind(Awaiting)
  <2> SUFFICES ASSUME steps[vidx].kind = "await" PROVE Behind(Awaiting)
    OBVIOUS
  <2>1. Before(vidx)
    BY <1>3
  <2>2. Awaiting.done = vidx - 1
    BY DEF Awaiting, Paused, Blank
  <2> QED BY <1>1, <2>1, <2>2 DEF Behind
<1>5. steps[vidx].kind = "tool" /\ steps[vidx].submits /\ AwaitAhead(vidx)
         => Behind(Prepared) /\ Prepared.gate \in NoGate
  <2> SUFFICES ASSUME steps[vidx].kind = "tool", steps[vidx].submits, AwaitAhead(vidx)
               PROVE  Behind(Prepared) /\ Prepared.gate \in NoGate
    OBVIOUS
  <2>1. Before(vidx)
    BY <1>3
  <2>2. ~(steps[vidx + 1].kind = "gate" /\ ~steps[vidx + 1].cond)
    BY DEF NoLateGate
  <2>3. Before(vidx + 1)
    BY <1>1, <2>1, <2>2, BeforePast
  <2>4. Prepared.done = vidx /\ Prepared.gate = "await_callback"
    BY DEF Prepared, Blank
  <2> QED BY <2>1, <2>3, <2>4 DEF Behind, NoGate
<1> QED BY <1>2, <1>3, <1>4, <1>5

(***************************************************************************)
(* A summary is asked for behind the steps it will count as completed.     *)
(***************************************************************************)
LEMMA SummaryCounts ==
    ASSUME TypeInv, SendToAnalyst
    PROVE  CompletedSteps \in Nat /\ CompletedSteps <= vidx - 1
<1> DEFINE S == {i \in DOMAIN steps : \A j \in 1..i : steps[j].kind # "analyst"}
           n == vidx - 1
<1>1. steps \in Pipelines /\ N \in Nat /\ DOMAIN steps = 1..N /\ vidx \in Nat \ {0}
  BY PipelineType DEF TypeInv, EnvType, VerifierType, Locals, SendToAnalyst, AtStep
<1>2. n \in Nat /\ 1..n = {i \in Nat : 1 <= i /\ i < vidx}
  BY <1>1
<1>3. vidx > N \/ (vidx \in 1..N /\ steps[vidx].kind = "analyst")
  BY <1>1 DEF SendToAnalyst, AtStep
<1>4. S \subseteq 1..n
  <2> SUFFICES ASSUME NEW i \in S PROVE i \in 1..n
    OBVIOUS
  <2>1. i \in 1..N /\ \A j \in 1..i : steps[j].kind # "analyst"
    BY <1>1
  <2>2. i < vidx
    BY <1>1, <1>3, <2>1
  <2> QED BY <1>2, <2>1, <2>2
<1> HIDE DEF n
<1>5. IsFiniteSet(1..n) /\ Cardinality(1..n) = n
  BY <1>2, FS_Interval
<1>6. IsFiniteSet(S) /\ Cardinality(S) <= n
  BY <1>4, <1>5, FS_Subset
<1>7. CompletedSteps \in Nat /\ CompletedSteps <= n
  BY <1>6, FS_CardinalityType DEF CompletedSteps
<1> QED BY <1>7 DEF n

(***************************************************************************)
(* A summary written from here on counts no step behind a gate.            *)
(***************************************************************************)
LEMMA SummaryBehind ==
    ASSUME TypeInv, Before(vidx - 1), SendToAnalyst
    PROVE  Before(CompletedSteps)
<1>1. steps \in Pipelines /\ vidx \in Nat \ {0}
  BY DEF TypeInv, EnvType, VerifierType, Locals, SendToAnalyst, AtStep
<1>2. vidx - 1 \in Nat
  BY <1>1
<1> QED BY <1>1, <1>2, SummaryCounts, BeforeLess

LEMMA WorkHeld ==
    ASSUME TypeInv, NoLateGate, NEW t \in Tasks, vtask = t, StoreBehind(t), VerifierBehind(t),
           SaveDecision \/ SaveCallback \/ SaveExpired \/ executeLinear
    PROVE  Saved(t) /\ Going(t)
<1>1. StoreType /\ (vpc \in Holding => vst \in ExecutionState /\ Behind(vst))
  BY DEF TypeInv, VerifierType, Locals, Holding, VerifierBehind
<1>2. /\ steps \in Pipelines /\ vidx \in Nat /\ DOMAIN steps = 1..N
      /\ vpc \in {"loop", "invoke", "calling"} => vst.gate \in NoGate /\ Before(vidx - 1)
      /\ vpc \in {"invoke", "calling"} => Before(vidx)
  BY PipelineType DEF TypeInv, EnvType, VerifierType, VerifierBehind
<1> USE DEF Holding
<1>3. CASE SaveDecision
  <2>1. vpc = "decision" /\ varg # "approved"
    BY <1>3 DEF SaveDecision, VerifierBehind
  <2>2. Save(t, Rejected(vst)) /\ Return
    BY <1>3, <2>1 DEF SaveDecision
  <2>3. Rejected(vst) \in ExecutionState /\ Behind(Rejected(vst))
    BY <1>1, <2>1, RecordTypes, RecordsBehind
  <2> QED BY <1>1, <2>2, <2>3, EndHeld
<1>4. CASE SaveCallback
  <2> DEFINE failed == [Resumed(vst) EXCEPT !.status = "error", !.error = TRUE]
  <2>1. vpc = "callback" /\ vst.gate = "await_callback" /\ vst \in ExecutionState /\ Behind(vst)
    BY <1>1, <1>4 DEF SaveCallback, VerifierBehind
  <2>2. /\ Resumed(vst) \in ExecutionState /\ Behind(Resumed(vst)) /\ Resumed(vst).gate \in NoGate
        /\ failed \in ExecutionState /\ Behind(failed)
    BY <2>1, RecordTypes, ResumedBehind DEF NoGate
  <2>3. resumeFromState(t, Resumed(vst)) \/ (Save(t, failed) /\ Return)
    BY <1>4 DEF SaveCallback
  <2> HIDE DEF failed
  <2> QED BY <1>1, <2>2, <2>3, ResumeHeld, EndHeld
<1>5. CASE SaveExpired
  <2>1. Save(t, Expired(vst)) /\ Return /\ vpc = "expire"
    BY <1>5 DEF SaveExpired
  <2>2. Expired(vst) \in ExecutionState /\ Behind(Expired(vst))
    BY <1>1, <2>1, RecordTypes, RecordsBehind
  <2> QED BY <1>1, <2>1, <2>2, EndHeld
<1>6. CASE LoadState
  <2>1. /\ vpc = "load" /\ store[t] # NoState /\ vpc' = "loop" /\ vst' = store[t]
        /\ vidx' = store[t].done + 1 /\ UNCHANGED store
    BY <1>6 DEF LoadState
  <2>2. Behind(store[t]) /\ store[t].gate \in NoGate
    BY <2>1 DEF StoreBehind, VerifierBehind
  <2>3. store[t].done \in Nat
    BY <1>1, <2>1 DEF StoreType, ExecutionState
  <2>4. vidx' - 1 = store[t].done
    BY <2>1, <2>3
  <2>5. Before(vidx' - 1)
    BY <2>2, <2>4 DEF Behind
  <2> QED BY <2>1, <2>2, <2>5 DEF Saved, Going
<1>7. CASE SkipStep \/ InternalTool \/ ToolSucceeds
  <2>1. vpc \in {"loop", "calling"} /\ vst \in ExecutionState /\ Behind(vst)
    BY <1>1, <1>7 DEF SkipStep, InternalTool, ToolSucceeds, AtStep
  <2>2. failAuditExecution(t, vst) \/ (Advance /\ UNCHANGED store)
    BY <1>7 DEF SkipStep, InternalTool, ToolSucceeds
  <2>3. Before(vidx)
    BY <1>2, <1>7, PausesBehind DEF SkipStep, InternalTool, ToolSucceeds, AtStep
  <2> QED BY <1>1, <1>2, <2>1, <2>2, <2>3, EndHeld, AdvanceHeld
<1>8. CASE SendToAnalyst
  <2>1. vpc' = "idle" /\ UNCHANGED store
    BY <1>8 DEF SendToAnalyst, Return
  <2> QED BY <2>1, IdleGoing DEF Saved, StoreBehind
<1>9. CASE PassGate
  <2>1. vpc = "loop" /\ vidx \in 1..N /\ steps[vidx].kind = "gate" /\ vst.gate = steps[vidx].gate
    BY <1>2, <1>9 DEF PassGate, AtStep
  <2>2. vst.gate \in Gates
    BY <1>2, <2>1, PipelineType
  <2> QED BY <1>2, <2>1, <2>2, PipelinesAssumption DEF NoGate
<1>10. CASE PauseAtGate
  <2> DEFINE st == Paused(steps[vidx].gate)
  <2>1. vpc = "loop" /\ vidx \in 1..N /\ steps[vidx].kind = "gate"
    BY <1>2, <1>10 DEF PauseAtGate, AtStep
  <2>2. steps[vidx].gate \in Gates
    BY <1>2, <2>1, PipelineType
  <2>3. st \in ExecutionState
    BY <2>1, <2>2, PauseTypes
  <2>4. Behind(st)
    BY <1>2, <2>1, PausesBehind
  <2>5. failAuditExecution(t, st) \/ (Save(t, st) /\ Return)
    BY <1>10 DEF PauseAtGate
  <2> HIDE DEF st
  <2> QED BY <1>1, <2>3, <2>4, <2>5, EndHeld
<1>11. CASE AwaitCallback
  <2>1. vpc = "loop" /\ vidx \in DOMAIN steps /\ steps[vidx].kind = "await"
    BY <1>11 DEF AwaitCallback, AtStep
  <2>2. Awaiting \in ExecutionState /\ Behind(Awaiting)
    BY <1>2, <2>1, PauseTypes, PausesBehind
  <2>3. failAuditExecution(t, Awaiting) \/ (Save(t, Awaiting) /\ Return)
    BY <1>11 DEF AwaitCallback
  <2> QED BY <1>1, <2>2, <2>3, EndHeld
<1>12. CASE StartTool
  <2>1. /\ vpc = "loop" /\ vidx \in DOMAIN steps /\ steps[vidx].kind \in {"tool", "agent"}
        /\ vst \in ExecutionState /\ Behind(vst) /\ Before(vidx)
    BY <1>1, <1>2, <1>12, PausesBehind DEF StartTool, AtStep
  <2>2. CASE failAuditExecution(t, vst)
    BY <1>1, <2>1, <2>2, EndHeld
  <2>3. ASSUME NEW st, Behind(st), st.gate \in NoGate, Goto("invoke", st)
        PROVE  Going(t)
    <3>1. vpc' = "invoke" /\ vst' = st /\ vidx' = vidx
      BY <2>3 DEF Goto
    <3> QED BY <1>2, <2>1, <2>3, <3>1 DEF Going
  <2>4. CASE /\ steps[vidx].kind = "tool" /\ steps[vidx].submits /\ AwaitAhead(vidx)
             /\ Save(t, Prepared) /\ Goto("invoke", Prepared)
    <3>1. Behind(Prepared) /\ Prepared.gate \in NoGate
      BY <1>2, <2>1, <2>4, PausesBehind
    <3>2. store'[t] = Prepared
      BY <1>1, <2>4 DEF Save, StoreType
    <3> QED BY <2>3, <2>4, <3>1, <3>2 DEF Saved
  <2>5. CASE Goto("invoke", vst) /\ UNCHANGED store
    BY <1>2, <2>1, <2>3, <2>5 DEF Saved, StoreBehind
  <2> QED BY <1>12, <2>2, <2>4, <2>5 DEF StartTool
<1>13. CASE Invoke
  <2>1. vpc = "invoke" /\ vpc' = "calling" /\ vst' = vst /\ vidx' = vidx /\ UNCHANGED store
    BY <1>13 DEF Invoke, Goto
  <2> QED BY <1>1, <1>2, <2>1 DEF Saved, Going, StoreBehind
<1>14. CASE AgentFails
  <2>1. vst \in ExecutionState /\ Behind(vst)
    BY <1>1, <1>14 DEF AgentFails
  <2>2. failAuditExecution(t, vst) \/ (vpc' = "idle" /\ UNCHANGED store)
    BY <1>14 DEF AgentFails, Return
  <2> QED BY <1>1, <2>1, <2>2, EndHeld, IdleGoing DEF Saved, StoreBehind
<1>15. CASE ToolFails
  <2>1. vst \in ExecutionState /\ Behind(vst) /\ vpc' = "fail"
    BY <1>1, <1>15 DEF ToolFails
  <2>2. Behind(Failed(vst))
    BY <2>1, RecordsBehind
  <2>3. \/ vst' = Failed(vst) /\ Save(t, Failed(vst))
        \/ UNCHANGED <<vst, store>>
    BY <1>15 DEF ToolFails
  <2>4. Behind(vst') /\ Saved(t)
    BY <1>1, <2>1, <2>2, <2>3 DEF Saved, Save, StoreType, StoreBehind
  <2> QED BY <2>1, <2>4 DEF Going
<1>16. CASE LoadFailed
  <2>1. /\ vpc = "fail" /\ vpc' = "failsave" /\ UNCHANGED store
        /\ vst' = IF store[t] # NoState THEN store[t] ELSE vst
    BY <1>16 DEF LoadFailed, Goto
  <2> QED BY <1>1, <2>1 DEF Saved, Going, StoreBehind
<1>17. CASE SaveFailed
  <2>1. /\ vpc = "failsave" /\ varg \in {"error", "rejected"}
        /\ vst \in ExecutionState /\ Behind(vst)
        /\ Save(t, Ended(vst, varg)) /\ Return
    BY <1>1, <1>17 DEF SaveFailed, TypeInv, VerifierType, Locals
  <2>2. Ended(vst, varg) \in ExecutionState /\ Behind(Ended(vst, varg))
    BY <2>1, RecordTypes, RecordsBehind
  <2> QED BY <1>1, <2>1, <2>2, EndHeld
<1> QED
  BY <1>3, <1>4, <1>5, <1>6, <1>7, <1>8, <1>9, <1>10, <1>11, <1>12, <1>13, <1>14, <1>15, <1>16,
     <1>17
     DEF executeLinear

-----------------------------------------------------------------------------
(***************************************************************************)
(* The parts of Held after a step, by what the step wrote.                 *)
(***************************************************************************)
LEMMA HeldNext ==
    ASSUME NEW t, UNCHANGED steps
    PROVE  /\ Saved(t) => StoreBehind(t)'
           /\ (vtask' = t => Going(t)) => VerifierBehind(t)'
           /\ inbox' \in Seq(Undecided(t)) /\ abox' \in Seq(Summarised(t)) => BoxesBehind(t)'
           /\ (analyst'.pc = "save" /\ analyst'.task = t
                 => Behind(analyst'.st) /\ Before(CompletedSteps)) => AnalystBehind(t)'
           /\ (\A r \in Requests :
                 req'[r].pc = "read" /\ req'[r].task = t =>
                    /\ req'[r].op # "approved"
                    /\ req'[r].op = "callback_received"
                          => Behind(req'[r].st) /\ req'[r].st.gate = "await_callback")
                 => RequestsBehind(t)'
           /\ (\A i \in 1..N : ran'[t][i] > 0 => UnconditionalGates(i) = {}) => RanBehind(t)'
<1>1. Saved(t) => StoreBehind(t)'
  BY DEF Saved, StoreBehind, Behind, Before
<1>2. (vtask' = t => Going(t)) => VerifierBehind(t)'
  BY DEF Going, VerifierBehind, Behind, Before, Holding, NoGate
<1>3. inbox' \in Seq(Undecided(t)) /\ abox' \in Seq(Summarised(t)) => BoxesBehind(t)'
  BY DEF BoxesBehind, Undecided, Summarised, Before, CompletedSteps
<1>4. (analyst'.pc = "save" /\ analyst'.task = t
         => Behind(analyst'.st) /\ Before(CompletedSteps)) => AnalystBehind(t)'
  BY DEF AnalystBehind, Behind, Before, CompletedSteps
<1>5. (\A r \in Requests :
         req'[r].pc = "read" /\ req'[r].task = t =>
            /\ req'[r].op # "approved"
            /\ req'[r].op = "callback_received"
                  => Behind(req'[r].st) /\ req'[r].st.gate = "await_callback")
         => RequestsBehind(t)'
  BY DEF RequestsBehind, Behind, Before
<1>6. (\A i \in 1..N : ran'[t][i] > 0 => UnconditionalGates(i) = {}) => RanBehind(t)'
  BY DEF RanBehind, UnconditionalGates, N
<1> QED BY <1>1, <1>2, <1>3, <1>4, <1>5, <1>6

LEMMA SameParts ==
    ASSUME NEW t, UNCHANGED steps
    PROVE  /\ StoreBehind(t) /\ store'[t] = store[t] => StoreBehind(t)'
           /\ VerifierBehind(t) /\ UNCHANGED verifierVars
                 /\ (store'[t] = store[t] \/ store'[t].gate \in NoGate) => VerifierBehind(t)'
           /\ BoxesBehind(t) /\ UNCHANGED <<inbox, abox>> => BoxesBehind(t)'
           /\ AnalystBehind(t) /\ UNCHANGED analyst => AnalystBehind(t)'
           /\ RequestsBehind(t) /\ UNCHANGED req => RequestsBehind(t)'
           /\ RanBehind(t) /\ ran'[t] = ran[t] => RanBehind(t)'
<1>1. StoreBehind(t) /\ store'[t] = store[t] => StoreBehind(t)'
  BY HeldNext DEF Saved, StoreBehind
<1>2. VerifierBehind(t) /\ UNCHANGED verifierVars
         /\ (store'[t] = store[t] \/ store'[t].gate \in NoGate) => VerifierBehind(t)'
  BY HeldNext DEF Going, VerifierBehind, verifierVars
<1>3. BoxesBehind(t) /\ UNCHANGED <<inbox, abox>> => BoxesBehind(t)'
  BY HeldNext DEF BoxesBehind
<1>4. AnalystBehind(t) /\ UNCHANGED analyst => AnalystBehind(t)'
  BY HeldNext DEF AnalystBehind
<1>5. RequestsBehind(t) /\ UNCHANGED req => RequestsBehind(t)'
  BY HeldNext DEF RequestsBehind
<1>6. RanBehind(t) /\ ran'[t] = ran[t] => RanBehind(t)'
  BY HeldNext DEF RanBehind
<1> QED BY <1>1, <1>2, <1>3, <1>4, <1>5, <1>6

(***************************************************************************)
(* The bus brings no approval that was not admitted.                       *)
(***************************************************************************)
LEMMA InboxBehind ==
    ASSUME NEW t \in Tasks, TypeInv, RequestsBehind(t), inbox \in Seq(Undecided(t)), [Next]_vars
    PROVE  inbox' \in Seq(Undecided(t))
<1>1. ASSUME NEW u \in Tasks, NEW type \in {"run_pipeline"} \cup Operations, Sends(u, type)
      PROVE  inbox' \in Seq(Undecided(t))
  <2>1. u = t => type # "approved"
    BY <1>1 DEF Sends, RequestsBehind
  <2>2. [type |-> type, task |-> u] \in Undecided(t)
    BY <2>1 DEF Undecided, Messages, Operations
  <2> QED BY <1>1, <2>2, DeliveredType DEF Sends, Send
<1>2. inbox # <<>> => Tail(inbox) \in Seq(Undecided(t))
  BY HeadTailType
<1> QED BY <1>1, <1>2, NextInbox, EmptySeq DEF InboxStep

LEMMA HeadUndecided ==
    ASSUME NEW t, BoxesBehind(t), NEW type, Receive(type)
    PROVE  Head(inbox) \in Messages /\ (Head(inbox).task = t => type # "approved")
<1>1. Head(inbox) \in Undecided(t)
  BY HeadTailType DEF BoxesBehind, Receive
<1> QED BY <1>1 DEF Undecided, Receive

-----------------------------------------------------------------------------
(***************************************************************************)
(* One lemma per actor: what was held back stays so.                       *)
(***************************************************************************)
LEMMA WorkingFrame ==
    ASSUME SaveDecision \/ SaveCallback \/ SaveExpired \/ executeLinear
    PROVE  /\ UNCHANGED <<steps, approvals>>
           /\ SendToAnalyst \/ abox' = abox
           /\ Invoke \/ ran' = ran
<1> USE DEF runUnchanged, envVars, analystVars, history
<1>1. CASE SaveDecision \/ SaveCallback \/ SaveExpired
  BY <1>1 DEF SaveDecision, SaveCallback, SaveExpired
<1>2. CASE LoadState \/ SkipStep \/ PassGate \/ PauseAtGate \/ AwaitCallback \/ InternalTool
  BY <1>2 DEF LoadState, SkipStep, PassGate, PauseAtGate, AwaitCallback, InternalTool
<1>3. CASE StartTool \/ ToolSucceeds \/ AgentFails \/ ToolFails \/ LoadFailed \/ SaveFailed
  BY <1>3 DEF StartTool, ToolSucceeds, AgentFails, ToolFails, LoadFailed, SaveFailed
<1>4. CASE SendToAnalyst
  BY <1>4 DEF SendToAnalyst
<1>5. CASE Invoke
  BY <1>5 DEF Invoke
<1> QED BY <1>1, <1>2, <1>3, <1>4, <1>5 DEF executeLinear

LEMMA WorkingHeld ==
    ASSUME NEW t \in Tasks, TypeInv, NoLateGate, Held(t),
           SaveDecision \/ SaveCallback \/ SaveExpired \/ executeLinear
    PROVE  Held(t)'
<1> USE DEF Held
<1>1. Working /\ UNCHANGED steps
  BY WorkingSteps, WorkingFrame
<1>2. UNCHANGED <<inbox, analyst, req>> /\ vtask' = vtask /\ vtask \in Tasks
  BY <1>1 DEF Working, TypeInv, VerifierType
<1>3. AnalystBehind(t)' /\ RequestsBehind(t)'
  BY <1>1, <1>2, SameParts
<1>4. StoreBehind(t)' /\ VerifierBehind(t)'
  <2>1. CASE vtask = t
    BY <1>1, <1>2, <2>1, WorkHeld, HeldNext
  <2>2. CASE vtask # t
    <3>1. store'[t] = store[t]
      BY <1>1, <2>2 DEF Working
    <3> QED BY <1>1, <1>2, <2>2, <3>1, SameParts, HeldNext
  <2> QED BY <2>1, <2>2
<1>5. BoxesBehind(t)'
  <2>1. abox \in Seq(Summarised(t)) /\ inbox' \in Seq(Undecided(t))
    BY <1>2 DEF BoxesBehind
  <2>2. CASE abox' = abox
    BY <1>1, <2>1, <2>2, HeldNext
  <2>3. CASE SendToAnalyst
    <3>1. abox' = Delivered(abox, vtask)
      BY <2>3 DEF SendToAnalyst
    <3>2. vtask = t => Before(CompletedSteps)
      BY <2>3, SummaryBehind DEF VerifierBehind, SendToAnalyst, AtStep
    <3>3. vtask \in Summarised(t)
      BY <1>2, <3>2 DEF Summarised
    <3>4. abox' \in Seq(Summarised(t))
      BY <2>1, <3>1, <3>3, DeliveredType
    <3> QED BY <1>1, <2>1, <3>4, HeldNext
  <2> QED BY <2>2, <2>3, WorkingFrame
<1>6. RanBehind(t)'
  <2>1. CASE ran' = ran
    BY <1>1, <2>1, SameParts
  <2>2. CASE Invoke
    <3>1. /\ ran' = [ran EXCEPT ![vtask][vidx] = @ + 1]
          /\ vidx \in 1..N /\ steps \in Pipelines /\ ran \in [Tasks -> [1..N -> Nat]]
      BY <2>2 DEF Invoke, TypeInv, VerifierType, Locals, EnvType, CountType
    <3>2. vtask = t => UnconditionalGates(vidx) = {}
      BY <2>2, <3>1, BeforeMeans DEF Invoke, VerifierBehind
    <3>3. ASSUME NEW i \in 1..N, ran'[t][i] > 0
          PROVE  UnconditionalGates(i) = {}
      <4>1. CASE vtask = t /\ i = vidx
        BY <3>2, <4>1
      <4>2. CASE ~(vtask = t /\ i = vidx)
        <5>1. ran'[t][i] = ran[t][i]
          BY <1>2, <3>1, <4>2
        <5> QED BY <3>3, <5>1 DEF RanBehind
      <4> QED BY <4>1, <4>2
    <3> QED BY <1>1, <3>3, HeldNext
  <2> QED BY <2>1, <2>2, WorkingFrame
<1> QED BY <1>3, <1>4, <1>5, <1>6

(***************************************************************************)
(* A handler that begins, or a step elsewhere: the record stays, or is one *)
(* with no gate ahead, and so does what the verifier holds.                *)
(***************************************************************************)
LEMMA BeginsHeld ==
    ASSUME NEW t \in Tasks, TypeInv, Held(t), inbox' \in Seq(Undecided(t)),
           UNCHANGED <<steps, abox, analyst, req, ran>>, Saved(t), vtask' = t => Going(t)
    PROVE  Held(t)'
<1>1. abox' \in Seq(Summarised(t))
  BY DEF Held, BoxesBehind
<1> QED BY <1>1, SameParts, HeldNext DEF Held

LEMMA RunPipelineHeld ==
    ASSUME NEW t \in Tasks, TypeInv, Pinning, Held(t), inbox' \in Seq(Undecided(t)),
           handleRunPipeline
    PROVE  Held(t)'
<1> DEFINE u == Head(inbox).task
           st == [LoadOrNew(u) EXCEPT !.version = cfg]
<1>1. UNCHANGED <<steps, abox, analyst, req, ran>>
  BY DEF handleRunPipeline, analystVars, envVars, history
<1>2. inbox \in Seq(Messages) /\ inbox # <<>> /\ Head(inbox).type = "run_pipeline" /\ u \in Tasks
  BY HeadUndecided DEF handleRunPipeline, Receive, Held, TypeInv, BusType, Messages
<1>3. \/ /\ cfg # 0
         /\ \/ Save(u, st) /\ vtask' = u /\ vpc' = "load"
            \/ failAuditExecution(u, st)
      \/ Return /\ UNCHANGED store
  BY DEF handleRunPipeline
<1>4. ASSUME cfg # 0, u = t
      PROVE  st \in ExecutionState /\ Behind(st) /\ st.gate \in NoGate
  <2>1. 1 \in DOMAIN inbox /\ inbox[1] = Head(inbox)
    BY <1>2
  <2>2. Pinned(t)
    BY <1>4 DEF Pinning
  <2>3. ~Elsewhere(t)
    <3>1. Elsewhere(t) => Head(inbox) \in MessagesTo(Tasks \ {t})
      BY <1>2, HeadTailType DEF Elsewhere
    <3> QED BY <1>4, <3>1 DEF MessagesTo
  <2>4. store[t] = Blank
    BY <1>2, <1>4, <2>1, <2>2, <2>3 DEF Pinned, FirstMessage
  <2>5. LoadOrNew(t) = Blank
    BY <2>4 DEF LoadOrNew
  <2>6. Behind(Blank) /\ Blank.gate \in NoGate
    BY BlankBehind DEF TypeInv, EnvType
  <2>7. st = [Blank EXCEPT !.version = cfg]
    BY <1>4, <2>5
  <2>8. st.done = Blank.done /\ st.gate = Blank.gate /\ st \in ExecutionState
    BY <2>7, BlankType, RecordTypes DEF Blank, TypeInv, EnvType
  <2> QED BY <2>6, <2>8 DEF Behind
<1> HIDE DEF u, st
<1>5. Saved(t) /\ (vtask' = t => Going(t))
  <2>1. CASE UNCHANGED store /\ Return
    BY <2>1, IdleGoing DEF Return, Saved, Held, StoreBehind
  <2>2. CASE cfg # 0 /\ u = t /\ Save(u, st) /\ vpc' = "load"
    <3>1. store'[t] = st
      BY <2>2 DEF Save, TypeInv, StoreType
    <3> QED BY <1>4, <2>2, <3>1 DEF Saved, Going, Holding
  <2>3. CASE cfg # 0 /\ u = t /\ failAuditExecution(u, st)
    BY <1>4, <2>3, EndHeld DEF TypeInv
  <2>4. CASE u # t /\ Save(u, st) /\ vtask' = u
    <3>1. store'[t] = store[t]
      BY <2>4, SaveFrame DEF TypeInv
    <3> QED BY <2>4, <3>1 DEF Saved, Held, StoreBehind
  <2>5. CASE u # t /\ failAuditExecution(u, st)
    <3>1. store'[t] = store[t]
      BY <2>5, EndFrame DEF TypeInv
    <3>2. vpc' = "idle"
      BY <2>5 DEF failAuditExecution, Return
    <3> QED BY <3>1, <3>2, IdleGoing DEF Saved, Held, StoreBehind
  <2> QED BY <1>3, <2>1, <2>2, <2>3, <2>4, <2>5
<1> QED BY <1>1, <1>5, BeginsHeld

LEMMA VerifierHeld ==
    ASSUME NEW t \in Tasks, TypeInv, NoLateGate, Pinning, Held(t),
           inbox' \in Seq(Undecided(t)), Verifier
    PROVE  Held(t)'
<1> USE DEF envVars, analystVars, history
<1> DEFINE u == Head(inbox).task
<1>1. ASSUME NEW decision \in {"approved", "rejected"}, handleHumanDecision(decision)
      PROVE  Held(t)'
  <2>1. UNCHANGED <<steps, abox, analyst, req, ran>>
    BY <1>1 DEF handleHumanDecision
  <2>2. u = t => decision # "approved"
    BY <1>1, HeadUndecided DEF handleHumanDecision, Held
  <2>3. \/ store[u] = NoState /\ storeError(u)
        \/ /\ store[u] # NoState /\ UNCHANGED store
           /\ vtask' = u /\ vst' = store[u] /\ varg' = decision /\ vpc' = "decision"
    BY <1>1 DEF handleHumanDecision
  <2> HIDE DEF u
  <2>4. Saved(t) /\ (vtask' = t => Going(t))
    <3>1. CASE storeError(u)
      <4>1. vpc' = "idle" /\ store' = [store EXCEPT ![u] = NoState]
        BY <3>1 DEF storeError, Return, Save
      <4>2. store'[t] \in {store[t], NoState}
        BY <4>1 DEF TypeInv, StoreType
      <4> QED BY <4>1, <4>2, IdleGoing DEF Saved, Held, StoreBehind
    <3>2. CASE /\ store[u] # NoState /\ UNCHANGED store
               /\ vtask' = u /\ vst' = store[u] /\ varg' = decision /\ vpc' = "decision"
      BY <2>2, <3>2 DEF Saved, Going, Held, StoreBehind, Holding
    <3> QED BY <2>3, <3>1, <3>2
  <2> QED BY <2>1, <2>4, BeginsHeld
<1>2. CASE handleCallback
  <2>1. UNCHANGED <<steps, abox, analyst, req, ran, store>>
    BY <1>2 DEF handleCallback
  <2>2. \/ Resumable(store[u]) /\ vtask' = u /\ vst' = store[u] /\ vpc' = "callback"
        \/ UNCHANGED verifierVars
    BY <1>2 DEF handleCallback, MatchCallback
  <2> HIDE DEF u
  <2>3. Saved(t) /\ (vtask' = t => Going(t))
    <3>1. CASE Resumable(store[u]) /\ vtask' = u /\ vst' = store[u] /\ vpc' = "callback"
      BY <2>1, <3>1 DEF Resumable, Saved, Going, Held, StoreBehind, Holding
    <3>2. CASE UNCHANGED verifierVars
      BY <2>1, <3>2 DEF Saved, Going, Held, StoreBehind, VerifierBehind, verifierVars
    <3> QED BY <2>2, <3>1, <3>2
  <2> QED BY <2>1, <2>3, BeginsHeld
<1> QED BY <1>1, <1>2, RunPipelineHeld, WorkingHeld DEF Verifier

LEMMA TickerHeld ==
    ASSUME NEW t \in Tasks, TypeInv, Held(t), inbox' \in Seq(Undecided(t)),
           NEW u \in Tasks, Ticker(u)
    PROVE  Held(t)'
<1>1. UNCHANGED <<steps, abox, analyst, req, ran, store>>
  BY DEF Ticker, recoverPendingCallbacks, expireAwaitingCallbacks, envVars, analystVars, history
<1>2. /\ vtask' = u /\ vst' = store[u] /\ store[u] # NoState
      /\ vpc' = "expire" \/ (vpc' = "callback" /\ store[u].gate = "await_callback")
  BY DEF Ticker, recoverPendingCallbacks, expireAwaitingCallbacks, MatchCallback, Resumable,
         Overdue
<1>3. Saved(t) /\ (vtask' = t => Going(t))
  BY <1>1, <1>2 DEF Saved, Going, Held, StoreBehind, Holding
<1> QED BY <1>1, <1>3, BeginsHeld

LEMMA AnalystHeld ==
    ASSUME NEW t \in Tasks, TypeInv, Held(t), Analyst
    PROVE  Held(t)'
<1> USE DEF runUnchanged, envVars, history, Held
<1>1. UNCHANGED <<steps, inbox, req, ran, verifierVars>>
  BY DEF Analyst, LoadCompletion, SaveCompletion
<1>2. CASE LoadCompletion
  <2>1. /\ UNCHANGED store /\ abox' = Tail(abox)
        /\ analyst' = [pc |-> "save", task |-> Head(abox), st |-> LoadOrNew(Head(abox))]
    BY <1>2 DEF LoadCompletion
  <2>2. Head(abox) \in Summarised(t) /\ Tail(abox) \in Seq(Summarised(t))
    BY <1>2, HeadTailType DEF LoadCompletion, BoxesBehind
  <2>3. Behind(LoadOrNew(t))
    BY BlankBehind DEF LoadOrNew, StoreBehind, TypeInv, EnvType
  <2>4. AnalystBehind(t)'
    <3>1. analyst'.task = t => Behind(analyst'.st) /\ Before(CompletedSteps)
      BY <2>1, <2>2, <2>3 DEF Summarised
    <3> QED BY <1>1, <3>1, HeldNext
  <2>5. BoxesBehind(t)'
    BY <1>1, <2>1, <2>2, HeldNext DEF BoxesBehind
  <2> QED BY <1>1, <2>1, <2>4, <2>5, SameParts
<1>3. CASE SaveCompletion
  <2>1. /\ Save(analyst.task, Completed(analyst.st)) /\ UNCHANGED abox
        /\ analyst.pc = "save" /\ analyst'.pc = "idle" /\ analyst.st \in ExecutionState
    BY <1>3 DEF SaveCompletion, TypeInv, AnalystType
  <2>2. AnalystBehind(t)' /\ BoxesBehind(t)'
    BY <1>1, <2>1, HeldNext, SameParts
  <2>3. Saved(t) /\ (store'[t] = store[t] \/ store'[t].gate \in NoGate)
    <3>1. CASE analyst.task # t
      <4>1. store'[t] = store[t]
        BY <2>1, <3>1, SaveFrame DEF TypeInv
      <4> QED BY <4>1 DEF Saved, StoreBehind
    <3>2. CASE analyst.task = t
      <4>1. store'[t] = Completed(analyst.st)
        BY <2>1, <3>2 DEF Save, TypeInv, StoreType
      <4>2. Behind(analyst.st) /\ Before(CompletedSteps)
        BY <2>1, <3>2 DEF AnalystBehind
      <4>3. Behind(Completed(analyst.st)) /\ Completed(analyst.st).gate = ""
        BY <2>1, <4>2, RecordsBehind
      <4> QED BY <4>1, <4>3 DEF Saved, NoGate
    <3> QED BY <3>1, <3>2
  <2> QED BY <1>1, <2>2, <2>3, HeldNext, SameParts
<1> QED BY <1>2, <1>3 DEF Analyst

LEMMA ApiHeld ==
    ASSUME NEW t \in Tasks, TypeInv, Held(t), inbox' \in Seq(Undecided(t)), Unapproved(t)',
           NEW r \in Requests, Api(r)
    PROVE  Held(t)'
<1> USE DEF apiUnchanged, envVars, analystVars, Held
<1>1. UNCHANGED <<steps, abox, analyst, ran, verifierVars>>
  BY DEF Api, ReadCallback, ReadDecision, AcceptCallback, SendDecision, history
<1>2. AnalystBehind(t)' /\ RanBehind(t)'
  BY <1>1, SameParts
<1>3. BoxesBehind(t)'
  BY <1>1, HeldNext DEF BoxesBehind
<1>4. ASSUME NEW u \in Tasks, NEW op \in Operations, Read(r, op, u), UNCHANGED store,
             u = t => /\ op # "approved"
                      /\ op = "callback_received" => store[t].gate = "await_callback"
      PROVE  Held(t)'
  <2>1. /\ req'[r].task = u /\ req'[r].st = store[u] /\ req'[r].op = op /\ store[u] # NoState
        /\ \A q \in Requests : q # r => req'[q] = req[q]
    BY <1>4 DEF Read, TypeInv, RequestType
  <2>2. u = t => Behind(store[t])
    BY <2>1 DEF StoreBehind
  <2>3. ASSUME NEW q \in Requests, req'[q].pc = "read", req'[q].task = t
        PROVE  /\ req'[q].op # "approved"
               /\ req'[q].op = "callback_received"
                    => Behind(req'[q].st) /\ req'[q].st.gate = "await_callback"
    BY <1>4, <2>1, <2>2, <2>3 DEF RequestsBehind
  <2>4. RequestsBehind(t)'
    BY <1>1, <2>3, HeldNext
  <2> QED BY <1>1, <1>2, <1>3, <1>4, <2>4, SameParts
<1>5. ASSUME Done(r)
      PROVE  RequestsBehind(t)'
  <2>1. req'[r].pc = "done" /\ \A q \in Requests : q # r => req'[q] = req[q]
    BY <1>5 DEF Done, TypeInv, RequestType
  <2>2. ASSUME NEW q \in Requests, req'[q].pc = "read", req'[q].task = t
        PROVE  /\ req'[q].op # "approved"
               /\ req'[q].op = "callback_received"
                    => Behind(req'[q].st) /\ req'[q].st.gate = "await_callback"
    BY <2>1, <2>2 DEF RequestsBehind
  <2> QED BY <1>1, <2>2, HeldNext
<1>6. ASSUME NEW u \in Tasks, ReadCallback(r, u)
      PROVE  Held(t)'
  BY <1>4, <1>6 DEF ReadCallback, Operations
<1>7. ASSUME NEW u \in Tasks, NEW decision \in {"approved", "rejected"},
             ReadDecision(r, u, decision)
      PROVE  Held(t)'
  <2>1. u = t => decision # "approved"
    <3> SUFFICES ASSUME u = t, decision = "approved" PROVE FALSE
      OBVIOUS
    <3> DEFINE g == store[t].gate
    <3>1. g \in Gates \cup {"await_callback"}
      BY <1>7 DEF ReadDecision, Read, TypeInv, StoreType, ExecutionState
    <3>2. approvals' = [approvals EXCEPT ![t][g] = @ + 1]
      BY <1>7 DEF ReadDecision
    <3> HIDE DEF g
    <3>3. approvals[t][g] \in Nat /\ approvals'[t][g] = approvals[t][g] + 1
      BY <3>1, <3>2 DEF TypeInv, CountType
    <3> QED BY <3>1, <3>3 DEF Unapproved
  <2> QED BY <1>4, <1>7, <2>1 DEF ReadDecision, Operations
<1>8. CASE AcceptCallback(r)
  <2> DEFINE u == req[r].task
  <2>1. /\ req[r].pc = "read" /\ req[r].op = "callback_received" /\ Done(r)
        /\ req[r].st \in ExecutionState
        /\ \/ \E receivedAt : Save(u, Accepted(req[r].st, receivedAt))
           \/ UNCHANGED store
    BY <1>8 DEF AcceptCallback, TypeInv, RequestType
  <2>2. Saved(t) /\ (store'[t] = store[t] \/ store'[t].gate \in NoGate)
    <3>1. CASE UNCHANGED store
      BY <3>1 DEF Saved, StoreBehind
    <3>2. ASSUME NEW receivedAt, Save(u, Accepted(req[r].st, receivedAt))
          PROVE  Saved(t) /\ (store'[t] = store[t] \/ store'[t].gate \in NoGate)
      <4>1. CASE u # t
        <5>1. store'[t] = store[t]
          BY <3>2, <4>1, SaveFrame DEF TypeInv
        <5> QED BY <5>1 DEF Saved, StoreBehind
      <4>2. CASE u = t
        <5>1. store'[t] = Accepted(req[r].st, receivedAt)
          BY <3>2, <4>2 DEF Save, TypeInv, StoreType
        <5>2. Behind(req[r].st) /\ req[r].st.gate = "await_callback"
          BY <2>1, <4>2 DEF RequestsBehind
        <5>3. /\ Behind(Accepted(req[r].st, receivedAt))
              /\ Accepted(req[r].st, receivedAt).gate = "await_callback"
          BY <2>1, <5>2, RecordsBehind
        <5> QED BY <5>1, <5>3 DEF Saved, NoGate
      <4> QED BY <4>1, <4>2
    <3> QED BY <2>1, <3>1, <3>2
  <2> QED BY <1>1, <1>2, <1>3, <1>5, <2>1, <2>2, HeldNext, SameParts
<1>9. CASE SendDecision(r)
  <2>1. Done(r) /\ UNCHANGED store
    BY <1>9 DEF SendDecision
  <2> QED BY <1>1, <1>2, <1>3, <1>5, <2>1, SameParts
<1> QED BY <1>6, <1>7, <1>8, <1>9 DEF Api

LEMMA CrashHeld ==
    ASSUME NEW t \in Tasks, TypeInv, Held(t), Crash
    PROVE  Held(t)'
<1>1. /\ UNCHANGED <<steps, store, ran>> /\ inbox' = <<>> /\ abox' = <<>> /\ vpc' = "idle"
      /\ analyst'.pc = "idle" /\ \A r \in Requests : req'[r].pc # "read"
  BY DEF Crash, Return, TypeInv, AnalystType, RequestType, history
<1>2. StoreBehind(t)' /\ RanBehind(t)'
  BY <1>1, SameParts DEF Held
<1>3. BoxesBehind(t)' /\ VerifierBehind(t)'
  BY <1>1, EmptySeq, IdleGoing, HeldNext
<1>4. AnalystBehind(t)' /\ RequestsBehind(t)'
  BY <1>1 DEF AnalystBehind, RequestsBehind
<1> QED BY <1>2, <1>3, <1>4 DEF Held

LEMMA DispatchHeld ==
    ASSUME NEW t \in Tasks, TypeInv, Held(t), inbox' \in Seq(Undecided(t)),
           NEW u \in Tasks, DispatchPipeline(u)
    PROVE  Held(t)'
<1>1. UNCHANGED <<steps, abox, analyst, req, ran, verifierVars>>
  BY DEF DispatchPipeline, envVars, analystVars, history
<1>2. Behind(Blank) /\ Blank.gate \in NoGate
  BY BlankBehind DEF TypeInv, EnvType
<1>3. store'[t] = store[t] \/ store'[t] = Blank
  BY DEF DispatchPipeline, Save, TypeInv, StoreType
<1>4. Saved(t) /\ (vtask' = t => Going(t))
  BY <1>1, <1>2, <1>3 DEF Saved, Going, Held, StoreBehind, VerifierBehind, verifierVars
<1> QED BY <1>1, <1>4, BeginsHeld

(***************************************************************************)
(* An approval is never taken back, and the pipeline never changes.        *)
(***************************************************************************)
LEMMA NextApprovals ==
    ASSUME NEW t \in Tasks, TypeInv, [Next]_vars
    PROVE  UNCHANGED steps /\ (Unapproved(t)' => Unapproved(t))
<1> USE DEF envVars, history
<1>1. UNCHANGED approvals => (Unapproved(t)' => Unapproved(t))
  BY DEF Unapproved
<1>2. CASE Verifier
  <2>1. CASE \/ handleRunPipeline \/ handleCallback
             \/ handleHumanDecision("approved") \/ handleHumanDecision("rejected")
    BY <1>1, <2>1 DEF handleRunPipeline, handleHumanDecision, handleCallback
  <2>2. CASE SaveDecision \/ SaveCallback \/ SaveExpired \/ executeLinear
    BY <1>1, <2>2, WorkingFrame
  <2> QED BY <1>2, <2>1, <2>2 DEF Verifier
<1>3. ASSUME NEW u \in Tasks, DispatchPipeline(u) \/ Ticker(u) \/ Poll(u)
      PROVE  UNCHANGED <<steps, approvals>>
  BY <1>3 DEF DispatchPipeline, Ticker, recoverPendingCallbacks, expireAwaitingCallbacks, Poll,
              AwaitHuman, GetResult, DeleteResult
<1>4. CASE Analyst \/ BreakJournal \/ Tick \/ Crash \/ UNCHANGED vars
  BY <1>1, <1>4 DEF Analyst, LoadCompletion, SaveCompletion, runUnchanged, BreakJournal, Tick,
                    Crash, vars
<1>5. ASSUME NEW r \in Requests, NEW u \in Tasks, NEW decision, ReadDecision(r, u, decision)
      PROVE  UNCHANGED steps /\ (Unapproved(t)' => Unapproved(t))
  <2> DEFINE g == store[u].gate
  <2>1. UNCHANGED steps
    BY <1>5 DEF ReadDecision, apiUnchanged
  <2>2. approvals' = [approvals EXCEPT ![u][g] = @ + 1] \/ approvals' = approvals
    BY <1>5 DEF ReadDecision
  <2> HIDE DEF g
  <2>3. approvals \in [Tasks -> [Gates \cup {"await_callback"} -> Nat]]
    BY DEF TypeInv, CountType
  <2>4. CASE approvals' = [approvals EXCEPT ![u][g] = @ + 1]
    <3> SUFFICES ASSUME Unapproved(t)', NEW h \in Gates \cup {"await_callback"}
                 PROVE  approvals[t][h] = 0
      BY <2>1 DEF Unapproved
    <3>1. approvals'[t][h] = 0 /\ approvals[t][h] \in Nat
      BY <2>3 DEF Unapproved
    <3>2. approvals'[t][h] = approvals[t][h] \/ approvals'[t][h] = approvals[t][h] + 1
      BY <2>3, <2>4
    <3> QED BY <3>1, <3>2
  <2> QED BY <1>1, <2>1, <2>2, <2>4
<1>6. ASSUME NEW r \in Requests, Api(r)
      PROVE  UNCHANGED steps /\ (Unapproved(t)' => Unapproved(t))
  BY <1>1, <1>5, <1>6 DEF Api, ReadCallback, AcceptCallback, SendDecision, apiUnchanged
<1> QED BY <1>1, <1>2, <1>3, <1>4, <1>6 DEF Next

LEMMA NextHeldBack ==
    TypeInv /\ Pinning /\ NoLateGate /\ HeldBack /\ [Next]_vars => HeldBack' /\ NoLateGate'
<1> SUFFICES ASSUME TypeInv, Pinning, NoLateGate, HeldBack, [Next]_vars
             PROVE  HeldBack' /\ NoLateGate'
  OBVIOUS
<1>1. NoLateGate'
  <2>1. UNCHANGED steps
    BY NextApprovals, BoundsAssumption
  <2> QED BY <2>1 DEF NoLateGate, AwaitAhead, IsLastAwait
<1>2. ASSUME NEW t \in Tasks, Unapproved(t)'
      PROVE  Held(t)'
  <2>1. UNCHANGED steps /\ Held(t)
    BY <1>2, NextApprovals DEF HeldBack
  <2>2. inbox' \in Seq(Undecided(t))
    BY <2>1, InboxBehind DEF Held, BoxesBehind
  <2>3. CASE BreakJournal \/ Tick \/ UNCHANGED vars
    <3>1. UNCHANGED <<store, abox, analyst, req, ran, verifierVars>>
      BY <2>3 DEF BreakJournal, Tick, vars, analystVars, history
    <3>2. store'[t] = store[t] /\ ran'[t] = ran[t] /\ abox' \in Seq(Summarised(t))
      BY <2>1, <3>1 DEF Held, BoxesBehind
    <3> QED BY <2>1, <2>2, <3>1, <3>2, SameParts, HeldNext DEF Held
  <2>4. ASSUME NEW u \in Tasks, Poll(u)
        PROVE  Held(t)'
    <3>1. UNCHANGED <<store, abox, analyst, req, ran, verifierVars>>
      BY <2>4 DEF Poll, AwaitHuman, GetResult, DeleteResult, analystVars, history
    <3>2. store'[t] = store[t] /\ ran'[t] = ran[t] /\ abox' \in Seq(Summarised(t))
      BY <2>1, <3>1 DEF Held, BoxesBehind
    <3> QED BY <2>1, <2>2, <3>1, <3>2, SameParts, HeldNext DEF Held
  <2> QED
    BY <1>2, <2>1, <2>2, <2>3, <2>4, VerifierHeld, TickerHeld, DispatchHeld, AnalystHeld, ApiHeld,
       CrashHeld
       DEF Next
<1> QED BY <1>1, <1>2 DEF HeldBack

(***************************************************************************)
(* No tool or agent behind an unconditional human gate is ever called for  *)
(* a task nobody has approved: executeLinear pauses before it, and neither *)
(* a callback, the ticker, the analyst's report, a dropped or repeated     *)
(* message nor a restart carries a run past it.  The hypothesis is needed: *)
(* a gate right after a submission is taken for its wait.                  *)
(***************************************************************************)
THEOREM NothingActsUnapproved == NoLateGate /\ Spec => []ApprovedBeforeActing
<1>1. Init => HeldBack
  <2> SUFFICES ASSUME Init, NEW t \in Tasks PROVE Held(t)
    BY DEF HeldBack
  <2>1. StoreBehind(t) /\ VerifierBehind(t)
    BY DEF Init, StoreBehind, VerifierBehind, Holding
  <2>2. BoxesBehind(t) /\ AnalystBehind(t) /\ RequestsBehind(t)
    BY EmptySeq DEF Init, BoxesBehind, AnalystBehind, RequestsBehind
  <2>3. RanBehind(t)
    <3>1. \A i \in 1..N : ran[t][i] = 0
      BY DEF Init
    <3> QED BY <3>1 DEF RanBehind
  <2> QED BY <2>1, <2>2, <2>3 DEF Held
<1>2. TypeInv /\ HeldBack => ApprovedBeforeActing
  <2> SUFFICES ASSUME TypeInv, HeldBack, NEW t \in Tasks, NEW i \in 1..N,
                      ran[t][i] > 0, UnconditionalGates(i) # {}
               PROVE  \E g \in Gates \cup {"await_callback"} : approvals[t][g] > 0
    BY DEF ApprovedBeforeActing
  <2>1. ~Unapproved(t)
    BY DEF HeldBack, Held, RanBehind
  <2>2. PICK g \in Gates \cup {"await_callback"} : approvals[t][g] # 0
    BY <2>1 DEF Unapproved
  <2>3. approvals[t][g] \in Nat
    BY DEF TypeInv, CountType
  <2>4. approvals[t][g] > 0
    BY <2>2, <2>3
  <2> QED BY <2>4
<1>3. Spec => []TypeInv
  BY InitType, NextType, PTL DEF Spec
<1>4. Spec => []Pinning
  BY InitPinning, NextPinning, <1>3, PTL DEF Spec
<1> QED BY <1>1, <1>2, <1>3, <1>4, NextHeldBack, PTL DEF Spec

-----------------------------------------------------------------------------
(***************************************************************************)
(* OneApprovalPerGate of LinearRun.  The approvals a task has spent bound  *)
(* the unconditional gates in front of every position from which it can    *)
(* still go on.  Gates that share a name would break it: a resume passes   *)
(* every gate of the name the record waits at.                             *)
(***************************************************************************)
NamesDistinct ==
    \A i, j \in DOMAIN steps :
        /\ steps[i].kind = "gate" /\ ~steps[i].cond
        /\ steps[j].kind = "gate" /\ ~steps[j].cond
        /\ steps[i].gate = steps[j].gate
        => i = j

(***************************************************************************)
(* k approvals take a run to position n, in front of which stand at most k *)
(* unconditional gates.                                                    *)
(***************************************************************************)
Within(k, n) == Cardinality(UnconditionalGates(n)) <= k

(***************************************************************************)
(* A resume from the record starts at a position that k approvals reach.   *)
(***************************************************************************)
Covered(k, st) ==
    /\ Within(k, st.done + 1)
    /\ st.gate = "await_callback" => Within(k, st.done + 2)

(***************************************************************************)
(* At position n, a record that waits at an unconditional gate ahead has   *)
(* one of the k approvals left for it.                                     *)
(***************************************************************************)
Left(k, n, gate) ==
    (\E j \in DOMAIN steps : /\ steps[j].kind = "gate" /\ ~steps[j].cond
                             /\ n <= j /\ steps[j].gate = gate)
        => Within(k - 1, n)

StoreCovered(t, k) == store[t] # NoState => Covered(k, store[t])

VerifierCovered(t, k) ==
    vtask = t =>
        /\ vpc = "callback" => vst.gate = "await_callback"
        /\ vpc \in Holding => Covered(k, vst)
        /\ vpc = "load" /\ store[t] # NoState => Left(k, store[t].done + 1, store[t].gate)
        /\ vpc \in {"loop", "invoke", "calling"} => Left(k, vidx, vst.gate) /\ Within(k, vidx)
        /\ vpc \in {"invoke", "calling"} => steps[vidx].kind # "gate"

Reported(t, k) == {u \in Tasks : u = t => Within(k, CompletedSteps + 1)}

ReportsCovered(t, k) == abox \in Seq(Reported(t, k))

AnalystCovered(t, k) ==
    analyst.pc = "save" /\ analyst.task = t
        => Covered(k, analyst.st) /\ Within(k, CompletedSteps + 1)

RequestsCovered(t, k) ==
    \A r \in Requests :
        req[r].pc = "read" /\ req[r].task = t /\ req[r].op = "callback_received"
            => Covered(k, req[r].st) /\ req[r].st.gate = "await_callback"

RanCovered(t, k) == \A i \in 1..N : ran[t][i] > 0 => Within(k, i)

TaskCovered(t, k) ==
    /\ StoreCovered(t, k) /\ VerifierCovered(t, k) /\ ReportsCovered(t, k)
    /\ AnalystCovered(t, k) /\ RequestsCovered(t, k) /\ RanCovered(t, k)

GatesCovered == \A t \in Tasks : \E k \in Nat : k <= Spent(t) /\ TaskCovered(t, k)

-----------------------------------------------------------------------------
(***************************************************************************)
(* Positions and the gates in front of them.                               *)
(***************************************************************************)
LEMMA GatesInFront ==
    ASSUME steps \in Pipelines, NEW n
    PROVE  /\ IsFiniteSet(UnconditionalGates(n))
           /\ Cardinality(UnconditionalGates(n)) \in Nat
<1>1. N \in Nat /\ DOMAIN steps = 1..N
  BY PipelineType
<1>2. IsFiniteSet(1..N)
  BY <1>1, FS_Interval
<1>3. UnconditionalGates(n) \subseteq 1..N
  BY <1>1 DEF UnconditionalGates
<1>4. IsFiniteSet(UnconditionalGates(n))
  BY <1>2, <1>3, FS_Subset
<1> QED BY <1>4, FS_CardinalityType

LEMMA WithinFewer ==
    ASSUME steps \in Pipelines, NEW k \in Int, NEW n, NEW m, Within(k, n),
           UnconditionalGates(m) \subseteq UnconditionalGates(n)
    PROVE  Within(k, m)
<1>1. /\ Cardinality(UnconditionalGates(m)) <= Cardinality(UnconditionalGates(n))
      /\ Cardinality(UnconditionalGates(m)) \in Nat /\ Cardinality(UnconditionalGates(n)) \in Nat
  BY GatesInFront, FS_Subset
<1> QED BY <1>1 DEF Within

LEMMA WithinLess ==
    ASSUME steps \in Pipelines, NEW k \in Int, NEW n \in Nat, NEW m \in Nat, m <= n, Within(k, n)
    PROVE  Within(k, m)
<1>1. \A j \in DOMAIN steps : j \in Nat
  BY PipelineType
<1>2. UnconditionalGates(m) \subseteq UnconditionalGates(n)
  BY <1>1 DEF UnconditionalGates
<1> QED BY <1>2, WithinFewer

LEMMA WithinPast ==
    ASSUME steps \in Pipelines, NEW k \in Int, NEW n \in Nat, Within(k, n),
           ~(n \in DOMAIN steps /\ steps[n].kind = "gate" /\ ~steps[n].cond)
    PROVE  Within(k, n + 1)
<1>1. \A j \in DOMAIN steps : j \in Nat
  BY PipelineType
<1>2. UnconditionalGates(n + 1) \subseteq UnconditionalGates(n)
  <2> SUFFICES ASSUME NEW j \in UnconditionalGates(n + 1) PROVE j \in UnconditionalGates(n)
    OBVIOUS
  <2>1. j \in DOMAIN steps /\ j \in Nat /\ j < n + 1 /\ j # n
    BY <1>1 DEF UnconditionalGates
  <2>2. j < n
    BY <2>1
  <2> QED BY <2>1, <2>2 DEF UnconditionalGates
<1> QED BY <1>2, WithinFewer

LEMMA WithinGate ==
    ASSUME steps \in Pipelines, NEW k \in Int, NEW n \in Nat, Within(k - 1, n)
    PROVE  Within(k, n + 1)
<1> DEFINE S == UnconditionalGates(n)
           T == UnconditionalGates(n + 1)
<1>1. \A j \in DOMAIN steps : j \in Nat
  BY PipelineType
<1>2. T \subseteq S \cup {n}
  <2> SUFFICES ASSUME NEW j \in T, j # n PROVE j \in S
    OBVIOUS
  <2>1. j \in DOMAIN steps /\ j \in Nat /\ j < n + 1
    BY <1>1 DEF UnconditionalGates
  <2>2. j < n
    BY <2>1
  <2> QED BY <2>1, <2>2 DEF UnconditionalGates
<1>3. IsFiniteSet(S) /\ Cardinality(S) \in Nat /\ Cardinality(T) \in Nat
  BY GatesInFront
<1>3a. Cardinality(S) <= k - 1
  BY DEF Within
<1> HIDE DEF S, T
<1>4. IsFiniteSet(S \cup {n}) /\ Cardinality(S \cup {n}) \in {Cardinality(S), Cardinality(S) + 1}
  BY <1>3, FS_AddElement
<1>5. Cardinality(T) <= Cardinality(S \cup {n})
  BY <1>2, <1>4, FS_Subset
<1>6. Cardinality(T) <= k
  BY <1>3, <1>3a, <1>4, <1>5
<1> QED BY <1>6 DEF Within, T

LEMMA WithinMore ==
    ASSUME steps \in Pipelines, NEW k \in Int, NEW n, Within(k, n)
    PROVE  Within(k + 1, n)
BY GatesInFront DEF Within

LEMMA WithinNone ==
    ASSUME steps \in Pipelines, NEW k \in Nat
    PROVE  Within(k, 1)
<1>1. \A j \in DOMAIN steps : j \in Nat \ {0}
  BY PipelineType
<1>2. UnconditionalGates(1) = {}
  BY <1>1 DEF UnconditionalGates
<1> QED BY <1>2, FS_EmptySet DEF Within

LEMMA LeftNone ==
    ASSUME steps \in Pipelines, NEW k, NEW n, NEW gate \in NoGate
    PROVE  Left(k, n, gate)
BY PipelineType, PipelinesAssumption DEF Left, NoGate

LEMMA LeftWithin ==
    ASSUME NEW k, NEW n, NEW gate, Within(k - 1, n)
    PROVE  Left(k, n, gate)
BY DEF Left

LEMMA StepPast ==
    ASSUME steps \in Pipelines, NEW k \in Int, NEW n \in Nat, NEW gate,
           Within(k, n), Left(k, n, gate),
           ~(n \in DOMAIN steps /\ steps[n].kind = "gate" /\ ~steps[n].cond)
    PROVE  Within(k, n + 1) /\ Left(k, n + 1, gate)
<1>1. \A j \in DOMAIN steps : j \in Nat
  BY PipelineType
<1>2. Within(k, n + 1) /\ (Within(k - 1, n) => Within(k - 1, n + 1))
  <2>1. k - 1 \in Int
    OBVIOUS
  <2> QED BY <2>1, WithinPast
<1>3. \A j \in DOMAIN steps : n + 1 <= j => n <= j
  BY <1>1
<1> QED BY <1>2, <1>3 DEF Left

LEMMA GatePast ==
    ASSUME steps \in Pipelines, NamesDistinct, NEW k \in Int, NEW n \in DOMAIN steps,
           steps[n].kind = "gate", ~steps[n].cond, Left(k, n, steps[n].gate)
    PROVE  Within(k, n + 1) /\ Left(k, n + 1, steps[n].gate)
<1>1. \A j \in DOMAIN steps : j \in Nat
  BY PipelineType
<1>2. n <= n /\ n \in Nat
  BY <1>1
<1>3. Within(k - 1, n)
  BY <1>2 DEF Left
<1>4. Within(k, n + 1)
  BY <1>2, <1>3, WithinGate
<1>5. Left(k, n + 1, steps[n].gate)
  <2>1. ASSUME NEW j \in DOMAIN steps, steps[j].kind = "gate", ~steps[j].cond, n + 1 <= j,
               steps[j].gate = steps[n].gate
        PROVE  FALSE
    <3>1. j = n
      BY <2>1 DEF NamesDistinct
    <3> QED BY <1>2, <2>1, <3>1
  <2> QED BY <2>1 DEF Left
<1> QED BY <1>4, <1>5

LEMMA RecordsCovered ==
    ASSUME NEW k, NEW st \in ExecutionState, Covered(k, st)
    PROVE  /\ Covered(k, Failed(st))
           /\ Covered(k, Rejected(st))
           /\ Covered(k, Expired(st))
           /\ \A o : Covered(k, Ended(st, o))
           /\ \A at : Covered(k, Accepted(st, at)) /\ Accepted(st, at).gate = st.gate
           /\ Within(k, CompletedSteps + 1)
                 => Covered(k, Completed(st)) /\ Completed(st).gate = ""
<1> USE DEF ExecutionState, Covered
<1>1. Failed(st).gate = "" /\ Failed(st).done = st.done
  BY DEF Failed
<1>2. Rejected(st).gate = "" /\ Rejected(st).done = st.done
  BY DEF Rejected
<1>3. Expired(st).gate = "" /\ Expired(st).done = st.done
  BY DEF Expired
<1>4. \A o : Ended(st, o).gate = st.gate /\ Ended(st, o).done = st.done
  BY DEF Ended
<1>5. \A at : Accepted(st, at).gate = st.gate /\ Accepted(st, at).done = st.done
  BY DEF Accepted
<1>6. Completed(st).gate = "" /\ Completed(st).done \in {st.done, CompletedSteps}
  BY DEF Completed
<1> QED BY <1>1, <1>2, <1>3, <1>4, <1>5, <1>6

LEMMA ResumedCovered ==
    ASSUME NEW k, NEW st \in ExecutionState, Covered(k, st), st.gate = "await_callback"
    PROVE  /\ Covered(k, Resumed(st)) /\ Resumed(st).gate = ""
           /\ Covered(k, [Resumed(st) EXCEPT !.status = "error", !.error = TRUE])
<1>1. Resumed(st).gate = "" /\ Resumed(st).done = st.done + 1
  BY DEF Resumed, ExecutionState
<1>2. /\ [Resumed(st) EXCEPT !.status = "error", !.error = TRUE].gate = ""
      /\ [Resumed(st) EXCEPT !.status = "error", !.error = TRUE].done = st.done + 1
  BY <1>1 DEF Resumed, ExecutionState
<1>3. st.done + 1 + 1 = st.done + 2
  <2>1. \A n \in Nat : n + 1 + 1 = n + 2
    OBVIOUS
  <2> QED BY <2>1 DEF ExecutionState
<1>4. Within(k, st.done + 1 + 1)
  BY <1>3 DEF Covered
<1> QED BY <1>1, <1>2, <1>4 DEF Covered

LEMMA BlankCovered ==
    ASSUME steps \in Pipelines, NEW k \in Nat
    PROVE  Covered(k, Blank) /\ Blank.gate \in NoGate
<1>1. Blank.gate = "" /\ Blank.done = 0
  BY DEF Blank
<1>2. Within(k, 0 + 1)
  BY WithinNone
<1> QED BY <1>1, <1>2 DEF Covered, NoGate

-----------------------------------------------------------------------------
(***************************************************************************)
(* The verifier at work for t.  What it leaves in the store, and what it   *)
(* goes on with.                                                           *)
(***************************************************************************)
SavedCovered(t, k) == store'[t] # NoState => Covered(k, store'[t])

GoingCovered(t, k) ==
    /\ vpc' = "callback" => vst'.gate = "await_callback"
    /\ vpc' \in Holding => Covered(k, vst')
    /\ vpc' = "load" /\ store'[t] # NoState => Left(k, store'[t].done + 1, store'[t].gate)
    /\ vpc' \in {"loop", "invoke", "calling"} => Left(k, vidx', vst'.gate) /\ Within(k, vidx')
    /\ vpc' \in {"invoke", "calling"} => steps[vidx'].kind # "gate"

LEMMA IdleCovered == ASSUME NEW t, NEW k, vpc' = "idle" PROVE GoingCovered(t, k)
BY DEF GoingCovered, Holding

LEMMA EndCovered ==
    ASSUME NEW t \in Tasks, NEW k, StoreType, NEW st \in ExecutionState, Covered(k, st),
           \/ failAuditExecution(t, st)
           \/ Save(t, st) /\ Return
           \/ storeError(t)
    PROVE  SavedCovered(t, k) /\ GoingCovered(t, k)
<1>1. vpc' = "idle"
  BY DEF failAuditExecution, storeError, Return
<1>2. store'[t] \in {Failed(st), st, NoState}
  BY DEF failAuditExecution, storeError, Save, StoreType
<1>3. SavedCovered(t, k)
  BY <1>2, RecordsCovered DEF SavedCovered
<1> QED BY <1>1, <1>3, IdleCovered

LEMMA ResumeCovered ==
    ASSUME NEW t \in Tasks, NEW k, StoreType, NEW st \in ExecutionState, Covered(k, st),
           Left(k, st.done + 1, st.gate), resumeFromState(t, st)
    PROVE  SavedCovered(t, k) /\ GoingCovered(t, k)
<1>1. CASE storeError(t) \/ failAuditExecution(t, st)
  BY <1>1, EndCovered
<1>2. CASE Save(t, st) /\ Goto("load", NoState)
  <2>1. store'[t] = st /\ vpc' = "load"
    BY <1>2 DEF Save, StoreType, Goto
  <2> QED BY <2>1 DEF SavedCovered, GoingCovered, Holding
<1> QED BY <1>1, <1>2 DEF resumeFromState

LEMMA AdvanceCovered ==
    ASSUME NEW t \in Tasks, NEW k, StoreCovered(t, k), Covered(k, vst),
           Left(k, vidx + 1, vst.gate), Within(k, vidx + 1), Advance, UNCHANGED store
    PROVE  SavedCovered(t, k) /\ GoingCovered(t, k)
<1>1. vpc' = "loop" /\ vst' = vst /\ vidx' = vidx + 1
  BY DEF Advance
<1>2. Left(k, vidx', vst'.gate) /\ Within(k, vidx')
  BY <1>1
<1>3. GoingCovered(t, k)
  BY <1>1, <1>2 DEF GoingCovered
<1> QED BY <1>3 DEF SavedCovered, StoreCovered

LEMMA PausesCovered ==
    ASSUME TypeInv, NoLateGate, NEW k \in Int, vpc = "loop", vidx \in DOMAIN steps,
           Within(k, vidx)
    PROVE  /\ steps[vidx].kind = "gate" => Covered(k, Paused(steps[vidx].gate))
           /\ steps[vidx].kind = "await" => Covered(k, Awaiting)
           /\ steps[vidx].kind = "tool" /\ steps[vidx].submits /\ AwaitAhead(vidx)
                 => Covered(k, Prepared) /\ Prepared.gate \in NoGate
<1> DEFINE n == vidx - 1
<1>1. /\ steps \in Pipelines /\ n \in Nat /\ n + 1 \in DOMAIN steps
      /\ vidx = n + 1 /\ vidx + 1 = n + 2 /\ vidx \in Nat
  BY PipelineType DEF TypeInv, EnvType
<1>2. steps[vidx].kind # "gate" => Within(k, vidx + 1)
  BY <1>1, WithinPast
<1> HIDE DEF n
<1>3. steps[vidx].kind = "gate" => Covered(k, Paused(steps[vidx].gate))
  <2> SUFFICES ASSUME steps[vidx].kind = "gate" PROVE Covered(k, Paused(steps[vidx].gate))
    OBVIOUS
  <2>1. steps[vidx].gate # "await_callback"
    BY <1>1, PipelineType, PipelinesAssumption
  <2>2. /\ Paused(steps[vidx].gate).gate = steps[vidx].gate
        /\ Paused(steps[vidx].gate).done = n
    BY DEF Paused, Blank, n
  <2> QED BY <1>1, <2>1, <2>2 DEF Covered
<1>4. steps[vidx].kind = "await" => Covered(k, Awaiting)
  <2> SUFFICES ASSUME steps[vidx].kind = "await" PROVE Covered(k, Awaiting)
    OBVIOUS
  <2>1. Within(k, n + 2)
    BY <1>1, <1>2
  <2>2. Awaiting.done = n
    BY DEF Awaiting, Paused, Blank, n
  <2> QED BY <1>1, <2>1, <2>2 DEF Covered
<1>5. steps[vidx].kind = "tool" /\ steps[vidx].submits /\ AwaitAhead(vidx)
         => Covered(k, Prepared) /\ Prepared.gate \in NoGate
  <2> SUFFICES ASSUME steps[vidx].kind = "tool", steps[vidx].submits, AwaitAhead(vidx)
               PROVE  Covered(k, Prepared) /\ Prepared.gate \in NoGate
    OBVIOUS
  <2> DEFINE m == vidx + 1
  <2>1. Within(k, m) /\ m \in Nat
    BY <1>1, <1>2
  <2>2. ~(steps[m].kind = "gate" /\ ~steps[m].cond)
    BY DEF NoLateGate
  <2> HIDE DEF m
  <2>3. Within(k, m + 1)
    BY <1>1, <2>1, <2>2, WithinPast
  <2>4. m + 1 = vidx + 2
    BY <1>1 DEF m
  <2>5. Within(k, vidx + 2) /\ Within(k, vidx + 1)
    BY <2>1, <2>3, <2>4 DEF m
  <2>6. Prepared.done = vidx /\ Prepared.gate = "await_callback"
    BY DEF Prepared, Blank
  <2> QED BY <2>5, <2>6 DEF Covered, NoGate
<1> QED BY <1>3, <1>4, <1>5

(***************************************************************************)
(* A summary written from here on counts the steps in front of this one.   *)
(***************************************************************************)
LEMMA SummaryCovered ==
    ASSUME TypeInv, NEW k \in Int, Within(k, vidx), SendToAnalyst
    PROVE  Within(k, CompletedSteps + 1)
<1>1. steps \in Pipelines /\ vidx \in Nat
  BY DEF TypeInv, EnvType, VerifierType
<1>2. CompletedSteps + 1 \in Nat /\ CompletedSteps + 1 <= vidx
  BY <1>1, SummaryCounts
<1> QED BY <1>1, <1>2, WithinLess

(***************************************************************************)
(* An approval the verifier acts on pays for the gate the record waits at. *)
(***************************************************************************)
LEMMA ApproveCovered ==
    ASSUME TypeInv, NEW t \in Tasks, NEW k \in Int, vtask = t, VerifierCovered(t, k),
           SaveDecision, varg = "approved"
    PROVE  SavedCovered(t, k + 1) /\ GoingCovered(t, k + 1)
<1>1. /\ StoreType /\ vpc = "decision" /\ vst \in ExecutionState /\ Covered(k, vst)
      /\ steps \in Pipelines /\ resumeFromState(t, vst)
  BY DEF TypeInv, EnvType, VerifierType, Locals, Holding, VerifierCovered, SaveDecision
<1>2. Covered(k + 1, vst)
  BY <1>1, WithinMore DEF Covered
<1>3. Left(k + 1, vst.done + 1, vst.gate)
  <2>1. Within(k, vst.done + 1) /\ k + 1 - 1 = k
    BY <1>1 DEF Covered
  <2> QED BY <2>1, LeftWithin
<1> QED BY <1>1, <1>2, <1>3, ResumeCovered

LEMMA WorkCovered ==
    ASSUME TypeInv, NoLateGate, NamesDistinct, NEW t \in Tasks, NEW k \in Int, vtask = t,
           StoreCovered(t, k), VerifierCovered(t, k),
           (SaveDecision /\ varg # "approved") \/ SaveCallback \/ SaveExpired \/ executeLinear
    PROVE  SavedCovered(t, k) /\ GoingCovered(t, k)
<1>1. StoreType /\ (vpc \in Holding => vst \in ExecutionState /\ Covered(k, vst))
  BY DEF TypeInv, VerifierType, Locals, Holding, VerifierCovered
<1>2. /\ steps \in Pipelines /\ vidx \in Nat /\ DOMAIN steps = 1..N
      /\ vpc \in {"loop", "invoke", "calling"} => Left(k, vidx, vst.gate) /\ Within(k, vidx)
      /\ vpc \in {"invoke", "calling"} => steps[vidx].kind # "gate"
  BY PipelineType DEF TypeInv, EnvType, VerifierType, VerifierCovered
<1> USE DEF Holding
<1>3. CASE SaveDecision /\ varg # "approved"
  <2>1. vpc = "decision" /\ Save(t, Rejected(vst)) /\ Return
    BY <1>3 DEF SaveDecision
  <2>2. Rejected(vst) \in ExecutionState /\ Covered(k, Rejected(vst))
    BY <1>1, <2>1, RecordTypes, RecordsCovered
  <2> QED BY <1>1, <2>1, <2>2, EndCovered
<1>4. CASE SaveCallback
  <2> DEFINE failed == [Resumed(vst) EXCEPT !.status = "error", !.error = TRUE]
  <2>1. vpc = "callback" /\ vst.gate = "await_callback" /\ vst \in ExecutionState
        /\ Covered(k, vst)
    BY <1>1, <1>4 DEF SaveCallback, VerifierCovered
  <2>2. /\ Resumed(vst) \in ExecutionState /\ Covered(k, Resumed(vst))
        /\ Resumed(vst).gate \in NoGate
        /\ failed \in ExecutionState /\ Covered(k, failed)
    BY <2>1, RecordTypes, ResumedCovered DEF NoGate
  <2>3. Left(k, Resumed(vst).done + 1, Resumed(vst).gate)
    BY <1>2, <2>2, LeftNone
  <2>4. resumeFromState(t, Resumed(vst)) \/ (Save(t, failed) /\ Return)
    BY <1>4 DEF SaveCallback
  <2> HIDE DEF failed
  <2> QED BY <1>1, <2>2, <2>3, <2>4, ResumeCovered, EndCovered
<1>5. CASE SaveExpired
  <2>1. Save(t, Expired(vst)) /\ Return /\ vpc = "expire"
    BY <1>5 DEF SaveExpired
  <2>2. Expired(vst) \in ExecutionState /\ Covered(k, Expired(vst))
    BY <1>1, <2>1, RecordTypes, RecordsCovered
  <2> QED BY <1>1, <2>1, <2>2, EndCovered
<1>6. CASE LoadState
  <2>1. /\ vpc = "load" /\ store[t] # NoState /\ vpc' = "loop" /\ vst' = store[t]
        /\ vidx' = store[t].done + 1 /\ UNCHANGED store
    BY <1>6 DEF LoadState
  <2>2. Covered(k, store[t]) /\ Left(k, store[t].done + 1, store[t].gate)
    BY <2>1 DEF StoreCovered, VerifierCovered
  <2>3. Left(k, vidx', vst'.gate) /\ Within(k, vidx')
    BY <2>1, <2>2 DEF Covered
  <2> QED BY <2>1, <2>2, <2>3 DEF SavedCovered, GoingCovered
<1>7. CASE SkipStep \/ InternalTool \/ ToolSucceeds
  <2>1. /\ vpc \in {"loop", "calling"} /\ vst \in ExecutionState /\ Covered(k, vst)
        /\ vidx \in 1..N /\ (steps[vidx].kind # "gate" \/ steps[vidx].cond)
    BY <1>1, <1>2, <1>7 DEF SkipStep, InternalTool, ToolSucceeds, AtStep, TypeInv, VerifierType,
                            Locals
  <2>2. Within(k, vidx + 1) /\ Left(k, vidx + 1, vst.gate)
    BY <1>2, <2>1, StepPast
  <2>3. failAuditExecution(t, vst) \/ (Advance /\ UNCHANGED store)
    BY <1>7 DEF SkipStep, InternalTool, ToolSucceeds
  <2> QED BY <1>1, <2>1, <2>2, <2>3, EndCovered, AdvanceCovered
<1>8. CASE SendToAnalyst
  <2>1. vpc' = "idle" /\ UNCHANGED store
    BY <1>8 DEF SendToAnalyst, Return
  <2> QED BY <2>1, IdleCovered DEF SavedCovered, StoreCovered
<1>9. CASE PassGate
  <2>1. /\ vpc = "loop" /\ vidx \in 1..N /\ steps[vidx].kind = "gate"
        /\ vst.gate = steps[vidx].gate /\ Advance /\ UNCHANGED store
    BY <1>2, <1>9 DEF PassGate, AtStep
  <2>2. Within(k, vidx + 1) /\ Left(k, vidx + 1, vst.gate)
    <3>1. CASE steps[vidx].cond
      BY <1>2, <2>1, <3>1, StepPast
    <3>2. CASE ~steps[vidx].cond
      BY <1>2, <2>1, <3>2, GatePast
    <3> QED BY <3>1, <3>2
  <2> QED BY <1>1, <2>1, <2>2, AdvanceCovered
<1>10. CASE PauseAtGate
  <2> DEFINE st == Paused(steps[vidx].gate)
  <2>1. vpc = "loop" /\ vidx \in 1..N /\ steps[vidx].kind = "gate"
    BY <1>2, <1>10 DEF PauseAtGate, AtStep
  <2>2. steps[vidx].gate \in Gates
    BY <1>2, <2>1, PipelineType
  <2>3. st \in ExecutionState
    BY <2>1, <2>2, PauseTypes
  <2>4. Covered(k, st)
    BY <1>2, <2>1, PausesCovered
  <2>5. failAuditExecution(t, st) \/ (Save(t, st) /\ Return)
    BY <1>10 DEF PauseAtGate
  <2> HIDE DEF st
  <2> QED BY <1>1, <2>3, <2>4, <2>5, EndCovered
<1>11. CASE AwaitCallback
  <2>1. vpc = "loop" /\ vidx \in DOMAIN steps /\ steps[vidx].kind = "await"
    BY <1>11 DEF AwaitCallback, AtStep
  <2>2. Awaiting \in ExecutionState /\ Covered(k, Awaiting)
    BY <1>2, <2>1, PauseTypes, PausesCovered
  <2>3. failAuditExecution(t, Awaiting) \/ (Save(t, Awaiting) /\ Return)
    BY <1>11 DEF AwaitCallback
  <2> QED BY <1>1, <2>2, <2>3, EndCovered
<1>12. CASE StartTool
  <2>1. /\ vpc = "loop" /\ vidx \in DOMAIN steps /\ steps[vidx].kind \in {"tool", "agent"}
        /\ vst \in ExecutionState /\ Covered(k, vst)
    BY <1>1, <1>12 DEF StartTool, AtStep
  <2>2. CASE failAuditExecution(t, vst)
    BY <1>1, <2>1, <2>2, EndCovered
  <2>3. ASSUME NEW st, Covered(k, st), Left(k, vidx, st.gate), Goto("invoke", st)
        PROVE  GoingCovered(t, k)
    <3>1. vpc' = "invoke" /\ vst' = st /\ vidx' = vidx
      BY <2>3 DEF Goto
    <3> QED BY <1>2, <2>1, <2>3, <3>1 DEF GoingCovered
  <2>4. CASE /\ steps[vidx].kind = "tool" /\ steps[vidx].submits /\ AwaitAhead(vidx)
             /\ Save(t, Prepared) /\ Goto("invoke", Prepared)
    <3>1. Covered(k, Prepared) /\ Prepared.gate \in NoGate
      BY <1>2, <2>1, <2>4, PausesCovered
    <3>2. store'[t] = Prepared
      BY <1>1, <2>4 DEF Save, StoreType
    <3>3. Left(k, vidx, Prepared.gate)
      BY <1>2, <3>1, LeftNone
    <3> QED BY <2>3, <2>4, <3>1, <3>2, <3>3 DEF SavedCovered
  <2>5. CASE Goto("invoke", vst) /\ UNCHANGED store
    BY <1>2, <2>1, <2>3, <2>5 DEF SavedCovered, StoreCovered
  <2> QED BY <1>12, <2>2, <2>4, <2>5 DEF StartTool
<1>13. CASE Invoke
  <2>1. vpc = "invoke" /\ vpc' = "calling" /\ vst' = vst /\ vidx' = vidx /\ UNCHANGED store
    BY <1>13 DEF Invoke, Goto
  <2> QED BY <1>1, <1>2, <2>1 DEF SavedCovered, GoingCovered, StoreCovered
<1>14. CASE AgentFails
  <2>1. vst \in ExecutionState /\ Covered(k, vst)
    BY <1>1, <1>14 DEF AgentFails
  <2>2. failAuditExecution(t, vst) \/ (vpc' = "idle" /\ UNCHANGED store)
    BY <1>14 DEF AgentFails, Return
  <2> QED BY <1>1, <2>1, <2>2, EndCovered, IdleCovered DEF SavedCovered, StoreCovered
<1>15. CASE ToolFails
  <2>1. vst \in ExecutionState /\ Covered(k, vst) /\ vpc' = "fail"
    BY <1>1, <1>15 DEF ToolFails
  <2>2. Covered(k, Failed(vst))
    BY <2>1, RecordsCovered
  <2>3. \/ vst' = Failed(vst) /\ Save(t, Failed(vst))
        \/ UNCHANGED <<vst, store>>
    BY <1>15 DEF ToolFails
  <2>4. Covered(k, vst') /\ SavedCovered(t, k)
    BY <1>1, <2>1, <2>2, <2>3 DEF SavedCovered, Save, StoreType, StoreCovered
  <2> QED BY <2>1, <2>4 DEF GoingCovered
<1>16. CASE LoadFailed
  <2>1. /\ vpc = "fail" /\ vpc' = "failsave" /\ UNCHANGED store
        /\ vst' = IF store[t] # NoState THEN store[t] ELSE vst
    BY <1>16 DEF LoadFailed, Goto
  <2> QED BY <1>1, <2>1 DEF SavedCovered, GoingCovered, StoreCovered
<1>17. CASE SaveFailed
  <2>1. /\ vpc = "failsave" /\ varg \in {"error", "rejected"}
        /\ vst \in ExecutionState /\ Covered(k, vst)
        /\ Save(t, Ended(vst, varg)) /\ Return
    BY <1>1, <1>17 DEF SaveFailed, TypeInv, VerifierType, Locals
  <2>2. Ended(vst, varg) \in ExecutionState /\ Covered(k, Ended(vst, varg))
    BY <2>1, RecordTypes, RecordsCovered
  <2> QED BY <1>1, <2>1, <2>2, EndCovered
<1> QED
  BY <1>3, <1>4, <1>5, <1>6, <1>7, <1>8, <1>9, <1>10, <1>11, <1>12, <1>13, <1>14, <1>15, <1>16,
     <1>17
     DEF executeLinear

-----------------------------------------------------------------------------
(***************************************************************************)
(* The parts of TaskCovered after a step, by what the step wrote.          *)
(***************************************************************************)
LEMMA CoveredNext ==
    ASSUME NEW t, NEW k, UNCHANGED steps
    PROVE  /\ SavedCovered(t, k) => StoreCovered(t, k)'
           /\ (vtask' = t => GoingCovered(t, k)) => VerifierCovered(t, k)'
           /\ abox' \in Seq(Reported(t, k)) => ReportsCovered(t, k)'
           /\ (analyst'.pc = "save" /\ analyst'.task = t
                 => Covered(k, analyst'.st) /\ Within(k, CompletedSteps + 1))
                 => AnalystCovered(t, k)'
           /\ (\A r \in Requests :
                 req'[r].pc = "read" /\ req'[r].task = t /\ req'[r].op = "callback_received" =>
                    Covered(k, req'[r].st) /\ req'[r].st.gate = "await_callback")
                 => RequestsCovered(t, k)'
           /\ (\A i \in 1..N : ran'[t][i] > 0 => Within(k, i)) => RanCovered(t, k)'
<1> USE DEF Within, UnconditionalGates
<1>1. SavedCovered(t, k) => StoreCovered(t, k)'
  BY DEF SavedCovered, StoreCovered, Covered
<1>2. (vtask' = t => GoingCovered(t, k)) => VerifierCovered(t, k)'
  BY DEF GoingCovered, VerifierCovered, Covered, Left, Holding
<1>3. abox' \in Seq(Reported(t, k)) => ReportsCovered(t, k)'
  BY DEF ReportsCovered, Reported, CompletedSteps
<1>4. (analyst'.pc = "save" /\ analyst'.task = t
         => Covered(k, analyst'.st) /\ Within(k, CompletedSteps + 1)) => AnalystCovered(t, k)'
  BY DEF AnalystCovered, Covered, CompletedSteps
<1>5. (\A r \in Requests :
         req'[r].pc = "read" /\ req'[r].task = t /\ req'[r].op = "callback_received" =>
            Covered(k, req'[r].st) /\ req'[r].st.gate = "await_callback")
         => RequestsCovered(t, k)'
  BY DEF RequestsCovered, Covered
<1>6. (\A i \in 1..N : ran'[t][i] > 0 => Within(k, i)) => RanCovered(t, k)'
  BY DEF RanCovered, N
<1> QED BY <1>1, <1>2, <1>3, <1>4, <1>5, <1>6

LEMMA CoveredParts ==
    ASSUME NEW t, NEW k, UNCHANGED steps, steps \in Pipelines
    PROVE  /\ StoreCovered(t, k) /\ store'[t] = store[t] => StoreCovered(t, k)'
           /\ VerifierCovered(t, k) /\ UNCHANGED verifierVars
                 /\ (store'[t] = store[t] \/ store'[t].gate \in NoGate)
                 => VerifierCovered(t, k)'
           /\ ReportsCovered(t, k) /\ UNCHANGED abox => ReportsCovered(t, k)'
           /\ AnalystCovered(t, k) /\ UNCHANGED analyst => AnalystCovered(t, k)'
           /\ RequestsCovered(t, k) /\ UNCHANGED req => RequestsCovered(t, k)'
           /\ RanCovered(t, k) /\ ran'[t] = ran[t] => RanCovered(t, k)'
<1>1. StoreCovered(t, k) /\ store'[t] = store[t] => StoreCovered(t, k)'
  BY CoveredNext DEF SavedCovered, StoreCovered
<1>2. VerifierCovered(t, k) /\ UNCHANGED verifierVars
         /\ (store'[t] = store[t] \/ store'[t].gate \in NoGate) => VerifierCovered(t, k)'
  <2>1. store'[t].gate \in NoGate => Left(k, store'[t].done + 1, store'[t].gate)
    BY LeftNone
  <2> QED BY <2>1, CoveredNext DEF GoingCovered, VerifierCovered, verifierVars
<1>3. ReportsCovered(t, k) /\ UNCHANGED abox => ReportsCovered(t, k)'
  BY CoveredNext DEF ReportsCovered
<1>4. AnalystCovered(t, k) /\ UNCHANGED analyst => AnalystCovered(t, k)'
  BY CoveredNext DEF AnalystCovered
<1>5. RequestsCovered(t, k) /\ UNCHANGED req => RequestsCovered(t, k)'
  <2>1. RequestsCovered(t, k) /\ UNCHANGED req =>
           \A r \in Requests :
              req'[r].pc = "read" /\ req'[r].task = t /\ req'[r].op = "callback_received" =>
                 Covered(k, req'[r].st) /\ req'[r].st.gate = "await_callback"
    BY DEF RequestsCovered
  <2> QED BY <2>1, CoveredNext
<1>6. RanCovered(t, k) /\ ran'[t] = ran[t] => RanCovered(t, k)'
  BY CoveredNext DEF RanCovered
<1> QED BY <1>1, <1>2, <1>3, <1>4, <1>5, <1>6

LEMMA TaskCoveredMore ==
    ASSUME TypeInv, NEW t, NEW k \in Int, TaskCovered(t, k)
    PROVE  TaskCovered(t, k + 1)
<1>1. steps \in Pipelines /\ k - 1 \in Int /\ k - 1 + 1 = k + 1 - 1
  BY DEF TypeInv, EnvType
<1>2. \A n : Within(k, n) => Within(k + 1, n)
  BY <1>1, WithinMore
<1>3. \A n, gate : Left(k, n, gate) => Left(k + 1, n, gate)
  <2>1. \A n : Within(k - 1, n) => Within(k - 1 + 1, n)
    BY <1>1, WithinMore
  <2>2. \A n : Within(k - 1, n) => Within(k + 1 - 1, n)
    BY <1>1, <2>1
  <2> QED BY <2>2 DEF Left
<1>4. \A st : Covered(k, st) => Covered(k + 1, st)
  BY <1>2 DEF Covered
<1>5. StoreCovered(t, k + 1)
  BY <1>4 DEF TaskCovered, StoreCovered
<1>6. VerifierCovered(t, k + 1)
  BY <1>2, <1>3, <1>4 DEF TaskCovered, VerifierCovered
<1>7. ReportsCovered(t, k + 1)
  <2>1. abox \in Seq(Reported(t, k)) /\ Reported(t, k) \subseteq Reported(t, k + 1)
    BY <1>2 DEF TaskCovered, ReportsCovered, Reported
  <2>2. Len(abox) \in Nat /\ \A i \in 1..Len(abox) : abox[i] \in Reported(t, k)
    BY <2>1
  <2>3. abox = [i \in 1..Len(abox) |-> abox[i]]
    BY <2>1
  <2> QED BY <2>1, <2>2, <2>3, IsASeq DEF ReportsCovered
<1>8. AnalystCovered(t, k + 1)
  BY <1>2, <1>4 DEF TaskCovered, AnalystCovered
<1>9. RequestsCovered(t, k + 1)
  BY <1>4 DEF TaskCovered, RequestsCovered
<1>10. RanCovered(t, k + 1)
  BY <1>2 DEF TaskCovered, RanCovered
<1> QED BY <1>5, <1>6, <1>7, <1>8, <1>9, <1>10 DEF TaskCovered

-----------------------------------------------------------------------------
(***************************************************************************)
(* One lemma per actor: what is covered stays covered.                     *)
(***************************************************************************)
LEMMA BeginsCovered ==
    ASSUME NEW t \in Tasks, NEW k, TypeInv, TaskCovered(t, k),
           UNCHANGED <<steps, abox, analyst, req, ran>>, SavedCovered(t, k),
           vtask' = t => GoingCovered(t, k)
    PROVE  TaskCovered(t, k)'
<1>1. steps \in Pipelines
  BY DEF TypeInv, EnvType
<1> QED BY <1>1, CoveredParts, CoveredNext DEF TaskCovered

LEMMA WorkingCovered ==
    ASSUME NEW t \in Tasks, NEW k \in Int, TypeInv, NoLateGate, NamesDistinct, TaskCovered(t, k),
           SaveDecision \/ SaveCallback \/ SaveExpired \/ executeLinear
    PROVE  \/ TaskCovered(t, k)'
           \/ SaveDecision /\ Approving(t) /\ TaskCovered(t, k + 1)'
<1>1. Working /\ UNCHANGED steps /\ steps \in Pipelines
  BY WorkingSteps, WorkingFrame DEF TypeInv, EnvType
<1>2. UNCHANGED <<inbox, analyst, req>> /\ vtask' = vtask /\ vtask \in Tasks
  BY <1>1 DEF Working, TypeInv, VerifierType
<1>3. CASE SaveDecision /\ varg = "approved" /\ vtask = t
  <2>1. UNCHANGED <<steps, abox, analyst, req, ran>> /\ Approving(t)
    BY <1>3 DEF SaveDecision, analystVars, envVars, history, Approving
  <2>2. SavedCovered(t, k + 1) /\ GoingCovered(t, k + 1)
    BY <1>3, ApproveCovered DEF TaskCovered
  <2>3. TaskCovered(t, k + 1)
    BY TaskCoveredMore
  <2>4. TaskCovered(t, k + 1)'
    BY <2>1, <2>2, <2>3, BeginsCovered
  <2> QED BY <1>3, <2>1, <2>4
<1>4. CASE vtask = t => ~(SaveDecision /\ varg = "approved")
  <2> USE DEF TaskCovered
  <2>1. AnalystCovered(t, k)' /\ RequestsCovered(t, k)'
    BY <1>1, <1>2, CoveredParts
  <2>2. StoreCovered(t, k)' /\ VerifierCovered(t, k)'
    <3>1. CASE vtask = t
      BY <1>1, <1>2, <1>4, <3>1, WorkCovered, CoveredNext
    <3>2. CASE vtask # t
      <4>1. store'[t] = store[t]
        BY <1>1, <3>2 DEF Working
      <4> QED BY <1>1, <1>2, <3>2, <4>1, CoveredParts, CoveredNext
    <3> QED BY <3>1, <3>2
  <2>3. ReportsCovered(t, k)'
    <3>1. CASE abox' = abox
      BY <1>1, <3>1, CoveredParts
    <3>2. CASE SendToAnalyst
      <4>1. abox' = Delivered(abox, vtask) /\ abox \in Seq(Reported(t, k))
        BY <3>2 DEF SendToAnalyst, ReportsCovered
      <4>2. vtask = t => Within(k, CompletedSteps + 1)
        BY <3>2, SummaryCovered DEF VerifierCovered, SendToAnalyst, AtStep
      <4>3. vtask \in Reported(t, k)
        BY <1>2, <4>2 DEF Reported
      <4>4. abox' \in Seq(Reported(t, k))
        BY <4>1, <4>3, DeliveredType
      <4> QED BY <1>1, <4>4, CoveredNext
    <3> QED BY <3>1, <3>2, WorkingFrame
  <2>4. RanCovered(t, k)'
    <3>1. CASE ran' = ran
      BY <1>1, <3>1, CoveredParts
    <3>2. CASE Invoke
      <4>1. /\ ran' = [ran EXCEPT ![vtask][vidx] = @ + 1]
            /\ vidx \in 1..N /\ ran \in [Tasks -> [1..N -> Nat]]
        BY <3>2 DEF Invoke, TypeInv, VerifierType, Locals, CountType
      <4>2. vtask = t => Within(k, vidx)
        BY <3>2 DEF Invoke, VerifierCovered
      <4>3. ASSUME NEW i \in 1..N, ran'[t][i] > 0
            PROVE  Within(k, i)
        <5>1. CASE vtask = t /\ i = vidx
          BY <4>2, <5>1
        <5>2. CASE ~(vtask = t /\ i = vidx)
          <6>1. ran'[t][i] = ran[t][i]
            BY <1>2, <4>1, <5>2
          <6> QED BY <4>3, <6>1 DEF RanCovered
        <5> QED BY <5>1, <5>2
      <4> QED BY <1>1, <4>3, CoveredNext
    <3> QED BY <3>1, <3>2, WorkingFrame
  <2> QED BY <2>1, <2>2, <2>3, <2>4
<1> QED BY <1>3, <1>4

LEMMA RunPipelineCovered ==
    ASSUME NEW t \in Tasks, NEW k \in Nat, TypeInv, Pinning, TaskCovered(t, k), handleRunPipeline
    PROVE  TaskCovered(t, k)'
<1> DEFINE u == Head(inbox).task
           st == [LoadOrNew(u) EXCEPT !.version = cfg]
<1>1. UNCHANGED <<steps, abox, analyst, req, ran>> /\ steps \in Pipelines
  BY DEF handleRunPipeline, analystVars, envVars, history, TypeInv, EnvType
<1>2. inbox \in Seq(Messages) /\ inbox # <<>> /\ Head(inbox).type = "run_pipeline" /\ u \in Tasks
  <2>1. inbox \in Seq(Messages) /\ inbox # <<>> /\ Head(inbox).type = "run_pipeline"
    BY DEF handleRunPipeline, Receive, TypeInv, BusType
  <2>2. Head(inbox) \in Messages
    BY <2>1, HeadTailType
  <2> QED BY <2>1, <2>2 DEF Messages
<1>3. \/ /\ cfg # 0
         /\ \/ Save(u, st) /\ vtask' = u /\ vpc' = "load"
            \/ failAuditExecution(u, st)
      \/ Return /\ UNCHANGED store
  BY DEF handleRunPipeline
<1>4. ASSUME cfg # 0, u = t
      PROVE  st \in ExecutionState /\ Covered(k, st) /\ Left(k, st.done + 1, st.gate)
  <2>1. 1 \in DOMAIN inbox /\ inbox[1] = Head(inbox)
    BY <1>2
  <2>2. Pinned(t)
    BY <1>4 DEF Pinning
  <2>3. ~Elsewhere(t)
    <3>1. Elsewhere(t) => Head(inbox) \in MessagesTo(Tasks \ {t})
      BY <1>2, HeadTailType DEF Elsewhere
    <3> QED BY <1>4, <3>1 DEF MessagesTo
  <2>4. store[t] = Blank
    BY <1>2, <1>4, <2>1, <2>2, <2>3 DEF Pinned, FirstMessage
  <2>5. LoadOrNew(t) = Blank
    BY <2>4 DEF LoadOrNew
  <2>6. Covered(k, Blank) /\ Blank.gate \in NoGate
    BY <1>1, BlankCovered
  <2>7. st = [Blank EXCEPT !.version = cfg]
    BY <1>4, <2>5
  <2>8. st.done = Blank.done /\ st.gate = Blank.gate /\ st \in ExecutionState
    BY <2>7, BlankType, RecordTypes DEF Blank, TypeInv, EnvType
  <2>9. Left(k, st.done + 1, Blank.gate)
    BY <1>1, <2>6, LeftNone
  <2> QED BY <2>6, <2>8, <2>9 DEF Covered
<1> HIDE DEF u, st
<1>5. SavedCovered(t, k) /\ (vtask' = t => GoingCovered(t, k))
  <2> USE DEF TaskCovered
  <2>1. CASE UNCHANGED store /\ Return
    BY <2>1, IdleCovered DEF Return, SavedCovered, StoreCovered
  <2>2. CASE cfg # 0 /\ u = t /\ Save(u, st) /\ vpc' = "load"
    <3>1. store'[t] = st
      BY <2>2 DEF Save, TypeInv, StoreType
    <3> QED BY <1>4, <2>2, <3>1 DEF SavedCovered, GoingCovered, Holding
  <2>3. CASE cfg # 0 /\ u = t /\ failAuditExecution(u, st)
    BY <1>4, <2>3, EndCovered DEF TypeInv
  <2>4. CASE u # t /\ Save(u, st) /\ vtask' = u
    <3>1. store'[t] = store[t]
      BY <2>4, SaveFrame DEF TypeInv
    <3> QED BY <2>4, <3>1 DEF SavedCovered, StoreCovered
  <2>5. CASE u # t /\ failAuditExecution(u, st)
    <3>1. store'[t] = store[t]
      BY <2>5, EndFrame DEF TypeInv
    <3>2. vpc' = "idle"
      BY <2>5 DEF failAuditExecution, Return
    <3> QED BY <3>1, <3>2, IdleCovered DEF SavedCovered, StoreCovered
  <2> QED BY <1>3, <2>1, <2>2, <2>3, <2>4, <2>5
<1> QED BY <1>1, <1>5, BeginsCovered

LEMMA VerifierStaysCovered ==
    ASSUME NEW t \in Tasks, NEW k \in Nat, TypeInv, NoLateGate, NamesDistinct, Pinning,
           TaskCovered(t, k), Verifier
    PROVE  \/ TaskCovered(t, k)'
           \/ SaveDecision /\ Approving(t) /\ TaskCovered(t, k + 1)'
<1> USE DEF envVars, analystVars, history
<1> DEFINE u == Head(inbox).task
<1>1. ASSUME NEW decision \in {"approved", "rejected"}, handleHumanDecision(decision)
      PROVE  TaskCovered(t, k)'
  <2>1. UNCHANGED <<steps, abox, analyst, req, ran>>
    BY <1>1 DEF handleHumanDecision
  <2>2. \/ store[u] = NoState /\ storeError(u)
        \/ /\ store[u] # NoState /\ UNCHANGED store
           /\ vtask' = u /\ vst' = store[u] /\ vpc' = "decision"
    BY <1>1 DEF handleHumanDecision
  <2> HIDE DEF u
  <2>3. SavedCovered(t, k) /\ (vtask' = t => GoingCovered(t, k))
    <3>1. CASE storeError(u)
      <4>1. vpc' = "idle" /\ store' = [store EXCEPT ![u] = NoState]
        BY <3>1 DEF storeError, Return, Save
      <4>2. store'[t] \in {store[t], NoState}
        BY <4>1 DEF TypeInv, StoreType
      <4> QED BY <4>1, <4>2, IdleCovered DEF SavedCovered, TaskCovered, StoreCovered
    <3>2. CASE /\ store[u] # NoState /\ UNCHANGED store
               /\ vtask' = u /\ vst' = store[u] /\ vpc' = "decision"
      BY <3>2 DEF SavedCovered, GoingCovered, TaskCovered, StoreCovered, Holding
    <3> QED BY <2>2, <3>1, <3>2
  <2> QED BY <2>1, <2>3, BeginsCovered
<1>2. CASE handleCallback
  <2>1. UNCHANGED <<steps, abox, analyst, req, ran, store>>
    BY <1>2 DEF handleCallback
  <2>2. \/ Resumable(store[u]) /\ vtask' = u /\ vst' = store[u] /\ vpc' = "callback"
        \/ UNCHANGED verifierVars
    BY <1>2 DEF handleCallback, MatchCallback
  <2> HIDE DEF u
  <2>3. SavedCovered(t, k) /\ (vtask' = t => GoingCovered(t, k))
    <3>1. CASE Resumable(store[u]) /\ vtask' = u /\ vst' = store[u] /\ vpc' = "callback"
      BY <2>1, <3>1 DEF Resumable, SavedCovered, GoingCovered, TaskCovered, StoreCovered, Holding
    <3>2. CASE UNCHANGED verifierVars
      BY <2>1, <3>2 DEF SavedCovered, GoingCovered, TaskCovered, StoreCovered, VerifierCovered,
                        verifierVars
    <3> QED BY <2>2, <3>1, <3>2
  <2> QED BY <2>1, <2>3, BeginsCovered
<1>3. CASE SaveDecision \/ SaveCallback \/ SaveExpired \/ executeLinear
  BY <1>3, WorkingCovered
<1> QED BY <1>1, <1>2, <1>3, RunPipelineCovered DEF Verifier

LEMMA TickerCovered ==
    ASSUME NEW t \in Tasks, NEW k, TypeInv, TaskCovered(t, k), NEW u \in Tasks, Ticker(u)
    PROVE  TaskCovered(t, k)'
<1>1. UNCHANGED <<steps, abox, analyst, req, ran, store>>
  BY DEF Ticker, recoverPendingCallbacks, expireAwaitingCallbacks, envVars, analystVars, history
<1>2. /\ vtask' = u /\ vst' = store[u] /\ store[u] # NoState
      /\ vpc' = "expire" \/ (vpc' = "callback" /\ store[u].gate = "await_callback")
  BY DEF Ticker, recoverPendingCallbacks, expireAwaitingCallbacks, MatchCallback, Resumable,
         Overdue
<1>3. SavedCovered(t, k) /\ (vtask' = t => GoingCovered(t, k))
  BY <1>1, <1>2 DEF SavedCovered, GoingCovered, TaskCovered, StoreCovered, Holding
<1> QED BY <1>1, <1>3, BeginsCovered

LEMMA AnalystStaysCovered ==
    ASSUME NEW t \in Tasks, NEW k \in Nat, TypeInv, TaskCovered(t, k), Analyst
    PROVE  TaskCovered(t, k)'
<1> USE DEF runUnchanged, envVars, history, TaskCovered
<1>1. UNCHANGED <<steps, req, ran, verifierVars>> /\ steps \in Pipelines
  BY DEF Analyst, LoadCompletion, SaveCompletion, TypeInv, EnvType
<1>2. CASE LoadCompletion
  <2>1. /\ UNCHANGED store /\ abox' = Tail(abox)
        /\ analyst' = [pc |-> "save", task |-> Head(abox), st |-> LoadOrNew(Head(abox))]
    BY <1>2 DEF LoadCompletion
  <2>2. Head(abox) \in Reported(t, k) /\ Tail(abox) \in Seq(Reported(t, k))
    BY <1>2, HeadTailType DEF LoadCompletion, ReportsCovered
  <2>3. Covered(k, LoadOrNew(t))
    BY <1>1, BlankCovered DEF LoadOrNew, StoreCovered
  <2>4. AnalystCovered(t, k)'
    <3>1. analyst'.task = t => Covered(k, analyst'.st) /\ Within(k, CompletedSteps + 1)
      BY <2>1, <2>2, <2>3 DEF Reported
    <3> QED BY <1>1, <3>1, CoveredNext
  <2>5. ReportsCovered(t, k)'
    BY <1>1, <2>1, <2>2, CoveredNext
  <2> QED BY <1>1, <2>1, <2>4, <2>5, CoveredParts
<1>3. CASE SaveCompletion
  <2>1. /\ Save(analyst.task, Completed(analyst.st)) /\ UNCHANGED abox
        /\ analyst.pc = "save" /\ analyst'.pc = "idle" /\ analyst.st \in ExecutionState
    BY <1>3 DEF SaveCompletion, TypeInv, AnalystType
  <2>2. AnalystCovered(t, k)' /\ ReportsCovered(t, k)'
    BY <1>1, <2>1, CoveredNext, CoveredParts
  <2>3. SavedCovered(t, k) /\ (store'[t] = store[t] \/ store'[t].gate \in NoGate)
    <3>1. CASE analyst.task # t
      <4>1. store'[t] = store[t]
        BY <2>1, <3>1, SaveFrame DEF TypeInv
      <4> QED BY <4>1 DEF SavedCovered, StoreCovered
    <3>2. CASE analyst.task = t
      <4>1. store'[t] = Completed(analyst.st)
        BY <2>1, <3>2 DEF Save, TypeInv, StoreType
      <4>2. Covered(k, analyst.st) /\ Within(k, CompletedSteps + 1)
        BY <2>1, <3>2 DEF AnalystCovered
      <4>3. Covered(k, Completed(analyst.st)) /\ Completed(analyst.st).gate = ""
        BY <2>1, <4>2, RecordsCovered
      <4> QED BY <4>1, <4>3 DEF SavedCovered, NoGate
    <3> QED BY <3>1, <3>2
  <2> QED BY <1>1, <2>2, <2>3, CoveredNext, CoveredParts
<1> QED BY <1>2, <1>3 DEF Analyst

LEMMA ApiCovered ==
    ASSUME NEW t \in Tasks, NEW k, TypeInv, TaskCovered(t, k), NEW r \in Requests, Api(r)
    PROVE  TaskCovered(t, k)'
<1> USE DEF apiUnchanged, envVars, analystVars, TaskCovered
<1>1. UNCHANGED <<steps, abox, analyst, ran, verifierVars>> /\ steps \in Pipelines
  BY DEF Api, ReadCallback, ReadDecision, AcceptCallback, SendDecision, history, TypeInv, EnvType
<1>2. AnalystCovered(t, k)' /\ RanCovered(t, k)' /\ ReportsCovered(t, k)'
  BY <1>1, CoveredParts
<1>3. ASSUME NEW u \in Tasks, NEW op \in Operations, Read(r, op, u), UNCHANGED store,
             op = "callback_received" => store[u].gate = "await_callback"
      PROVE  TaskCovered(t, k)'
  <2>1. /\ req'[r].task = u /\ req'[r].st = store[u] /\ req'[r].op = op /\ store[u] # NoState
        /\ \A q \in Requests : q # r => req'[q] = req[q]
    BY <1>3 DEF Read, TypeInv, RequestType
  <2>2. u = t => Covered(k, store[t])
    BY <2>1 DEF StoreCovered
  <2>3. ASSUME NEW q \in Requests, req'[q].pc = "read", req'[q].task = t,
               req'[q].op = "callback_received"
        PROVE  Covered(k, req'[q].st) /\ req'[q].st.gate = "await_callback"
    BY <1>3, <2>1, <2>2, <2>3 DEF RequestsCovered
  <2>4. RequestsCovered(t, k)'
    BY <1>1, <2>3, CoveredNext
  <2> QED BY <1>1, <1>2, <1>3, <2>4, CoveredParts
<1>4. ASSUME Done(r)
      PROVE  RequestsCovered(t, k)'
  <2>1. req'[r].pc = "done" /\ \A q \in Requests : q # r => req'[q] = req[q]
    BY <1>4 DEF Done, TypeInv, RequestType
  <2>2. ASSUME NEW q \in Requests, req'[q].pc = "read", req'[q].task = t,
               req'[q].op = "callback_received"
        PROVE  Covered(k, req'[q].st) /\ req'[q].st.gate = "await_callback"
    BY <2>1, <2>2 DEF RequestsCovered
  <2> QED BY <1>1, <2>2, CoveredNext
<1>5. ASSUME NEW u \in Tasks, ReadCallback(r, u)
      PROVE  TaskCovered(t, k)'
  BY <1>3, <1>5 DEF ReadCallback, Operations
<1>6. ASSUME NEW u \in Tasks, NEW decision \in {"approved", "rejected"},
             ReadDecision(r, u, decision)
      PROVE  TaskCovered(t, k)'
  BY <1>3, <1>6 DEF ReadDecision, Operations
<1>7. CASE AcceptCallback(r)
  <2> DEFINE u == req[r].task
  <2>1. /\ req[r].pc = "read" /\ req[r].op = "callback_received" /\ Done(r)
        /\ req[r].st \in ExecutionState
        /\ \/ \E receivedAt : Save(u, Accepted(req[r].st, receivedAt))
           \/ UNCHANGED store
    BY <1>7 DEF AcceptCallback, TypeInv, RequestType
  <2>2. SavedCovered(t, k) /\ (store'[t] = store[t] \/ store'[t].gate \in NoGate)
    <3>1. CASE UNCHANGED store
      BY <3>1 DEF SavedCovered, StoreCovered
    <3>2. ASSUME NEW receivedAt, Save(u, Accepted(req[r].st, receivedAt))
          PROVE  SavedCovered(t, k) /\ (store'[t] = store[t] \/ store'[t].gate \in NoGate)
      <4>1. CASE u # t
        <5>1. store'[t] = store[t]
          BY <3>2, <4>1, SaveFrame DEF TypeInv
        <5> QED BY <5>1 DEF SavedCovered, StoreCovered
      <4>2. CASE u = t
        <5>1. store'[t] = Accepted(req[r].st, receivedAt)
          BY <3>2, <4>2 DEF Save, TypeInv, StoreType
        <5>2. Covered(k, req[r].st) /\ req[r].st.gate = "await_callback"
          BY <2>1, <4>2 DEF RequestsCovered
        <5>3. /\ Covered(k, Accepted(req[r].st, receivedAt))
              /\ Accepted(req[r].st, receivedAt).gate = "await_callback"
          BY <2>1, <5>2, RecordsCovered
        <5> QED BY <5>1, <5>3 DEF SavedCovered, NoGate
      <4> QED BY <4>1, <4>2
    <3> QED BY <2>1, <3>1, <3>2
  <2> QED BY <1>1, <1>2, <1>4, <2>1, <2>2, CoveredNext, CoveredParts
<1>8. CASE SendDecision(r)
  <2>1. Done(r) /\ UNCHANGED store
    BY <1>8 DEF SendDecision
  <2> QED BY <1>1, <1>2, <1>4, <2>1, CoveredParts
<1> QED BY <1>5, <1>6, <1>7, <1>8 DEF Api

LEMMA CrashCovered ==
    ASSUME NEW t \in Tasks, NEW k, TypeInv, TaskCovered(t, k), Crash
    PROVE  TaskCovered(t, k)'
<1>1. /\ UNCHANGED <<steps, store, ran>> /\ abox' = <<>> /\ vpc' = "idle"
      /\ analyst'.pc = "idle" /\ \A r \in Requests : req'[r].pc # "read"
      /\ steps \in Pipelines
  BY DEF Crash, Return, TypeInv, AnalystType, RequestType, EnvType, history
<1>2. StoreCovered(t, k)' /\ RanCovered(t, k)'
  BY <1>1, CoveredParts DEF TaskCovered
<1>3. ReportsCovered(t, k)' /\ VerifierCovered(t, k)'
  BY <1>1, EmptySeq, IdleCovered, CoveredNext
<1>4. AnalystCovered(t, k)' /\ RequestsCovered(t, k)'
  BY <1>1 DEF AnalystCovered, RequestsCovered
<1> QED BY <1>2, <1>3, <1>4 DEF TaskCovered

LEMMA DispatchCovered ==
    ASSUME NEW t \in Tasks, NEW k \in Nat, TypeInv, TaskCovered(t, k),
           NEW u \in Tasks, DispatchPipeline(u)
    PROVE  TaskCovered(t, k)'
<1>1. UNCHANGED <<steps, abox, analyst, req, ran, verifierVars>> /\ steps \in Pipelines
  BY DEF DispatchPipeline, envVars, analystVars, history, TypeInv, EnvType
<1>2. Covered(k, Blank) /\ Blank.gate \in NoGate
  BY <1>1, BlankCovered
<1>3. store'[t] = store[t] \/ store'[t] = Blank
  BY DEF DispatchPipeline, Save, TypeInv, StoreType
<1>4. SavedCovered(t, k)
  BY <1>2, <1>3 DEF SavedCovered, TaskCovered, StoreCovered
<1>5. store'[t] = store[t] \/ store'[t].gate \in NoGate
  BY <1>2, <1>3
<1> QED BY <1>1, <1>4, <1>5, CoveredNext, CoveredParts DEF TaskCovered

LEMMA NextTaskCovered ==
    ASSUME NEW t \in Tasks, NEW k \in Nat, TypeInv, NoLateGate, NamesDistinct, Pinning,
           TaskCovered(t, k), [Next]_vars
    PROVE  \/ TaskCovered(t, k)'
           \/ SaveDecision /\ Approving(t) /\ TaskCovered(t, k + 1)'
<1>1. steps \in Pipelines /\ UNCHANGED steps
  BY NextSteps DEF TypeInv, EnvType
<1>2. CASE BreakJournal \/ Tick \/ UNCHANGED vars
  <2>1. UNCHANGED <<store, abox, analyst, req, ran, verifierVars>>
    BY <1>2 DEF BreakJournal, Tick, vars, analystVars, history
  <2>2. store'[t] = store[t] /\ ran'[t] = ran[t]
    BY <2>1
  <2> QED BY <1>1, <2>1, <2>2, CoveredParts DEF TaskCovered
<1>3. ASSUME NEW u \in Tasks, Poll(u)
      PROVE  TaskCovered(t, k)'
  <2>1. UNCHANGED <<store, abox, analyst, req, ran, verifierVars>>
    BY <1>3 DEF Poll, AwaitHuman, GetResult, DeleteResult, analystVars, history
  <2>2. store'[t] = store[t] /\ ran'[t] = ran[t]
    BY <2>1
  <2> QED BY <1>1, <2>1, <2>2, CoveredParts DEF TaskCovered
<1> QED
  BY <1>2, <1>3, VerifierStaysCovered, TickerCovered, DispatchCovered, AnalystStaysCovered,
     ApiCovered, CrashCovered
     DEF Next

LEMMA NextGatesCovered ==
    /\ TypeInv /\ Pinning /\ NoLateGate /\ NamesDistinct /\ IsFiniteSet(Answered)
    /\ GatesCovered /\ [Next]_vars
    => GatesCovered' /\ NoLateGate' /\ NamesDistinct'
<1> SUFFICES ASSUME TypeInv, Pinning, NoLateGate, NamesDistinct, IsFiniteSet(Answered),
                    GatesCovered, [Next]_vars
             PROVE  GatesCovered' /\ NoLateGate' /\ NamesDistinct'
  OBVIOUS
<1>1. NoLateGate' /\ NamesDistinct'
  <2>1. UNCHANGED steps
    BY NextSteps
  <2> QED BY <2>1 DEF NoLateGate, NamesDistinct, AwaitAhead, IsLastAwait
<1>2. ASSUME NEW t \in Tasks
      PROVE  \E k \in Nat : k <= Spent(t)' /\ TaskCovered(t, k)'
  <2>1. PICK k \in Nat : k <= Spent(t) /\ TaskCovered(t, k)
    BY DEF GatesCovered
  <2>2. /\ Spent(t) \in Int /\ Spent(t)' \in Int /\ Spent(t)' >= Spent(t)
        /\ SaveDecision /\ Approving(t) => Spent(t)' >= Spent(t) + 1
    BY SpentGrows
  <2> DEFINE s == Spent(t)
             q == Spent(t)'
  <2>3. k <= q /\ (SaveDecision /\ Approving(t) => k + 1 <= q)
    <3>1. k <= s /\ s \in Int /\ q \in Int /\ q >= s
      BY <2>1, <2>2
    <3>2. SaveDecision /\ Approving(t) => q >= s + 1
      BY <2>2
    <3> HIDE DEF s, q
    <3>3. k <= q
      BY <3>1
    <3>4. CASE SaveDecision /\ Approving(t)
      <4>1. q >= s + 1
        BY <3>2, <3>4
      <4>2. k + 1 <= q
        BY <3>1, <4>1
      <4> QED BY <3>3, <4>2
    <3> QED BY <3>3, <3>4
  <2> HIDE DEF s, q
  <2>4. CASE TaskCovered(t, k)'
    BY <2>3, <2>4 DEF q
  <2>5. CASE SaveDecision /\ Approving(t) /\ TaskCovered(t, k + 1)'
    <3>1. k + 1 \in Nat /\ k + 1 <= q
      BY <2>3, <2>5
    <3> QED BY <2>5, <3>1 DEF q
  <2> QED BY <2>1, <2>4, <2>5, NextTaskCovered
<1> QED BY <1>1, <1>2 DEF GatesCovered

LEMMA InitGatesCovered == Init => GatesCovered
<1> SUFFICES ASSUME Init, NEW t \in Tasks
             PROVE  \E k \in Nat : k <= Spent(t) /\ TaskCovered(t, k)
  BY DEF GatesCovered
<1>1. StoreCovered(t, 0) /\ VerifierCovered(t, 0)
  BY DEF Init, StoreCovered, VerifierCovered, Holding
<1>2. ReportsCovered(t, 0) /\ AnalystCovered(t, 0) /\ RequestsCovered(t, 0)
  BY EmptySeq DEF Init, ReportsCovered, AnalystCovered, RequestsCovered
<1>3. RanCovered(t, 0)
  <2>1. \A i \in 1..N : ran[t][i] = 0
    BY DEF Init
  <2> QED BY <2>1 DEF RanCovered
<1>4. TaskCovered(t, 0)
  BY <1>1, <1>2, <1>3 DEF TaskCovered
<1>5. 0 \in Nat /\ 0 <= Spent(t)
  BY InitSpent
<1> QED BY <1>4, <1>5

(***************************************************************************)
(* Passing k unconditional gates takes k admitted approvals of the task:   *)
(* executeLinear stops at the next gate, and each decision message the     *)
(* verifier resumes on opens one.  Callbacks, the ticker, the analyst's    *)
(* report and restarts carry a run to no position its approvals have not   *)
(* paid for.  Both hypotheses are needed: a gate behind a submission is    *)
(* taken for its wait, and one approval opens every gate of its name.      *)
(***************************************************************************)
THEOREM ApprovalsPayForGates == NoLateGate /\ NamesDistinct /\ Spec => []OneApprovalPerGate
<1>1. TypeInv /\ IsFiniteSet(Answered) /\ GatesCovered => OneApprovalPerGate
  <2> SUFFICES ASSUME TypeInv, IsFiniteSet(Answered), GatesCovered,
                      NEW t \in Tasks, NEW i \in 1..N, ran[t][i] > 0
               PROVE  Cardinality(UnconditionalGates(i)) <= Cardinality(Admitted(t, "approved"))
    BY DEF OneApprovalPerGate
  <2> DEFINE g == Cardinality(UnconditionalGates(i))
             a == Cardinality(Admitted(t, "approved"))
             s == Spent(t)
  <2>1. PICK k \in Nat : k <= s /\ TaskCovered(t, k)
    BY DEF GatesCovered
  <2>2. g <= k /\ g \in Nat
    BY <2>1, GatesInFront DEF TaskCovered, RanCovered, Within, TypeInv, EnvType
  <2>3. s \in Int /\ s <= a
    BY SpentType
  <2>4. a \in Nat
    <3>1. Admitted(t, "approved") \subseteq Answered
      BY DEF Admitted, Answered
    <3> QED BY <3>1, FS_Subset, FS_CardinalityType
  <2> HIDE DEF g, a, s
  <2>5. g <= a
    BY <2>1, <2>2, <2>3, <2>4
  <2> QED BY <2>5 DEF g, a
<1>2. Spec => []TypeInv
  BY InitType, NextType, PTL DEF Spec
<1>3. Spec => []Pinning
  BY InitPinning, NextPinning, <1>2, PTL DEF Spec
<1>4. Spec => []IsFiniteSet(Answered)
  BY InitAnswered, NextAnswered, <1>2, PTL DEF Spec
<1> QED BY <1>1, <1>2, <1>3, <1>4, InitGatesCovered, NextGatesCovered, PTL DEF Spec

-----------------------------------------------------------------------------
(***************************************************************************)
(* NoStepSkipped.  A task has one token, which its first submission gives  *)
(* away, and a prepared wait is resumed past the step after the submission *)
(* that prepared it: a pipeline submits once, and waits right after that.  *)
(***************************************************************************)
SubmitsOnce ==
    /\ \A i, j \in DOMAIN steps : steps[i].submits /\ steps[j].submits => i = j
    /\ \A i \in DOMAIN steps :
          steps[i].kind = "tool" /\ steps[i].submits /\ AwaitAhead(i)
              => i + 1 \in DOMAIN steps /\ steps[i + 1].kind = "await" /\ ~steps[i + 1].cond

Called(t) == {i \in 1..N : ran[t][i] > 0}

(***************************************************************************)
(* Of the steps of pipeline p, those in c have been called.  CalledTo:     *)
(* every unconditional tool and agent up to position n is one of them.     *)
(* TokenGiven: every submission is, so that a provider has the token.      *)
(***************************************************************************)
CalledTo(p, c, n) ==
    \A j \in DOMAIN p : j <= n /\ p[j].kind \in {"tool", "agent"} /\ ~p[j].cond => j \in c

TokenGiven(p, c) == \A j \in DOMAIN p : p[j].submits => j \in c

WaitsBehind(p, n) == n + 1 \in DOMAIN p /\ p[n + 1].kind = "await"

Prepares(p, n) == n \in DOMAIN p /\ p[n].submits /\ WaitsBehind(p, n) /\ ~p[n + 1].cond

(***************************************************************************)
(* Position n may be recorded as done: everything up to it was called,     *)
(* except, if n is a submission whose wait is prepared, that submission.   *)
(***************************************************************************)
MayBeDone(p, c, n) == CalledTo(p, c, n) \/ (Prepares(p, n) /\ CalledTo(p, c, n - 1))

(***************************************************************************)
(* Any copy of a record, and one a callback is about to resume.            *)
(***************************************************************************)
Orderly(p, c, st) ==
    /\ MayBeDone(p, c, st.done)
    /\ st.gate = "await_callback" => WaitsBehind(p, st.done)
    /\ st.data => TokenGiven(p, c)

Answerable(p, c, st) == Orderly(p, c, st) /\ st.gate = "await_callback" /\ TokenGiven(p, c)

StoreOrderly(t, p, c) == store[t] # NoState => Orderly(p, c, store[t])

VerifierOrderly(t, p, c) ==
    vtask = t =>
        /\ vpc \in Holding => Orderly(p, c, vst)
        /\ vpc = "callback" => Answerable(p, c, vst)
        /\ vpc = "loop" => MayBeDone(p, c, vidx - 1)
        /\ vpc \in {"invoke", "calling"} => CalledTo(p, c, vidx - 1)
        /\ vpc = "calling" => vidx \in c

Brought(t, p, c) == {m \in Messages : m = Message("callback_received", t) => TokenGiven(p, c)}

Summed(t, p, c) == {u \in Tasks : u = t => CalledTo(p, c, CompletedSteps)}

InboxOrderly(t, p, c) == inbox \in Seq(Brought(t, p, c))

ReportsOrderly(t, p, c) == abox \in Seq(Summed(t, p, c))

AnalystOrderly(t, p, c) ==
    analyst.pc = "save" /\ analyst.task = t
        => Orderly(p, c, analyst.st) /\ CalledTo(p, c, CompletedSteps)

RequestsOrderly(t, p, c) ==
    \A r \in Requests :
        req[r].pc = "read" /\ req[r].task = t /\ req[r].op = "callback_received"
            => Answerable(p, c, req[r].st)

CallsOrderly(t, p, c) ==
    /\ \A i \in c : CalledTo(p, c, i - 1)
    /\ t \in known => TokenGiven(p, c)

RunOrderly(t, p, c) ==
    /\ StoreOrderly(t, p, c) /\ VerifierOrderly(t, p, c) /\ ReportsOrderly(t, p, c)
    /\ AnalystOrderly(t, p, c) /\ RequestsOrderly(t, p, c)

TaskOrderly(t, p, c) ==
    RunOrderly(t, p, c) /\ InboxOrderly(t, p, c) /\ CallsOrderly(t, p, c)

InOrder == \A t \in Tasks : TaskOrderly(t, steps, Called(t))

-----------------------------------------------------------------------------
(***************************************************************************)
(* Positions: what is recorded as done is so for every earlier position    *)
(* and with every later call.                                              *)
(***************************************************************************)
LEMMA CalledLess ==
    ASSUME NEW p, NEW c, DOMAIN p \subseteq Nat, NEW n \in Int, NEW m \in Int, m <= n,
           CalledTo(p, c, n)
    PROVE  CalledTo(p, c, m)
BY DEF CalledTo

LEMMA CalledPast ==
    ASSUME NEW p, NEW c, DOMAIN p \subseteq Nat, NEW n \in Int, CalledTo(p, c, n - 1),
           n \in DOMAIN p /\ p[n].kind \in {"tool", "agent"} /\ ~p[n].cond => n \in c
    PROVE  CalledTo(p, c, n)
<1>1. \A j \in DOMAIN p : j <= n /\ j # n => j <= n - 1
  OBVIOUS
<1> QED BY <1>1 DEF CalledTo

LEMMA CalledMore ==
    ASSUME NEW p, NEW c, NEW d, c \subseteq d
    PROVE  /\ \A n : CalledTo(p, c, n) => CalledTo(p, d, n)
           /\ TokenGiven(p, c) => TokenGiven(p, d)
           /\ \A n : MayBeDone(p, c, n) => MayBeDone(p, d, n)
           /\ \A st : Orderly(p, c, st) => Orderly(p, d, st)
           /\ \A st : Answerable(p, c, st) => Answerable(p, d, st)
<1>1. \A n : CalledTo(p, c, n) => CalledTo(p, d, n)
  BY DEF CalledTo
<1>2. TokenGiven(p, c) => TokenGiven(p, d)
  BY DEF TokenGiven
<1>3. \A n : MayBeDone(p, c, n) => MayBeDone(p, d, n)
  BY <1>1 DEF MayBeDone
<1>4. \A st : Orderly(p, c, st) => Orderly(p, d, st)
  BY <1>2, <1>3 DEF Orderly
<1> QED BY <1>1, <1>2, <1>3, <1>4 DEF Answerable

(***************************************************************************)
(* executeLinear at the position behind one that may be recorded as done:  *)
(* unless it stands at the wait of a submission, everything was called.    *)
(***************************************************************************)
LEMMA AtPosition ==
    ASSUME NEW p, NEW c, NEW n \in Nat, MayBeDone(p, c, n - 1)
    PROVE  \/ CalledTo(p, c, n - 1)
           \/ n \in DOMAIN p /\ p[n].kind = "await" /\ ~p[n].cond
<1>1. n - 1 + 1 = n
  OBVIOUS
<1> QED BY <1>1 DEF MayBeDone, Prepares, WaitsBehind

(***************************************************************************)
(* Records: an outcome, a callback's data and the completion keep them in  *)
(* order; a resume counts the wait as done, for its submission was called. *)
(***************************************************************************)
LEMMA RecordsOrderly ==
    ASSUME NEW p, NEW c, NEW st \in ExecutionState, Orderly(p, c, st)
    PROVE  /\ Orderly(p, c, Failed(st))
           /\ Orderly(p, c, Rejected(st))
           /\ Orderly(p, c, Expired(st))
           /\ \A v : Orderly(p, c, [st EXCEPT !.version = v])
           /\ \A o : Orderly(p, c, Ended(st, o))
           /\ TokenGiven(p, c) => \A at : Orderly(p, c, Accepted(st, at))
           /\ CalledTo(p, c, CompletedSteps) => Orderly(p, c, Completed(st))
<1> USE DEF ExecutionState, Orderly
<1>1. Failed(st).gate = "" /\ Failed(st).done = st.done /\ Failed(st).data = st.data
  BY DEF Failed
<1>2. Rejected(st).gate = "" /\ Rejected(st).done = st.done /\ Rejected(st).data = st.data
  BY DEF Rejected
<1>3. Expired(st).gate = "" /\ Expired(st).done = st.done /\ Expired(st).data = st.data
  BY DEF Expired
<1>4. \A v : Orderly(p, c, [st EXCEPT !.version = v])
  OBVIOUS
<1>5. \A o : /\ Ended(st, o).gate = st.gate /\ Ended(st, o).done = st.done
             /\ Ended(st, o).data = st.data
  BY DEF Ended
<1>6. \A at : Accepted(st, at).gate = st.gate /\ Accepted(st, at).done = st.done
  BY DEF Accepted
<1>7. /\ Completed(st).gate = "" /\ Completed(st).done \in {st.done, CompletedSteps}
      /\ Completed(st).data = st.data
  BY DEF Completed
<1>8. CalledTo(p, c, CompletedSteps) => MayBeDone(p, c, CompletedSteps)
  BY DEF MayBeDone
<1> QED BY <1>1, <1>2, <1>3, <1>4, <1>5, <1>6, <1>7, <1>8

LEMMA ResumedOrderly ==
    ASSUME NEW p, NEW c, DOMAIN p \subseteq Nat, NEW st \in ExecutionState, Answerable(p, c, st)
    PROVE  /\ Orderly(p, c, Resumed(st))
           /\ Orderly(p, c, [Resumed(st) EXCEPT !.status = "error", !.error = TRUE])
<1> DEFINE n == st.done
           failed == [Resumed(st) EXCEPT !.status = "error", !.error = TRUE]
<1>1. n \in Nat
  BY DEF ExecutionState
<1>2. WaitsBehind(p, n) /\ MayBeDone(p, c, n) /\ TokenGiven(p, c)
  BY DEF Answerable, Orderly
<1>3. Resumed(st).gate = "" /\ Resumed(st).done = n + 1 /\ Resumed(st).data = FALSE
  BY DEF Resumed, ExecutionState
<1>4. failed.gate = "" /\ failed.done = n + 1 /\ failed.data = FALSE
  BY <1>3 DEF Resumed, ExecutionState
<1> HIDE DEF n, failed
<1>5. CalledTo(p, c, n)
  <2>1. CASE Prepares(p, n) /\ CalledTo(p, c, n - 1)
    <3>1. n \in c
      BY <1>2, <2>1 DEF Prepares, TokenGiven
    <3> QED BY <1>1, <2>1, <3>1, CalledPast
  <2> QED BY <1>2, <2>1 DEF MayBeDone
<1>6. CalledTo(p, c, n + 1)
  <2> DEFINE m == n + 1
  <2>1. m \in Int /\ m - 1 = n /\ p[m].kind = "await"
    BY <1>1, <1>2 DEF WaitsBehind
  <2>2. CalledTo(p, c, m - 1)
    BY <1>5, <2>1
  <2> HIDE DEF m
  <2>3. CalledTo(p, c, m)
    BY <2>1, <2>2, CalledPast
  <2> QED BY <2>3 DEF m
<1>7. MayBeDone(p, c, n + 1)
  BY <1>6 DEF MayBeDone
<1> QED BY <1>3, <1>4, <1>7 DEF Orderly, failed

LEMMA BlankOrderly ==
    ASSUME NEW p, NEW c, DOMAIN p \subseteq Nat \ {0}
    PROVE  Orderly(p, c, Blank)
<1>1. Blank.gate = "" /\ Blank.done = 0 /\ Blank.data = FALSE
  BY DEF Blank
<1>2. CalledTo(p, c, 0)
  <2>1. \A j \in DOMAIN p : ~(j <= 0)
    OBVIOUS
  <2> QED BY <2>1 DEF CalledTo
<1> QED BY <1>1, <1>2 DEF Orderly, MayBeDone

-----------------------------------------------------------------------------
(***************************************************************************)
(* The verifier at work for t.  What it leaves in the store, and what it   *)
(* goes on with.                                                           *)
(***************************************************************************)
SavedOrderly(t, p, c) == store'[t] # NoState => Orderly(p, c, store'[t])

GoingOrderly(p, c) ==
    /\ vpc' \in Holding => Orderly(p, c, vst')
    /\ vpc' = "callback" => Answerable(p, c, vst')
    /\ vpc' = "loop" => MayBeDone(p, c, vidx' - 1)
    /\ vpc' \in {"invoke", "calling"} => CalledTo(p, c, vidx' - 1)
    /\ vpc' = "calling" => vidx' \in c

LEMMA IdleOrderly == ASSUME NEW p, NEW c, vpc' = "idle" PROVE GoingOrderly(p, c)
BY DEF GoingOrderly, Holding

LEMMA EndOrderly ==
    ASSUME NEW t \in Tasks, NEW p, NEW c, StoreType, NEW st \in ExecutionState,
           Orderly(p, c, st),
           \/ failAuditExecution(t, st)
           \/ Save(t, st) /\ Return
           \/ storeError(t)
    PROVE  SavedOrderly(t, p, c) /\ GoingOrderly(p, c)
<1>1. vpc' = "idle"
  BY DEF failAuditExecution, storeError, Return
<1>2. store'[t] \in {Failed(st), st, NoState}
  BY DEF failAuditExecution, storeError, Save, StoreType
<1>3. SavedOrderly(t, p, c)
  BY <1>2, RecordsOrderly DEF SavedOrderly
<1> QED BY <1>1, <1>3, IdleOrderly

LEMMA ResumeOrderly ==
    ASSUME NEW t \in Tasks, NEW p, NEW c, StoreType, NEW st \in ExecutionState,
           Orderly(p, c, st), resumeFromState(t, st)
    PROVE  SavedOrderly(t, p, c) /\ GoingOrderly(p, c)
<1>1. CASE storeError(t) \/ failAuditExecution(t, st)
  BY <1>1, EndOrderly
<1>2. CASE Save(t, st) /\ Goto("load", NoState)
  <2>1. store'[t] = st /\ vpc' = "load"
    BY <1>2 DEF Save, StoreType, Goto
  <2> QED BY <2>1 DEF SavedOrderly, GoingOrderly, Holding
<1> QED BY <1>1, <1>2 DEF resumeFromState

LEMMA AdvanceOrderly ==
    ASSUME NEW t \in Tasks, NEW p, NEW c, StoreOrderly(t, p, c), Orderly(p, c, vst),
           vidx \in Nat, CalledTo(p, c, vidx), Advance, UNCHANGED store
    PROVE  SavedOrderly(t, p, c) /\ GoingOrderly(p, c)
<1>1. vpc' = "loop" /\ vst' = vst /\ vidx' = vidx + 1
  BY DEF Advance
<1>2. vidx' - 1 = vidx
  BY <1>1
<1>3. MayBeDone(p, c, vidx' - 1)
  BY <1>2 DEF MayBeDone
<1>4. GoingOrderly(p, c)
  BY <1>1, <1>3 DEF GoingOrderly
<1> QED BY <1>4 DEF SavedOrderly, StoreOrderly

(***************************************************************************)
(* The records executeLinear stops with: a gate's counts what is in front  *)
(* of it, a wait's too, and a prepared one the submission as well.         *)
(***************************************************************************)
LEMMA PausesOrderly ==
    ASSUME TypeInv, SubmitsOnce, NEW p, NEW c, p = steps, vpc = "loop", vidx \in DOMAIN steps,
           MayBeDone(p, c, vidx - 1)
    PROVE  /\ steps[vidx].kind = "gate" => Orderly(p, c, Paused(steps[vidx].gate))
           /\ steps[vidx].kind = "await" => Orderly(p, c, Awaiting)
           /\ steps[vidx].kind = "tool" /\ steps[vidx].submits /\ AwaitAhead(vidx)
                 => Orderly(p, c, Prepared)
<1> DEFINE n == vidx - 1
<1>1. /\ steps \in Pipelines /\ DOMAIN steps = 1..N /\ n \in Nat /\ n + 1 = vidx /\ vidx \in Nat
      /\ MayBeDone(p, c, n)
  BY PipelineType DEF TypeInv, EnvType
<1>2. /\ \A gate : Paused(gate).gate = gate /\ Paused(gate).done = n /\ Paused(gate).data = FALSE
      /\ Awaiting.done = n /\ Awaiting.data = FALSE
      /\ Prepared.done = vidx /\ Prepared.data = FALSE
  BY DEF Paused, Awaiting, Prepared, Blank
<1> HIDE DEF n
<1>3. steps[vidx].kind = "gate" => Orderly(p, c, Paused(steps[vidx].gate))
  <2> SUFFICES ASSUME steps[vidx].kind = "gate" PROVE Orderly(p, c, Paused(steps[vidx].gate))
    OBVIOUS
  <2>1. steps[vidx].gate # "await_callback"
    BY <1>1, PipelineType, PipelinesAssumption
  <2> QED BY <1>1, <1>2, <2>1 DEF Orderly
<1>4. steps[vidx].kind = "await" => Orderly(p, c, Awaiting)
  BY <1>1, <1>2 DEF Orderly, WaitsBehind
<1>5. steps[vidx].kind = "tool" /\ steps[vidx].submits /\ AwaitAhead(vidx)
         => Orderly(p, c, Prepared)
  <2> SUFFICES ASSUME steps[vidx].kind = "tool", steps[vidx].submits, AwaitAhead(vidx)
               PROVE  Orderly(p, c, Prepared)
    OBVIOUS
  <2>1. Prepares(p, vidx)
    BY DEF SubmitsOnce, Prepares, WaitsBehind
  <2>2. CalledTo(p, c, vidx - 1)
    BY <1>1, AtPosition DEF n
  <2> QED BY <1>2, <2>1, <2>2 DEF Orderly, MayBeDone, Prepares
<1> QED BY <1>3, <1>4, <1>5

LEMMA SummaryOrderly ==
    ASSUME TypeInv, NEW p, NEW c, p = steps, MayBeDone(p, c, vidx - 1), SendToAnalyst
    PROVE  CalledTo(p, c, CompletedSteps)
<1>1. /\ steps \in Pipelines /\ DOMAIN steps = 1..N /\ N \in Nat /\ vidx \in Nat \ {0}
      /\ vidx > N \/ steps[vidx].kind = "analyst"
  BY PipelineType DEF TypeInv, EnvType, VerifierType, Locals, SendToAnalyst, AtStep
<1>2. CalledTo(p, c, vidx - 1)
  BY <1>1, AtPosition
<1> QED BY <1>1, <1>2, SummaryCounts, CalledLess

LEMMA WorkOrderly ==
    ASSUME TypeInv, SubmitsOnce, NEW t \in Tasks, NEW p, NEW c, p = steps, vtask = t,
           StoreOrderly(t, p, c), VerifierOrderly(t, p, c),
           SaveDecision \/ SaveCallback \/ SaveExpired \/ executeLinear,
           Invoke => vidx \in c
    PROVE  SavedOrderly(t, p, c) /\ GoingOrderly(p, c)
<1>1. StoreType /\ (vpc \in Holding => vst \in ExecutionState /\ Orderly(p, c, vst))
  BY DEF TypeInv, VerifierType, Locals, Holding, VerifierOrderly
<1>2. /\ steps \in Pipelines /\ vidx \in Nat /\ vidx \in Int
      /\ DOMAIN p = 1..N /\ DOMAIN p \subseteq Nat
  <2>1. steps \in Pipelines /\ vidx \in Nat
    BY DEF TypeInv, EnvType, VerifierType
  <2>2. DOMAIN steps = 1..N /\ N \in Nat
    BY <2>1, PipelineType
  <2>3. 1..N \subseteq Nat
    BY <2>2
  <2> QED BY <2>1, <2>2, <2>3
<1>a. /\ vpc = "loop" => MayBeDone(p, c, vidx - 1)
      /\ vpc \in {"invoke", "calling"} => CalledTo(p, c, vidx - 1)
      /\ vpc = "calling" => vidx \in c
  BY DEF VerifierOrderly
<1> USE DEF Holding
<1>3. CASE SaveDecision
  <2>1. /\ vpc = "decision"
        /\ resumeFromState(t, vst) \/ (Save(t, Rejected(vst)) /\ Return)
    BY <1>3 DEF SaveDecision
  <2>2. /\ vst \in ExecutionState /\ Orderly(p, c, vst)
        /\ Rejected(vst) \in ExecutionState /\ Orderly(p, c, Rejected(vst))
    BY <1>1, <2>1, RecordTypes, RecordsOrderly
  <2> QED BY <1>1, <2>1, <2>2, EndOrderly, ResumeOrderly
<1>4. CASE SaveCallback
  <2> DEFINE failed == [Resumed(vst) EXCEPT !.status = "error", !.error = TRUE]
  <2>1. vst \in ExecutionState /\ Answerable(p, c, vst)
    BY <1>1, <1>4 DEF SaveCallback, VerifierOrderly
  <2>2. /\ Resumed(vst) \in ExecutionState /\ Orderly(p, c, Resumed(vst))
        /\ failed \in ExecutionState /\ Orderly(p, c, failed)
    BY <1>2, <1>a, <2>1, RecordTypes, ResumedOrderly
  <2>3. resumeFromState(t, Resumed(vst)) \/ (Save(t, failed) /\ Return)
    BY <1>4 DEF SaveCallback
  <2> HIDE DEF failed
  <2> QED BY <1>1, <2>2, <2>3, ResumeOrderly, EndOrderly
<1>5. CASE SaveExpired
  <2>1. Save(t, Expired(vst)) /\ Return /\ vpc = "expire"
    BY <1>5 DEF SaveExpired
  <2>2. Expired(vst) \in ExecutionState /\ Orderly(p, c, Expired(vst))
    BY <1>1, <2>1, RecordTypes, RecordsOrderly
  <2> QED BY <1>1, <2>1, <2>2, EndOrderly
<1>6. CASE LoadState
  <2>1. /\ vpc = "load" /\ store[t] # NoState /\ vpc' = "loop" /\ vst' = store[t]
        /\ vidx' = store[t].done + 1 /\ UNCHANGED store
    BY <1>6 DEF LoadState
  <2>2. Orderly(p, c, store[t])
    BY <2>1 DEF StoreOrderly
  <2>3. vidx' - 1 = store[t].done
    <3>1. store[t].done \in Nat
      BY <1>1, <2>1 DEF StoreType, ExecutionState
    <3> QED BY <2>1, <3>1
  <2>4. MayBeDone(p, c, vidx' - 1)
    BY <2>2, <2>3 DEF Orderly
  <2> QED BY <2>1, <2>2, <2>4 DEF SavedOrderly, GoingOrderly
<1>7. CASE SkipStep \/ InternalTool \/ PassGate
  <2>1. /\ vpc = "loop" /\ vst \in ExecutionState /\ Orderly(p, c, vst) /\ vidx \in DOMAIN p
        /\ p[vidx].cond \/ p[vidx].kind \in {"internal", "gate"}
    BY <1>1, <1>7 DEF SkipStep, InternalTool, PassGate, AtStep
  <2>2. CalledTo(p, c, vidx - 1)
    BY <1>2, <1>a, <2>1, AtPosition
  <2>3. CalledTo(p, c, vidx)
    BY <1>2, <2>1, <2>2, CalledPast
  <2>4. failAuditExecution(t, vst) \/ (Advance /\ UNCHANGED store)
    BY <1>7 DEF SkipStep, InternalTool, PassGate
  <2> QED BY <1>1, <1>2, <1>a, <2>1, <2>3, <2>4, EndOrderly, AdvanceOrderly
<1>8. CASE ToolSucceeds
  <2>1. vpc = "calling" /\ vst \in ExecutionState /\ Orderly(p, c, vst)
    BY <1>1, <1>8 DEF ToolSucceeds
  <2>2. CalledTo(p, c, vidx)
    BY <1>2, <1>a, <2>1, CalledPast
  <2>3. failAuditExecution(t, vst) \/ (Advance /\ UNCHANGED store)
    BY <1>8 DEF ToolSucceeds
  <2> QED BY <1>1, <1>2, <1>a, <2>1, <2>2, <2>3, EndOrderly, AdvanceOrderly
<1>9. CASE SendToAnalyst
  <2>1. vpc' = "idle" /\ UNCHANGED store
    BY <1>9 DEF SendToAnalyst, Return
  <2> QED BY <2>1, IdleOrderly DEF SavedOrderly, StoreOrderly
<1>10. CASE PauseAtGate
  <2> DEFINE st == Paused(steps[vidx].gate)
  <2>1. vpc = "loop" /\ vidx \in 1..N /\ steps[vidx].kind = "gate"
    BY <1>2, <1>a, <1>10 DEF PauseAtGate, AtStep
  <2>2. steps[vidx].gate \in Gates
    BY <1>2, <1>a, <2>1, PipelineType
  <2>3. st \in ExecutionState
    BY <2>1, <2>2, PauseTypes
  <2>4. Orderly(p, c, st)
    BY <1>2, <1>a, <2>1, PausesOrderly
  <2>5. failAuditExecution(t, st) \/ (Save(t, st) /\ Return)
    BY <1>10 DEF PauseAtGate
  <2> HIDE DEF st
  <2> QED BY <1>1, <2>3, <2>4, <2>5, EndOrderly
<1>11. CASE AwaitCallback
  <2>1. vpc = "loop" /\ vidx \in DOMAIN steps /\ steps[vidx].kind = "await"
    BY <1>11 DEF AwaitCallback, AtStep
  <2>2. Awaiting \in ExecutionState /\ Orderly(p, c, Awaiting)
    BY <1>2, <1>a, <2>1, PauseTypes, PausesOrderly
  <2>3. failAuditExecution(t, Awaiting) \/ (Save(t, Awaiting) /\ Return)
    BY <1>11 DEF AwaitCallback
  <2> QED BY <1>1, <2>2, <2>3, EndOrderly
<1>12. CASE StartTool
  <2>1. /\ vpc = "loop" /\ vidx \in DOMAIN steps /\ steps[vidx].kind \in {"tool", "agent"}
        /\ vst \in ExecutionState /\ Orderly(p, c, vst)
    BY <1>1, <1>12 DEF StartTool, AtStep
  <2>2. CASE failAuditExecution(t, vst)
    BY <1>1, <2>1, <2>2, EndOrderly
  <2>3. CalledTo(p, c, vidx - 1)
    BY <1>2, <1>a, <2>1, AtPosition
  <2>4. ASSUME NEW st, Orderly(p, c, st), Goto("invoke", st)
        PROVE  GoingOrderly(p, c)
    <3>1. vpc' = "invoke" /\ vst' = st /\ vidx' = vidx
      BY <2>4 DEF Goto
    <3> QED BY <2>3, <2>4, <3>1 DEF GoingOrderly
  <2>5. CASE /\ steps[vidx].kind = "tool" /\ steps[vidx].submits /\ AwaitAhead(vidx)
             /\ Save(t, Prepared) /\ Goto("invoke", Prepared)
    <3>1. Orderly(p, c, Prepared)
      BY <1>2, <1>a, <2>1, <2>5, PausesOrderly
    <3>2. store'[t] = Prepared
      BY <1>1, <2>5 DEF Save, StoreType
    <3>3. GoingOrderly(p, c)
      BY <2>4, <2>5, <3>1
    <3> QED BY <3>1, <3>2, <3>3 DEF SavedOrderly
  <2>6. CASE Goto("invoke", vst) /\ UNCHANGED store
    BY <2>1, <2>4, <2>6 DEF SavedOrderly, StoreOrderly
  <2> QED BY <1>12, <2>2, <2>5, <2>6 DEF StartTool
<1>13. CASE Invoke
  <2>1. vpc = "invoke" /\ vpc' = "calling" /\ vst' = vst /\ vidx' = vidx /\ UNCHANGED store
    BY <1>13 DEF Invoke, Goto
  <2> QED BY <1>1, <1>2, <1>a, <1>13, <2>1 DEF SavedOrderly, GoingOrderly, StoreOrderly
<1>14. CASE AgentFails
  <2>1. vst \in ExecutionState /\ Orderly(p, c, vst)
    BY <1>1, <1>14 DEF AgentFails
  <2>2. failAuditExecution(t, vst) \/ (vpc' = "idle" /\ UNCHANGED store)
    BY <1>14 DEF AgentFails, Return
  <2> QED BY <1>1, <2>1, <2>2, EndOrderly, IdleOrderly DEF SavedOrderly, StoreOrderly
<1>15. CASE ToolFails
  <2>1. vst \in ExecutionState /\ Orderly(p, c, vst) /\ vpc' = "fail"
    BY <1>1, <1>15 DEF ToolFails
  <2>2. Orderly(p, c, Failed(vst))
    BY <2>1, RecordsOrderly
  <2>3. \/ vst' = Failed(vst) /\ Save(t, Failed(vst))
        \/ UNCHANGED <<vst, store>>
    BY <1>15 DEF ToolFails
  <2>4. Orderly(p, c, vst') /\ SavedOrderly(t, p, c)
    BY <1>1, <2>1, <2>2, <2>3 DEF SavedOrderly, Save, StoreType, StoreOrderly
  <2> QED BY <2>1, <2>4 DEF GoingOrderly
<1>16. CASE LoadFailed
  <2>1. /\ vpc = "fail" /\ vpc' = "failsave" /\ UNCHANGED store
        /\ vst' = IF store[t] # NoState THEN store[t] ELSE vst
    BY <1>16 DEF LoadFailed, Goto
  <2> QED BY <1>1, <2>1 DEF SavedOrderly, GoingOrderly, StoreOrderly
<1>17. CASE SaveFailed
  <2>1. /\ vpc = "failsave" /\ varg \in {"error", "rejected"}
        /\ vst \in ExecutionState /\ Orderly(p, c, vst)
        /\ Save(t, Ended(vst, varg)) /\ Return
    BY <1>1, <1>17 DEF SaveFailed, TypeInv, VerifierType, Locals
  <2>2. Ended(vst, varg) \in ExecutionState /\ Orderly(p, c, Ended(vst, varg))
    BY <2>1, RecordTypes, RecordsOrderly
  <2> QED BY <1>1, <2>1, <2>2, EndOrderly
<1> QED
  BY <1>3, <1>4, <1>5, <1>6, <1>7, <1>8, <1>9, <1>10, <1>11, <1>12, <1>13, <1>14, <1>15, <1>16,
     <1>17
     DEF executeLinear

-----------------------------------------------------------------------------
(***************************************************************************)
(* The parts of RunOrderly after a step, by what the step wrote.           *)
(***************************************************************************)
LEMMA OrderlyNext ==
    ASSUME NEW t, NEW p, NEW c, UNCHANGED steps
    PROVE  /\ SavedOrderly(t, p, c) => StoreOrderly(t, p, c)'
           /\ (vtask' = t => GoingOrderly(p, c)) => VerifierOrderly(t, p, c)'
           /\ abox' \in Seq(Summed(t, p, c)) => ReportsOrderly(t, p, c)'
           /\ (analyst'.pc = "save" /\ analyst'.task = t
                 => Orderly(p, c, analyst'.st) /\ CalledTo(p, c, CompletedSteps))
                 => AnalystOrderly(t, p, c)'
           /\ (\A r \in Requests :
                 req'[r].pc = "read" /\ req'[r].task = t /\ req'[r].op = "callback_received" =>
                    Answerable(p, c, req'[r].st))
                 => RequestsOrderly(t, p, c)'
<1>1. SavedOrderly(t, p, c) => StoreOrderly(t, p, c)'
  BY DEF SavedOrderly, StoreOrderly
<1>2. (vtask' = t => GoingOrderly(p, c)) => VerifierOrderly(t, p, c)'
  BY DEF GoingOrderly, VerifierOrderly, Holding
<1>3. abox' \in Seq(Summed(t, p, c)) => ReportsOrderly(t, p, c)'
  BY DEF ReportsOrderly, Summed, CompletedSteps
<1>4. (analyst'.pc = "save" /\ analyst'.task = t
         => Orderly(p, c, analyst'.st) /\ CalledTo(p, c, CompletedSteps))
         => AnalystOrderly(t, p, c)'
  BY DEF AnalystOrderly, CompletedSteps
<1>5. (\A r \in Requests :
         req'[r].pc = "read" /\ req'[r].task = t /\ req'[r].op = "callback_received" =>
            Answerable(p, c, req'[r].st))
         => RequestsOrderly(t, p, c)'
  BY DEF RequestsOrderly
<1> QED BY <1>1, <1>2, <1>3, <1>4, <1>5

LEMMA OrderlyParts ==
    ASSUME NEW t, NEW p, NEW c, UNCHANGED steps
    PROVE  /\ StoreOrderly(t, p, c) /\ store'[t] = store[t] => StoreOrderly(t, p, c)'
           /\ VerifierOrderly(t, p, c) /\ UNCHANGED verifierVars => VerifierOrderly(t, p, c)'
           /\ ReportsOrderly(t, p, c) /\ UNCHANGED abox => ReportsOrderly(t, p, c)'
           /\ AnalystOrderly(t, p, c) /\ UNCHANGED analyst => AnalystOrderly(t, p, c)'
           /\ RequestsOrderly(t, p, c) /\ UNCHANGED req => RequestsOrderly(t, p, c)'
<1>1. StoreOrderly(t, p, c) /\ store'[t] = store[t] => StoreOrderly(t, p, c)'
  BY DEF StoreOrderly
<1>2. VerifierOrderly(t, p, c) /\ UNCHANGED verifierVars => VerifierOrderly(t, p, c)'
  BY DEF VerifierOrderly, verifierVars, Holding
<1>3. ReportsOrderly(t, p, c) /\ UNCHANGED abox => ReportsOrderly(t, p, c)'
  BY OrderlyNext DEF ReportsOrderly
<1>4. AnalystOrderly(t, p, c) /\ UNCHANGED analyst => AnalystOrderly(t, p, c)'
  BY OrderlyNext DEF AnalystOrderly
<1>5. RequestsOrderly(t, p, c) /\ UNCHANGED req => RequestsOrderly(t, p, c)'
  BY DEF RequestsOrderly
<1> QED BY <1>1, <1>2, <1>3, <1>4, <1>5

LEMMA BeginsOrderly ==
    ASSUME NEW t, NEW p, NEW c, RunOrderly(t, p, c),
           UNCHANGED <<steps, abox, analyst, req>>, SavedOrderly(t, p, c),
           vtask' = t => GoingOrderly(p, c)
    PROVE  RunOrderly(t, p, c)'
BY OrderlyParts, OrderlyNext DEF RunOrderly

-----------------------------------------------------------------------------
(***************************************************************************)
(* One lemma per actor: what is in order stays so.                         *)
(***************************************************************************)
LEMMA WorkingOrderly ==
    ASSUME NEW t \in Tasks, NEW p, NEW c, p = steps, TypeInv, SubmitsOnce, RunOrderly(t, p, c),
           SaveDecision \/ SaveCallback \/ SaveExpired \/ executeLinear,
           Invoke /\ vtask = t => vidx \in c
    PROVE  RunOrderly(t, p, c)'
<1>1. Working /\ UNCHANGED steps
  BY WorkingSteps, WorkingFrame
<1>2. UNCHANGED <<analyst, req>> /\ vtask' = vtask /\ vtask \in Tasks
  BY <1>1 DEF Working, TypeInv, VerifierType
<1> USE DEF RunOrderly
<1>3. AnalystOrderly(t, p, c)' /\ RequestsOrderly(t, p, c)'
  BY <1>1, <1>2, OrderlyParts
<1>4. StoreOrderly(t, p, c)' /\ VerifierOrderly(t, p, c)'
  <2>1. CASE vtask = t
    BY <1>1, <1>2, <2>1, WorkOrderly, OrderlyNext
  <2>2. CASE vtask # t
    <3>1. store'[t] = store[t]
      BY <1>1, <2>2 DEF Working
    <3> QED BY <1>1, <1>2, <2>2, <3>1, OrderlyParts, OrderlyNext
  <2> QED BY <2>1, <2>2
<1>5. ReportsOrderly(t, p, c)'
  <2>1. CASE abox' = abox
    BY <1>1, <2>1, OrderlyParts
  <2>2. CASE SendToAnalyst
    <3>1. abox' = Delivered(abox, vtask) /\ abox \in Seq(Summed(t, p, c)) /\ vpc = "loop"
      BY <2>2 DEF SendToAnalyst, ReportsOrderly, AtStep
    <3>2. vtask = t => CalledTo(p, c, CompletedSteps)
      BY <2>2, <3>1, SummaryOrderly DEF VerifierOrderly
    <3>3. vtask \in Summed(t, p, c)
      BY <1>2, <3>2 DEF Summed
    <3>4. abox' \in Seq(Summed(t, p, c))
      BY <3>1, <3>3, DeliveredType
    <3> QED BY <1>1, <3>4, OrderlyNext
  <2> QED BY <2>1, <2>2, WorkingFrame
<1> QED BY <1>3, <1>4, <1>5

LEMMA RunPipelineOrderly ==
    ASSUME NEW t \in Tasks, NEW p, NEW c, p = steps, TypeInv, RunOrderly(t, p, c),
           handleRunPipeline
    PROVE  RunOrderly(t, p, c)'
<1> DEFINE u == Head(inbox).task
           st == [LoadOrNew(u) EXCEPT !.version = cfg]
<1>1. UNCHANGED <<steps, abox, analyst, req>>
  BY DEF handleRunPipeline, analystVars, envVars
<1>2. u \in Tasks /\ DOMAIN p \subseteq Nat \ {0}
  <2>1. inbox \in Seq(Messages) /\ inbox # <<>>
    BY DEF handleRunPipeline, Receive, TypeInv, BusType
  <2>2. Head(inbox) \in Messages
    BY <2>1, HeadTailType
  <2>3. DOMAIN steps = 1..N /\ N \in Nat
    BY PipelineType DEF TypeInv, EnvType
  <2>4. 1..N \subseteq Nat \ {0}
    BY <2>3
  <2> QED BY <2>2, <2>3, <2>4 DEF Messages
<1>3. \/ Save(u, st) /\ vtask' = u /\ vpc' = "load"
      \/ failAuditExecution(u, st)
      \/ Return /\ UNCHANGED store
  BY DEF handleRunPipeline
<1>4. ASSUME u = t
      PROVE  st \in ExecutionState /\ Orderly(p, c, st)
  <2>1. LoadOrNew(t) \in ExecutionState /\ Orderly(p, c, LoadOrNew(t))
    BY <1>2, BlankType, BlankOrderly
       DEF LoadOrNew, RunOrderly, StoreOrderly, TypeInv, StoreType
  <2> DEFINE old == LoadOrNew(t)
  <2>2. /\ old \in ExecutionState /\ Orderly(p, c, old) /\ cfg \in Nat
        /\ st = [old EXCEPT !.version = cfg]
    BY <1>4, <2>1 DEF TypeInv, EnvType
  <2> HIDE DEF old, st
  <2> QED BY <2>2, RecordTypes, RecordsOrderly
<1> HIDE DEF u, st
<1>5. SavedOrderly(t, p, c) /\ (vtask' = t => GoingOrderly(p, c))
  <2> USE DEF RunOrderly
  <2>1. CASE UNCHANGED store /\ Return
    BY <2>1, IdleOrderly DEF Return, SavedOrderly, StoreOrderly
  <2>2. CASE u = t /\ Save(u, st) /\ vpc' = "load"
    <3>1. store'[t] = st
      BY <2>2 DEF Save, TypeInv, StoreType
    <3> QED BY <1>4, <2>2, <3>1 DEF SavedOrderly, GoingOrderly, Holding
  <2>3. CASE u = t /\ failAuditExecution(u, st)
    BY <1>4, <2>3, EndOrderly DEF TypeInv
  <2>4. CASE u # t /\ Save(u, st) /\ vtask' = u
    <3>1. store'[t] = store[t]
      BY <2>4, SaveFrame DEF TypeInv
    <3> QED BY <2>4, <3>1 DEF SavedOrderly, StoreOrderly
  <2>5. CASE u # t /\ failAuditExecution(u, st)
    <3>1. store'[t] = store[t]
      BY <2>5, EndFrame DEF TypeInv
    <3>2. vpc' = "idle"
      BY <2>5 DEF failAuditExecution, Return
    <3> QED BY <3>1, <3>2, IdleOrderly DEF SavedOrderly, StoreOrderly
  <2> QED BY <1>3, <2>1, <2>2, <2>3, <2>4, <2>5
<1> QED BY <1>1, <1>5, BeginsOrderly

LEMMA VerifierStaysOrderly ==
    ASSUME NEW t \in Tasks, NEW p, NEW c, p = steps, TypeInv, SubmitsOnce, TaskOrderly(t, p, c),
           Verifier, Invoke /\ vtask = t => vidx \in c
    PROVE  RunOrderly(t, p, c)'
<1> USE DEF envVars, analystVars
<1> DEFINE u == Head(inbox).task
<1>1. RunOrderly(t, p, c) /\ StoreOrderly(t, p, c) /\ VerifierOrderly(t, p, c)
  BY DEF TaskOrderly, RunOrderly
<1>2. ASSUME NEW decision \in {"approved", "rejected"}, handleHumanDecision(decision)
      PROVE  RunOrderly(t, p, c)'
  <2>1. UNCHANGED <<steps, abox, analyst, req>>
    BY <1>2 DEF handleHumanDecision
  <2>2. \/ store[u] = NoState /\ storeError(u)
        \/ /\ store[u] # NoState /\ UNCHANGED store
           /\ vtask' = u /\ vst' = store[u] /\ vpc' = "decision"
    BY <1>2 DEF handleHumanDecision
  <2> HIDE DEF u
  <2>3. SavedOrderly(t, p, c) /\ (vtask' = t => GoingOrderly(p, c))
    <3>1. CASE storeError(u)
      <4>1. vpc' = "idle" /\ store' = [store EXCEPT ![u] = NoState]
        BY <3>1 DEF storeError, Return, Save
      <4>2. store'[t] \in {store[t], NoState}
        BY <4>1 DEF TypeInv, StoreType
      <4> QED BY <1>1, <4>1, <4>2, IdleOrderly DEF SavedOrderly, StoreOrderly
    <3>2. CASE /\ store[u] # NoState /\ UNCHANGED store
               /\ vtask' = u /\ vst' = store[u] /\ vpc' = "decision"
      BY <1>1, <3>2 DEF SavedOrderly, GoingOrderly, StoreOrderly, Holding
    <3> QED BY <2>2, <3>1, <3>2
  <2> QED BY <1>1, <2>1, <2>3, BeginsOrderly
<1>3. CASE handleCallback
  <2>1. UNCHANGED <<steps, abox, analyst, req, store>> /\ Receive("callback_received")
    BY <1>3 DEF handleCallback
  <2>2. \/ Resumable(store[u]) /\ vtask' = u /\ vst' = store[u] /\ vpc' = "callback"
        \/ UNCHANGED verifierVars
    BY <1>3 DEF handleCallback, MatchCallback
  <2>3. u = t => TokenGiven(p, c)
    <3>1. Head(inbox) \in Brought(t, p, c)
      BY <2>1, HeadTailType DEF TaskOrderly, InboxOrderly, Receive
    <3>2. Head(inbox) \in Messages /\ Head(inbox).type = "callback_received"
      BY <2>1, <3>1 DEF Receive, Brought
    <3>3. u = t => Head(inbox) = Message("callback_received", t)
      BY <3>2 DEF Messages, Message
    <3> QED BY <3>1, <3>3 DEF Brought
  <2> HIDE DEF u
  <2>4. SavedOrderly(t, p, c)
    BY <1>1, <2>1 DEF SavedOrderly, StoreOrderly
  <2>5. CASE Resumable(store[u]) /\ vtask' = u /\ vst' = store[u] /\ vpc' = "callback"
    <3>1. u = t => Answerable(p, c, store[u])
      BY <1>1, <2>3, <2>5 DEF Resumable, StoreOrderly, Answerable
    <3>2. vtask' = t => GoingOrderly(p, c)
      BY <2>5, <3>1 DEF GoingOrderly, Answerable, Holding
    <3> QED BY <1>1, <2>1, <2>4, <3>2, BeginsOrderly
  <2>6. CASE UNCHANGED verifierVars
    <3>1. store'[t] = store[t]
      BY <2>1
    <3> QED BY <1>1, <2>1, <2>6, <3>1, OrderlyParts DEF RunOrderly
  <2> QED BY <2>2, <2>5, <2>6
<1>4. CASE SaveDecision \/ SaveCallback \/ SaveExpired \/ executeLinear
  BY <1>1, <1>4, WorkingOrderly
<1>5. CASE handleRunPipeline
  BY <1>1, <1>5, RunPipelineOrderly
<1> QED BY <1>2, <1>3, <1>4, <1>5 DEF Verifier

LEMMA TickerOrderly ==
    ASSUME NEW t \in Tasks, NEW p, NEW c, RunOrderly(t, p, c), NEW u \in Tasks, Ticker(u)
    PROVE  RunOrderly(t, p, c)'
<1>1. UNCHANGED <<steps, abox, analyst, req, store>>
  BY DEF Ticker, recoverPendingCallbacks, expireAwaitingCallbacks, envVars, analystVars
<1>2. /\ vtask' = u /\ vst' = store[u] /\ store[u] # NoState
      /\ \/ vpc' = "expire"
         \/ vpc' = "callback" /\ store[u].gate = "await_callback" /\ store[u].data
  BY DEF Ticker, recoverPendingCallbacks, expireAwaitingCallbacks, MatchCallback, Resumable,
         Overdue
<1>3. SavedOrderly(t, p, c) /\ (vtask' = t => GoingOrderly(p, c))
  BY <1>1, <1>2
     DEF SavedOrderly, GoingOrderly, RunOrderly, StoreOrderly, Holding, Answerable, Orderly
<1> QED BY <1>1, <1>3, BeginsOrderly

LEMMA DispatchOrderly ==
    ASSUME NEW t \in Tasks, NEW p, NEW c, p = steps, TypeInv, RunOrderly(t, p, c),
           NEW u \in Tasks, DispatchPipeline(u)
    PROVE  RunOrderly(t, p, c)'
<1>1. UNCHANGED <<steps, abox, analyst, req, verifierVars>>
  BY DEF DispatchPipeline, envVars, analystVars
<1>2. Orderly(p, c, Blank)
  <2>1. DOMAIN steps = 1..N /\ N \in Nat
    BY PipelineType DEF TypeInv, EnvType
  <2>2. 1..N \subseteq Nat \ {0}
    BY <2>1
  <2> QED BY <2>1, <2>2, BlankOrderly
<1>3. store'[t] = store[t] \/ store'[t] = Blank
  BY DEF DispatchPipeline, Save, TypeInv, StoreType
<1>4. SavedOrderly(t, p, c)
  BY <1>2, <1>3 DEF SavedOrderly, RunOrderly, StoreOrderly
<1> QED BY <1>1, <1>4, OrderlyNext, OrderlyParts DEF RunOrderly

LEMMA AnalystStaysOrderly ==
    ASSUME NEW t \in Tasks, NEW p, NEW c, p = steps, TypeInv, RunOrderly(t, p, c), Analyst
    PROVE  RunOrderly(t, p, c)'
<1> USE DEF runUnchanged, envVars, RunOrderly
<1>1. UNCHANGED <<steps, req, verifierVars>>
  BY DEF Analyst, LoadCompletion, SaveCompletion
<1>2. CASE LoadCompletion
  <2>1. /\ UNCHANGED store /\ abox' = Tail(abox)
        /\ analyst' = [pc |-> "save", task |-> Head(abox), st |-> LoadOrNew(Head(abox))]
    BY <1>2 DEF LoadCompletion
  <2>2. Head(abox) \in Summed(t, p, c) /\ Tail(abox) \in Seq(Summed(t, p, c))
    BY <1>2, HeadTailType DEF LoadCompletion, ReportsOrderly
  <2>3. Orderly(p, c, LoadOrNew(t))
    <3>1. DOMAIN steps = 1..N /\ N \in Nat
      BY PipelineType DEF TypeInv, EnvType
    <3>2. 1..N \subseteq Nat \ {0}
      BY <3>1
    <3> QED BY <3>1, <3>2, BlankOrderly DEF LoadOrNew, StoreOrderly
  <2>4. AnalystOrderly(t, p, c)'
    <3>1. analyst'.task = t => Orderly(p, c, analyst'.st) /\ CalledTo(p, c, CompletedSteps)
      BY <2>1, <2>2, <2>3 DEF Summed
    <3> QED BY <1>1, <3>1, OrderlyNext
  <2>5. ReportsOrderly(t, p, c)'
    BY <1>1, <2>1, <2>2, OrderlyNext
  <2>6. store'[t] = store[t]
    BY <2>1
  <2> QED BY <1>1, <2>4, <2>5, <2>6, OrderlyParts
<1>3. CASE SaveCompletion
  <2>1. /\ Save(analyst.task, Completed(analyst.st)) /\ UNCHANGED abox
        /\ analyst.pc = "save" /\ analyst'.pc = "idle" /\ analyst.st \in ExecutionState
    BY <1>3 DEF SaveCompletion, TypeInv, AnalystType
  <2>2. AnalystOrderly(t, p, c)' /\ ReportsOrderly(t, p, c)'
    BY <1>1, <2>1, OrderlyNext, OrderlyParts
  <2>3. SavedOrderly(t, p, c)
    <3>1. CASE analyst.task # t
      <4>1. store'[t] = store[t]
        BY <2>1, <3>1, SaveFrame DEF TypeInv
      <4> QED BY <4>1 DEF SavedOrderly, StoreOrderly
    <3>2. CASE analyst.task = t
      <4>1. store'[t] = Completed(analyst.st)
        BY <2>1, <3>2 DEF Save, TypeInv, StoreType
      <4>2. Orderly(p, c, analyst.st) /\ CalledTo(p, c, CompletedSteps)
        BY <2>1, <3>2 DEF AnalystOrderly
      <4>3. Orderly(p, c, Completed(analyst.st))
        BY <2>1, <4>2, RecordsOrderly
      <4> QED BY <4>1, <4>3 DEF SavedOrderly
    <3> QED BY <3>1, <3>2
  <2> QED BY <1>1, <2>2, <2>3, OrderlyNext, OrderlyParts
<1> QED BY <1>2, <1>3 DEF Analyst

LEMMA CrashOrderly ==
    ASSUME NEW t \in Tasks, NEW p, NEW c, TypeInv, RunOrderly(t, p, c), Crash
    PROVE  RunOrderly(t, p, c)'
<1>1. /\ UNCHANGED <<steps, store>> /\ abox' = <<>> /\ vpc' = "idle"
      /\ analyst'.pc = "idle" /\ \A r \in Requests : req'[r].pc # "read"
  BY DEF Crash, Return, TypeInv, AnalystType, RequestType
<1>2. StoreOrderly(t, p, c)'
  BY <1>1, OrderlyParts DEF RunOrderly
<1>3. ReportsOrderly(t, p, c)' /\ VerifierOrderly(t, p, c)'
  BY <1>1, EmptySeq, IdleOrderly, OrderlyNext
<1>4. AnalystOrderly(t, p, c)' /\ RequestsOrderly(t, p, c)'
  BY <1>1 DEF AnalystOrderly, RequestsOrderly
<1> QED BY <1>2, <1>3, <1>4 DEF RunOrderly

LEMMA ApiOrderly ==
    ASSUME NEW t \in Tasks, NEW p, NEW c, p = steps, TypeInv, TaskOrderly(t, p, c),
           NEW r \in Requests, Api(r)
    PROVE  RunOrderly(t, p, c)'
<1> USE DEF apiUnchanged, envVars, analystVars, RunOrderly
<1>1. UNCHANGED <<steps, abox, analyst, verifierVars>> /\ RunOrderly(t, p, c)
  BY DEF Api, ReadCallback, ReadDecision, AcceptCallback, SendDecision, TaskOrderly
<1>2. AnalystOrderly(t, p, c)' /\ VerifierOrderly(t, p, c)' /\ ReportsOrderly(t, p, c)'
  BY <1>1, OrderlyParts
<1>3. ASSUME NEW u \in Tasks, NEW op \in Operations, Read(r, op, u), UNCHANGED store,
             op = "callback_received" /\ u = t => Answerable(p, c, store[t])
      PROVE  RunOrderly(t, p, c)'
  <2>1. /\ req'[r].task = u /\ req'[r].st = store[u] /\ req'[r].op = op
        /\ \A q \in Requests : q # r => req'[q] = req[q]
    BY <1>3 DEF Read, TypeInv, RequestType
  <2>2. ASSUME NEW q \in Requests, req'[q].pc = "read", req'[q].task = t,
               req'[q].op = "callback_received"
        PROVE  Answerable(p, c, req'[q].st)
    BY <1>1, <1>3, <2>1, <2>2 DEF RequestsOrderly
  <2>3. RequestsOrderly(t, p, c)'
    BY <1>1, <2>2, OrderlyNext
  <2>4. store'[t] = store[t]
    BY <1>3
  <2> QED BY <1>1, <1>2, <2>3, <2>4, OrderlyParts
<1>4. ASSUME Done(r)
      PROVE  RequestsOrderly(t, p, c)'
  <2>1. req'[r].pc = "done" /\ \A q \in Requests : q # r => req'[q] = req[q]
    BY <1>4 DEF Done, TypeInv, RequestType
  <2>2. ASSUME NEW q \in Requests, req'[q].pc = "read", req'[q].task = t,
               req'[q].op = "callback_received"
        PROVE  Answerable(p, c, req'[q].st)
    BY <1>1, <2>1, <2>2 DEF RequestsOrderly
  <2> QED BY <1>1, <2>2, OrderlyNext
<1>5. ASSUME NEW u \in Tasks, ReadCallback(r, u)
      PROVE  RunOrderly(t, p, c)'
  <2>1. /\ u \in known /\ Read(r, "callback_received", u) /\ UNCHANGED store
        /\ store[u].gate = "await_callback" /\ store[u] # NoState
    BY <1>5 DEF ReadCallback, Read
  <2>2. u = t => Answerable(p, c, store[t])
    BY <1>1, <2>1 DEF StoreOrderly, Answerable, TaskOrderly, CallsOrderly
  <2> QED BY <1>3, <2>1, <2>2 DEF Operations
<1>6. ASSUME NEW u \in Tasks, NEW decision \in {"approved", "rejected"},
             ReadDecision(r, u, decision)
      PROVE  RunOrderly(t, p, c)'
  BY <1>3, <1>6 DEF ReadDecision, Operations
<1>7. CASE AcceptCallback(r)
  <2> DEFINE u == req[r].task
  <2>1. /\ req[r].pc = "read" /\ req[r].op = "callback_received" /\ Done(r)
        /\ req[r].st \in ExecutionState
        /\ \/ \E receivedAt : Save(u, Accepted(req[r].st, receivedAt))
           \/ UNCHANGED store
    BY <1>7 DEF AcceptCallback, TypeInv, RequestType
  <2>2. SavedOrderly(t, p, c)
    <3>1. CASE UNCHANGED store
      BY <1>1, <3>1 DEF SavedOrderly, StoreOrderly
    <3>2. ASSUME NEW receivedAt, Save(u, Accepted(req[r].st, receivedAt))
          PROVE  SavedOrderly(t, p, c)
      <4>1. CASE u # t
        <5>1. store'[t] = store[t]
          BY <3>2, <4>1, SaveFrame DEF TypeInv
        <5> QED BY <1>1, <5>1 DEF SavedOrderly, StoreOrderly
      <4>2. CASE u = t
        <5>1. store'[t] = Accepted(req[r].st, receivedAt)
          BY <3>2, <4>2 DEF Save, TypeInv, StoreType
        <5>2. Orderly(p, c, req[r].st) /\ TokenGiven(p, c)
          BY <1>1, <2>1, <4>2 DEF RequestsOrderly, Answerable
        <5>3. Orderly(p, c, Accepted(req[r].st, receivedAt))
          BY <2>1, <5>2, RecordsOrderly
        <5> QED BY <5>1, <5>3 DEF SavedOrderly
      <4> QED BY <4>1, <4>2
    <3> QED BY <2>1, <3>1, <3>2
  <2> QED BY <1>1, <1>2, <1>4, <2>1, <2>2, OrderlyNext
<1>8. CASE SendDecision(r)
  <2>1. Done(r) /\ store'[t] = store[t]
    BY <1>8 DEF SendDecision
  <2> QED BY <1>1, <1>2, <1>4, <2>1, OrderlyParts
<1> QED BY <1>5, <1>6, <1>7, <1>8 DEF Api

(***************************************************************************)
(* The bus brings no callback for a task whose token nobody has.           *)
(***************************************************************************)
LEMMA InboxStaysOrderly ==
    ASSUME NEW t \in Tasks, NEW p, NEW c, TypeInv, TaskOrderly(t, p, c), [Next]_vars
    PROVE  InboxOrderly(t, p, c)'
<1>1. inbox \in Seq(Brought(t, p, c)) /\ RequestsOrderly(t, p, c)
  BY DEF TaskOrderly, InboxOrderly, RunOrderly
<1>2. ASSUME NEW u \in Tasks, NEW type \in {"run_pipeline"} \cup Operations, Sends(u, type)
      PROVE  inbox' \in Seq(Brought(t, p, c))
  <2>1. type = "callback_received" /\ u = t => TokenGiven(p, c)
    BY <1>1, <1>2 DEF Sends, RequestsOrderly, Answerable
  <2>2. [type |-> type, task |-> u] \in Brought(t, p, c)
    BY <2>1 DEF Brought, Messages, Message, Operations
  <2> QED BY <1>1, <1>2, <2>2, DeliveredType DEF Sends, Send
<1>3. inbox # <<>> => Tail(inbox) \in Seq(Brought(t, p, c))
  BY <1>1, HeadTailType
<1>4. inbox' \in Seq(Brought(t, p, c))
  BY <1>1, <1>2, <1>3, NextInbox, EmptySeq DEF InboxStep
<1> QED BY <1>4 DEF InboxOrderly, Brought

-----------------------------------------------------------------------------
(***************************************************************************)
(* Calls: only Invoke makes one, behind everything it has to be behind.    *)
(***************************************************************************)
LEMMA OnlyInvokeCalls == [Next]_vars => Invoke \/ UNCHANGED <<ran, known>>
<1> SUFFICES ASSUME [Next]_vars PROVE Invoke \/ UNCHANGED <<ran, known>>
  OBVIOUS
<1> USE DEF runUnchanged, apiUnchanged, history
<1>1. CASE executeLinear
  BY <1>1 DEF executeLinear, LoadState, SkipStep, SendToAnalyst, PassGate, PauseAtGate,
     AwaitCallback, InternalTool, StartTool, ToolSucceeds, AgentFails, ToolFails,
     LoadFailed, SaveFailed
<1>2. CASE Verifier /\ ~executeLinear
  BY <1>2 DEF Verifier, handleRunPipeline, handleHumanDecision, SaveDecision, handleCallback,
     SaveCallback, SaveExpired
<1>3. CASE \E t \in Tasks : DispatchPipeline(t) \/ Ticker(t) \/ Poll(t)
  BY <1>3 DEF DispatchPipeline, Ticker, recoverPendingCallbacks, expireAwaitingCallbacks, Poll,
     AwaitHuman, GetResult, DeleteResult
<1>4. CASE Analyst \/ BreakJournal \/ Tick \/ Crash \/ UNCHANGED vars
  BY <1>4 DEF Analyst, LoadCompletion, SaveCompletion, BreakJournal, Tick, Crash, vars
<1>5. CASE \E r \in Requests : Api(r)
  BY <1>5 DEF Api, ReadCallback, ReadDecision, AcceptCallback, SendDecision
<1> QED BY <1>1, <1>2, <1>3, <1>4, <1>5 DEF Next

LEMMA CallsStayOrderly ==
    ASSUME NEW t \in Tasks, TypeInv, SubmitsOnce, TaskOrderly(t, steps, Called(t)), [Next]_vars
    PROVE  /\ Called(t) \subseteq Called(t)' /\ Called(t)' \subseteq Nat
           /\ \A i \in Called(t)' : CalledTo(steps, Called(t)', i - 1)
           /\ t \in known \/ t \in known' => TokenGiven(steps, Called(t)')
           /\ Invoke /\ vtask = t => vidx \in Called(t)'
<1> DEFINE c == Called(t)
           d == Called(t)'
<1>1. /\ DOMAIN steps = 1..N /\ N \in Nat /\ N' = N
      /\ ran \in [Tasks -> [1..N -> Nat]] /\ vtask \in Tasks
      /\ c = {i \in 1..N : ran[t][i] > 0} /\ d = {i \in 1..N : ran'[t][i] > 0}
  <2>1. UNCHANGED steps
    BY NextSteps
  <2> QED BY <2>1, PipelineType DEF TypeInv, EnvType, CountType, VerifierType, Called, N
<1>2. /\ \A i \in c : CalledTo(steps, c, i - 1)
      /\ t \in known => TokenGiven(steps, c)
  BY DEF TaskOrderly, CallsOrderly
<1>3. CASE ~(Invoke /\ vtask = t)
  <2>1. ran'[t] = ran[t] /\ (t \in known' => t \in known)
    BY <1>1, <1>3, OnlyInvokeCalls DEF Invoke
  <2>2. d = c
    BY <1>1, <2>1
  <2> QED BY <1>1, <1>2, <1>3, <2>1, <2>2
<1>4. CASE Invoke /\ vtask = t
  <2>1. /\ vidx \in 1..N /\ ran' = [ran EXCEPT ![t][vidx] = @ + 1] /\ vpc = "invoke"
        /\ known' = IF steps[vidx].submits THEN known \cup {t} ELSE known
    BY <1>4 DEF Invoke, TypeInv, VerifierType, Locals
  <2>2. /\ ran'[t][vidx] = ran[t][vidx] + 1 /\ ran[t][vidx] \in Nat
        /\ \A i \in 1..N : i # vidx => ran'[t][i] = ran[t][i]
    BY <1>1, <2>1
  <2>3. d = c \cup {vidx}
    BY <1>1, <2>1, <2>2
  <2>4. CalledTo(steps, c, vidx - 1)
    BY <1>4, <2>1 DEF TaskOrderly, RunOrderly, VerifierOrderly
  <2>5. c \subseteq d /\ vidx \in d /\ d \subseteq Nat
    BY <1>1, <2>3
  <2> HIDE DEF c, d
  <2>6. \A i \in d : CalledTo(steps, d, i - 1)
    BY <1>2, <2>3, <2>4, <2>5, CalledMore
  <2>7. t \in known \/ t \in known' => TokenGiven(steps, d)
    <3>1. CASE t \in known
      BY <1>2, <2>5, <3>1, CalledMore
    <3>2. CASE steps[vidx].submits
      BY <1>1, <2>1, <2>5, <3>2 DEF SubmitsOnce, TokenGiven
    <3> QED BY <2>1, <3>1, <3>2
  <2> QED BY <2>5, <2>6, <2>7 DEF c, d
<1> QED BY <1>3, <1>4

LEMMA WiderSeq ==
    ASSUME NEW S, NEW T, S \subseteq T, NEW s \in Seq(S)
    PROVE  s \in Seq(T)
<1>1. \A i \in DOMAIN s : s[i] \in S
  OBVIOUS
<1> QED BY <1>1, NarrowSeq

LEMMA OrderlyMore ==
    ASSUME NEW t, NEW p, NEW c, NEW d, c \subseteq d, TaskOrderly(t, p, c), CallsOrderly(t, p, d)
    PROVE  TaskOrderly(t, p, d)
<1> USE DEF TaskOrderly, RunOrderly
<1>1. StoreOrderly(t, p, d) /\ AnalystOrderly(t, p, d) /\ RequestsOrderly(t, p, d)
  BY CalledMore DEF StoreOrderly, AnalystOrderly, RequestsOrderly
<1>2. VerifierOrderly(t, p, d)
  BY CalledMore DEF VerifierOrderly
<1>3. ReportsOrderly(t, p, d)
  <2>1. Summed(t, p, c) \subseteq Summed(t, p, d)
    BY CalledMore DEF Summed
  <2> QED BY <2>1, WiderSeq DEF ReportsOrderly
<1>4. InboxOrderly(t, p, d)
  <2>1. Brought(t, p, c) \subseteq Brought(t, p, d)
    BY CalledMore DEF Brought
  <2> QED BY <2>1, WiderSeq DEF InboxOrderly
<1> QED BY <1>1, <1>2, <1>3, <1>4

LEMMA NextRunOrderly ==
    ASSUME NEW t \in Tasks, NEW p, NEW c, p = steps, TypeInv, SubmitsOnce, TaskOrderly(t, p, c),
           Invoke /\ vtask = t => vidx \in c, [Next]_vars
    PROVE  RunOrderly(t, p, c)'
<1>1. CASE BreakJournal \/ Tick \/ UNCHANGED vars \/ \E u \in Tasks : Poll(u)
  <2>1. UNCHANGED <<steps, abox, analyst, req, verifierVars>> /\ store'[t] = store[t]
    BY <1>1 DEF BreakJournal, Tick, vars, analystVars, envVars, Poll, AwaitHuman, GetResult,
                DeleteResult
  <2> QED BY <2>1, OrderlyParts DEF TaskOrderly, RunOrderly
<1>2. RunOrderly(t, p, c)
  BY DEF TaskOrderly
<1> QED
  BY <1>1, <1>2, VerifierStaysOrderly, TickerOrderly, DispatchOrderly, AnalystStaysOrderly,
     ApiOrderly, CrashOrderly
     DEF Next

LEMMA NextInOrder ==
    TypeInv /\ SubmitsOnce /\ InOrder /\ [Next]_vars => InOrder' /\ SubmitsOnce'
<1> SUFFICES ASSUME TypeInv, SubmitsOnce, InOrder, [Next]_vars
             PROVE  InOrder' /\ SubmitsOnce'
  OBVIOUS
<1>1. UNCHANGED steps
  BY NextSteps
<1>2. SubmitsOnce'
  BY <1>1 DEF SubmitsOnce, AwaitAhead, IsLastAwait
<1>3. ASSUME NEW t \in Tasks
      PROVE  TaskOrderly(t, steps, Called(t))'
  <2>1. PICK p, c, d : p = steps /\ c = Called(t) /\ d = Called(t)'
    OBVIOUS
  <2>2. TaskOrderly(t, p, c)
    BY <2>1 DEF InOrder
  <2>3. /\ c \subseteq d
        /\ \A i \in d : CalledTo(p, d, i - 1)
        /\ t \in known \/ t \in known' => TokenGiven(p, d)
        /\ Invoke /\ vtask = t => vidx \in d
    BY <2>1, CallsStayOrderly DEF InOrder
  <2>4. CallsOrderly(t, p, d) /\ CallsOrderly(t, p, d)'
    BY <2>3 DEF CallsOrderly
  <2>5. TaskOrderly(t, p, d)
    BY <2>2, <2>3, <2>4, OrderlyMore
  <2>6. RunOrderly(t, p, d)' /\ InboxOrderly(t, p, d)'
    BY <2>1, <2>3, <2>5, NextRunOrderly, InboxStaysOrderly
  <2>7. TaskOrderly(t, p, d)'
    BY <2>4, <2>6 DEF TaskOrderly
  <2>8. p = steps' /\ d = Called(t)'
    BY <1>1, <2>1
  <2> QED BY <2>7, <2>8
<1> QED BY <1>2, <1>3 DEF InOrder

LEMMA InitInOrder == Init => InOrder
<1> SUFFICES ASSUME Init, NEW t \in Tasks
             PROVE  TaskOrderly(t, steps, Called(t))
  BY DEF InOrder
<1>1. Called(t) = {}
  <2>1. \A i \in 1..N : ran[t][i] = 0
    BY DEF Init
  <2> QED BY <2>1 DEF Called
<1>2. StoreOrderly(t, steps, {}) /\ VerifierOrderly(t, steps, {})
  BY DEF Init, StoreOrderly, VerifierOrderly, Holding
<1>3. AnalystOrderly(t, steps, {}) /\ RequestsOrderly(t, steps, {}) /\ CallsOrderly(t, steps, {})
  BY DEF Init, AnalystOrderly, RequestsOrderly, CallsOrderly
<1>4. ReportsOrderly(t, steps, {}) /\ InboxOrderly(t, steps, {})
  BY EmptySeq DEF Init, ReportsOrderly, InboxOrderly
<1> QED BY <1>1, <1>2, <1>3, <1>4 DEF TaskOrderly, RunOrderly

(***************************************************************************)
(* A linear pipeline that submits once, and waits unconditionally right    *)
(* after that, calls a tool or an agent only when every unconditional one  *)
(* before it has been called, however often a run is resumed, by approvals *)
(* of whatever gate, replayed callbacks or after restarts.  The only step  *)
(* handleCallback counts as done unseen is the wait, and the submission    *)
(* whose wait was prepared has been called, or nobody had the token.       *)
(***************************************************************************)
THEOREM StepsInOrder == SubmitsOnce /\ Spec => []NoStepSkipped
<1>1. TypeInv /\ InOrder => NoStepSkipped
  <2> SUFFICES ASSUME TypeInv, InOrder, NEW t \in Tasks, NEW i \in 1..N, NEW j \in 1..N,
                      ran[t][i] > 0, j < i, steps[j].kind \in {"tool", "agent"}, ~steps[j].cond
               PROVE  ran[t][j] > 0
    BY DEF NoStepSkipped
  <2>1. CalledTo(steps, Called(t), i - 1)
    BY DEF InOrder, TaskOrderly, CallsOrderly, Called
  <2>2. j \in DOMAIN steps /\ j <= i - 1
    BY PipelineType DEF TypeInv, EnvType
  <2> QED BY <2>1, <2>2 DEF CalledTo, Called
<1>2. Spec => []TypeInv
  BY InitType, NextType, PTL DEF Spec
<1> QED BY <1>1, <1>2, InitInOrder, NextInOrder, PTL DEF Spec
=============================================================================
