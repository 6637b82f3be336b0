----------------------------- MODULE LinearRun -----------------------------
(***************************************************************************)
(* The life of the runs of one linear pipeline: the verifier goroutine     *)
(* (verifier.go, verifier_linear.go), the HTTP handlers that decide a      *)
(* human gate or deliver a provider's callback (api_agent.go), the analyst *)
(* that closes a run (analyst.go), the bus between them (bus.go) and the   *)
(* state store they all read and write (state/manager.go).                 *)
(*                                                                         *)
(* A store operation is one step, so every handler that loads a record and *)
(* saves it later is two steps, and any other handler may run in between.  *)
(* A crash keeps the store and loses everything else.                      *)
(***************************************************************************)
EXTENDS Naturals, Sequences, FiniteSets

CONSTANTS
    Tasks,        \* task ids
    Requests,     \* HTTP requests (callbacks and human decisions), each used once
    Pipelines,    \* pipeline definitions: sequences of step records
    InboxCap,     \* capacity of an agent's inbox (16 in the code)
    MaxTime,      \* bound on the clock while no deadline is ahead
    MaxCrashes,   \* bound on crashes
    MaxVersion,   \* bound on the versions of the pipeline's definition
    ToolsFail,    \* TRUE iff a tool or an agent may fail or reject
    JournalFails, \* TRUE iff the audit journal may stop accepting events
    NoState       \* the value of a key the store does not hold

Kinds == {"tool", "agent", "internal", "gate", "await", "analyst"}

(***************************************************************************)
(* The human gates' names: strings other than the two the code reserves.   *)
(***************************************************************************)
Gates == UNION {{p[i].gate : i \in {j \in DOMAIN p : p[j].kind = "gate"}} : p \in Pipelines}

ASSUME PipelinesAssumption ==
    /\ Pipelines \subseteq Seq([kind : Kinds, gate : STRING, submits : BOOLEAN, cond : BOOLEAN,
                          timeout : Nat])
    /\ "" \notin Gates
    /\ "await_callback" \notin Gates

ASSUME BoundsAssumption ==
    /\ Tasks # {}
    /\ InboxCap \in Nat
    /\ MaxTime \in Nat
    /\ MaxCrashes \in Nat
    /\ MaxVersion \in Nat \ {0}
    /\ ToolsFail \in BOOLEAN
    /\ JournalFails \in BOOLEAN

(***************************************************************************)
(* The part of ExecutionState that decides what a run does.  "done" is     *)
(* len(CompletedSteps), "armed" is CallbackToken # "" (one token per task: *)
(* it is restored from Params on every resume), "data" is CallbackData #   *)
(* nil, "at" CallbackAt, "error" is Error # "".  A zero time is nil.       *)
(***************************************************************************)
Statuses == {"", "submitting_callback", "await_callback", "callback_received", "running",
             "error", "rejected", "timed_out", "completed"}

ExecutionState ==
    [gate : Gates \cup {"", "await_callback"}, status : Statuses, error : BOOLEAN,
     done : Nat, armed : BOOLEAN, data : BOOLEAN, at : Nat, deadline : Nat,
     version : Nat]

ASSUME NoStateAssumption == NoState \notin ExecutionState

Blank ==
    [gate |-> "", status |-> "", error |-> FALSE, done |-> 0, armed |-> FALSE,
     data |-> FALSE, at |-> 0, deadline |-> 0, version |-> 0]

VARIABLES
    steps,     \* the pipeline the tasks run; it never changes
    store,     \* state store: task id -> ExecutionState
    submitted, \* tasks the planner has dispatched
    inbox,     \* the verifier's inbox
    vpc,       \* where the verifier goroutine is
    vtask,     \* the task it works for
    vst,       \* its local copy of the task's record (st, execState)
    vidx,      \* index of executeLinear's loop
    vdl,       \* callbackDeadline of executeLinear
    varg,      \* the decision, or the kind of failure, it is handling
    analyst,   \* the analyst goroutine: [pc, task, st]
    abox,      \* the analyst's inbox
    req,       \* the HTTP requests in flight
    notices,   \* await_human messages in the API agent's inbox
    results,   \* the in-memory results of result_store.go
    reading,   \* tasks whose result a /task request has read and not yet deleted
    journal,   \* TRUE while the audit journal accepts events
    cfg,       \* version of the loaded pipeline definition, 0 when it is gone
    now,       \* clock
    crashes    \* crashes so far

(***************************************************************************)
(* History variables: what happened outside the store.                     *)
(***************************************************************************)
VARIABLES
    known,     \* tasks whose callback token a provider has received
    ran,       \* calls of each step's tool or agent (the tool's own retries are one call)
    approvals, \* gate -> approvals of that gate the API admitted
    consumed,  \* callbacks the verifier has resumed on
    blind      \* invocations made while the journal was already broken

verifierVars == <<vpc, vtask, vst, vidx, vdl, varg>>
analystVars == <<analyst, abox>>
envVars == <<steps, journal, cfg, now, crashes>>
history == <<known, ran, approvals, consumed, blind>>
vars == <<store, submitted, inbox, verifierVars, analystVars, req, notices, results, reading,
          envVars, history>>

N == Len(steps)

(***************************************************************************)
(* callbackIndex of executeLinear: the last await_callback step, 0 if none *)
(***************************************************************************)
IsLastAwait(i) ==
    /\ steps[i].kind = "await"
    /\ \A j \in DOMAIN steps : steps[j].kind = "await" => j <= i

AwaitAhead(i) == \E j \in DOMAIN steps : IsLastAwait(j) /\ j > i

(***************************************************************************)
(* callbackDeadline: the timeout_ms of the last wait that has one counts   *)
(* from the start of the resume.                                           *)
(***************************************************************************)
TimedWaits == {j \in DOMAIN steps : steps[j].kind = "await" /\ steps[j].timeout > 0}

CallbackDeadline ==
    \/ TimedWaits = {} /\ vdl' = 0
    \/ \E j \in TimedWaits : /\ \A k \in TimedWaits : k <= j
                            /\ vdl' = now + steps[j].timeout

Messages == [type : {"run_pipeline", "callback_received", "approved", "rejected"}, task : Tasks]
Outcomes == {"", "await_human", "error", "rejected", "completed"}
VerifierSteps == {"idle", "callback", "decision", "expire", "load", "loop", "invoke", "calling",
                  "fail", "failsave"}
Operations == {"callback_received", "approved", "rejected"}

TypeOK ==
    /\ steps \in Pipelines
    /\ store \in [Tasks -> ExecutionState \cup {NoState}]
    /\ submitted \subseteq Tasks
    /\ inbox \in Seq(Messages)
    /\ vpc \in VerifierSteps
    /\ vtask \in Tasks
    /\ vst \in ExecutionState \cup {NoState}
    /\ vidx \in Nat
    /\ vdl \in Nat
    /\ varg \in {"", "approved", "rejected", "error"}
    /\ analyst \in [pc : {"idle", "save"}, task : Tasks, st : ExecutionState]
    /\ abox \in Seq(Tasks)
    /\ req \in [Requests -> [pc : {"new", "read", "done"}, op : Operations, task : Tasks,
                             st : ExecutionState, at : Nat]]
    /\ notices \subseteq Tasks
    /\ results \in [Tasks -> Outcomes]
    /\ reading \subseteq Tasks
    /\ journal \in BOOLEAN
    /\ cfg \in Nat
    /\ now \in Nat
    /\ crashes \in Nat
    /\ known \subseteq Tasks
    /\ ran \in [Tasks -> [1..N -> Nat]]
    /\ approvals \in [Tasks -> [Gates \cup {"await_callback"} -> Nat]]
    /\ consumed \in [Tasks -> Nat]
    /\ blind \in Nat

Init ==
    /\ steps \in Pipelines
    /\ store = [t \in Tasks |-> NoState]
    /\ submitted = {}
    /\ inbox = <<>>
    /\ vpc = "idle" /\ vtask \in Tasks /\ vst = NoState /\ vidx = 0 /\ vdl = 0 /\ varg = ""
    /\ analyst = [pc |-> "idle", task |-> vtask, st |-> Blank]
    /\ abox = <<>>
    /\ req = [r \in Requests |-> [pc |-> "new", op |-> "approved", task |-> vtask,
                                  st |-> Blank, at |-> 0]]
    /\ notices = {}
    /\ results = [t \in Tasks |-> ""]
    /\ reading = {}
    /\ journal = TRUE
    /\ cfg = 1
    /\ now = 1
    /\ crashes = 0
    /\ known = {}
    /\ ran = [t \in Tasks |-> [i \in 1..N |-> 0]]
    /\ approvals = [t \in Tasks |-> [g \in Gates \cup {"await_callback"} |-> 0]]
    /\ consumed = [t \in Tasks |-> 0]
    /\ blind = 0
-----------------------------------------------------------------------------
(***************************************************************************)
(* Bus.Send never blocks: a message for a full inbox is dropped.           *)
(***************************************************************************)
Delivered(box, m) == IF Len(box) < InboxCap THEN Append(box, m) ELSE box

Send(type, t) == inbox' = Delivered(inbox, [type |-> type, task |-> t])

StoreResult(t, status) == results' = [results EXCEPT ![t] = status]

Save(t, st) == store' = [store EXCEPT ![t] = st]

LoadOrNew(t) == IF store[t] # NoState THEN store[t] ELSE Blank

(***************************************************************************)
(* The verifier goes back to its select loop; its locals are gone.         *)
(***************************************************************************)
Return == /\ vpc' = "idle"
          /\ vst' = NoState /\ vidx' = 0 /\ vdl' = 0 /\ varg' = ""
          /\ UNCHANGED vtask

Goto(pc, st) == vpc' = pc /\ vst' = st /\ UNCHANGED <<vtask, vidx, vdl, varg>>

Advance == vpc' = "loop" /\ vidx' = vidx + 1 /\ UNCHANGED <<vtask, vst, vdl, varg>>

(***************************************************************************)
(* storeError deletes the record; failAuditExecution saves the caller's    *)
(* copy of it as an error.  Both end the handler.                          *)
(***************************************************************************)
storeError(t) == Save(t, NoState) /\ StoreResult(t, "error") /\ Return

Failed(st) == [st EXCEPT !.status = "error", !.error = TRUE, !.gate = "",
                         !.armed = FALSE, !.deadline = 0]

failAuditExecution(t, st) == Save(t, Failed(st)) /\ StoreResult(t, "error") /\ Return

(***************************************************************************)
(* The planner saves the record of an admitted task (handleDetectIntent)   *)
(* and sends run_pipeline.                                                 *)
(***************************************************************************)
DispatchPipeline(t) ==
    /\ t \notin submitted
    /\ submitted' = submitted \cup {t}
    /\ Save(t, Blank)
    /\ Send("run_pipeline", t)
    /\ UNCHANGED <<verifierVars, analystVars, req, notices, results, reading, envVars, history>>

-----------------------------------------------------------------------------
(***************************************************************************)
(* The verifier's handlers.  Receive(type) takes the head of the inbox.    *)
(***************************************************************************)
Receive(type) ==
    /\ vpc = "idle"
    /\ inbox # <<>>
    /\ Head(inbox).type = type
    /\ inbox' = Tail(inbox)

(***************************************************************************)
(* handleRunPipeline records the manifest before the first step.           *)
(***************************************************************************)
handleRunPipeline ==
    /\ Receive("run_pipeline")
    /\ LET t  == Head(inbox).task
           st == [LoadOrNew(t) EXCEPT !.version = cfg]
       IN \/ /\ cfg # 0 /\ journal
             /\ Save(t, st)
             /\ vtask' = t /\ vpc' = "load"
             /\ UNCHANGED <<vst, vidx, vdl, varg, results>>
          \/ /\ cfg # 0 /\ ~journal
             /\ failAuditExecution(t, st)
          \/ /\ cfg = 0                 \* never dispatched without a definition
             /\ Return /\ UNCHANGED <<store, results>>
    /\ UNCHANGED <<submitted, analystVars, req, notices, reading, envVars, history>>

(***************************************************************************)
(* Mutant of resumeFromState: the manifest is not compared.                *)
(***************************************************************************)
resumeAnyVersion(t, st) ==
    \/ cfg = 0 /\ storeError(t)
    \/ cfg # 0 /\ Save(t, st) /\ Goto("load", NoState) /\ UNCHANGED results

(***************************************************************************)
(* resumeFromState refuses a run whose pipeline is gone or has changed     *)
(* since its manifest, and otherwise runs the pipeline's executor.         *)
(***************************************************************************)
resumeFromState(t, st) ==
    \/ cfg = 0 /\ storeError(t)
    \/ cfg # 0 /\ st.version # cfg /\ failAuditExecution(t, st)
    \/ /\ cfg # 0 /\ st.version = cfg
       /\ Save(t, st)
       /\ Goto("load", NoState)
       /\ UNCHANGED results

handleHumanDecision(decision) ==
    /\ Receive(decision)
    /\ LET t == Head(inbox).task
       IN \/ /\ store[t] = NoState
             /\ storeError(t)
          \/ /\ store[t] # NoState
             /\ vtask' = t /\ vst' = store[t] /\ varg' = decision /\ vpc' = "decision"
             /\ UNCHANGED <<vidx, vdl, store, results>>
    /\ UNCHANGED <<submitted, analystVars, req, notices, reading, envVars, history>>

Rejected(st) == [st EXCEPT !.status = "rejected", !.gate = "", !.armed = FALSE]

(***************************************************************************)
(* Neither the message's gate nor the record's Gate and Status is compared *)
(* with anything: the decision is for whatever the task now waits for.     *)
(***************************************************************************)
SaveDecision ==
    /\ vpc = "decision"
    /\ \/ varg = "approved" /\ resumeFromState(vtask, vst)
       \/ /\ varg = "rejected"
          /\ Save(vtask, Rejected(vst))
          /\ StoreResult(vtask, "rejected")
          /\ Return
    /\ UNCHANGED <<submitted, inbox, analystVars, req, notices, reading, envVars, history>>

InTime(st) == st.data /\ st.at # 0 /\ st.at <= st.deadline

(***************************************************************************)
(* The record handleCallback resumes on.                                   *)
(***************************************************************************)
Resumable(st) ==
    /\ st # NoState
    /\ st.armed
    /\ st.gate = "await_callback"
    /\ st.deadline # 0 /\ st.deadline <= now => InTime(st)

MatchCallback(t) ==
    /\ vtask' = t /\ vst' = store[t] /\ vpc' = "callback"
    /\ UNCHANGED <<vidx, vdl, varg>>

handleCallback ==
    /\ Receive("callback_received")
    /\ LET t == Head(inbox).task
       IN \/ Resumable(store[t]) /\ MatchCallback(t)
          \/ ~Resumable(store[t]) /\ UNCHANGED verifierVars
    /\ UNCHANGED <<store, submitted, analystVars, req, notices, results, reading, envVars, history>>

(***************************************************************************)
(* Mutant of recoverPendingCallbacks: a wait without deadline is missed.   *)
(***************************************************************************)
recoverWithDeadline(t) ==
    /\ vpc = "idle"
    /\ store[t] # NoState
    /\ store[t].deadline # 0
    /\ InTime(store[t])
    /\ Resumable(store[t])
    /\ MatchCallback(t)
    /\ UNCHANGED <<store, submitted, inbox, analystVars, req, notices, results, reading, envVars,
                   history>>

(***************************************************************************)
(* recoverPendingCallbacks, on the 5 s ticker.                             *)
(***************************************************************************)
recoverPendingCallbacks(t) ==
    /\ vpc = "idle"
    /\ store[t] # NoState
    /\ store[t].data
    /\ store[t].deadline # 0 => InTime(store[t])
    /\ Resumable(store[t])
    /\ MatchCallback(t)
    /\ UNCHANGED <<store, submitted, inbox, analystVars, req, notices, results, reading, envVars,
                   history>>

(***************************************************************************)
(* The record after its callback: the wait is over, its step is done.      *)
(***************************************************************************)
Resumed(st) ==
    [st EXCEPT !.done = @ + 1, !.gate = "", !.armed = FALSE, !.data = FALSE, !.at = 0,
               !.deadline = 0, !.status = "running"]

SaveCallback ==
    /\ vpc = "callback"
    /\ \/ journal /\ resumeFromState(vtask, Resumed(vst))
       \/ /\ ~journal
          /\ Save(vtask, [Resumed(vst) EXCEPT !.status = "error", !.error = TRUE])
          /\ StoreResult(vtask, "error")
          /\ Return
    /\ consumed' = [consumed EXCEPT ![vtask] = @ + 1]
    /\ UNCHANGED <<submitted, inbox, analystVars, req, notices, reading, envVars, known, ran,
                   approvals, blind>>

(***************************************************************************)
(* Mutant of Overdue: a late callback keeps the wait open.                 *)
(***************************************************************************)
OverdueWithoutData(st) ==
    /\ st # NoState
    /\ st.gate = "await_callback"
    /\ st.deadline # 0 /\ st.deadline <= now
    /\ ~st.data

Overdue(st) ==
    /\ st # NoState
    /\ st.gate = "await_callback"
    /\ st.deadline # 0 /\ st.deadline <= now
    /\ ~InTime(st)

(***************************************************************************)
(* expireAwaitingCallbacks: the scan, and the save that ends the wait.     *)
(***************************************************************************)
expireAwaitingCallbacks(t) ==
    /\ vpc = "idle"
    /\ Overdue(store[t])
    /\ vtask' = t /\ vst' = store[t] /\ vpc' = "expire"
    /\ UNCHANGED <<vidx, vdl, varg, store, submitted, inbox, analystVars, req, notices, results,
                   reading, envVars, history>>

Expired(st) ==
    [st EXCEPT !.gate = "", !.armed = FALSE, !.error = TRUE, !.deadline = 0,
               !.status = IF journal THEN "timed_out" ELSE "error"]

SaveExpired ==
    /\ vpc = "expire"
    /\ Save(vtask, Expired(vst))
    /\ StoreResult(vtask, "error")
    /\ Return
    /\ UNCHANGED <<submitted, inbox, analystVars, req, notices, reading, envVars, history>>

-----------------------------------------------------------------------------
(***************************************************************************)
(* Mutant of LoadState: the loop starts one step late.                     *)
(***************************************************************************)
LoadStateLate ==
    /\ vpc = "load"
    /\ store[vtask] # NoState
    /\ vpc' = "loop"
    /\ vst' = store[vtask]
    /\ vidx' = store[vtask].done + 2
    /\ CallbackDeadline
    /\ UNCHANGED <<vtask, varg, store, submitted, inbox, analystVars, req, notices, results,
                   reading, envVars, history>>

(***************************************************************************)
(* executeLinear.                                                          *)
(***************************************************************************)
LoadState ==
    /\ vpc = "load"
    /\ store[vtask] # NoState
    /\ vpc' = "loop"
    /\ vst' = store[vtask]
    /\ vidx' = store[vtask].done + 1
    /\ CallbackDeadline
    /\ UNCHANGED <<vtask, varg, store, submitted, inbox, analystVars, req, notices, results,
                   reading, envVars, history>>

AtStep(kinds) == vpc = "loop" /\ vidx \in DOMAIN steps /\ steps[vidx].kind \in kinds

runUnchanged == <<submitted, inbox, req, reading, envVars, history>>

(***************************************************************************)
(* A step whose condition is false: a gate is passed over, any other       *)
(* decision is audited.                                                    *)
(***************************************************************************)
SkipStep ==
    /\ AtStep(Kinds) /\ steps[vidx].cond
    /\ \/ /\ journal \/ steps[vidx].kind = "gate"
          /\ Advance
          /\ UNCHANGED <<store, results>>
       \/ /\ ~journal /\ steps[vidx].kind # "gate"
          /\ failAuditExecution(vtask, vst)
    /\ UNCHANGED <<analystVars, notices, runUnchanged>>

(***************************************************************************)
(* The analyst step, or the end of the steps.                              *)
(***************************************************************************)
SendToAnalyst ==
    /\ \/ AtStep({"analyst"})
       \/ vpc = "loop" /\ vidx > N
    /\ abox' = Delivered(abox, vtask)
    /\ Return
    /\ UNCHANGED <<store, analyst, notices, results, runUnchanged>>

(***************************************************************************)
(* Mutants of PassGate: no gate pauses; one approval opens every gate.     *)
(***************************************************************************)
PassEveryGate ==
    /\ AtStep({"gate"})
    /\ Advance
    /\ UNCHANGED <<store, results, analystVars, notices, runUnchanged>>

PassOnceApproved ==
    /\ AtStep({"gate"})
    /\ vst.gate # ""
    /\ Advance
    /\ UNCHANGED <<store, results, analystVars, notices, runUnchanged>>

PassGate ==
    /\ AtStep({"gate"})
    /\ vst.gate = steps[vidx].gate
    /\ Advance
    /\ UNCHANGED <<store, results, analystVars, notices, runUnchanged>>

(***************************************************************************)
(* Mutant of Paused: off by one.                                           *)
(***************************************************************************)
PausedEarly(gate) == [Blank EXCEPT !.done = vidx - 2, !.gate = gate, !.version = vst.version]

(***************************************************************************)
(* A fresh record for the pause: only the fields named here survive.       *)
(***************************************************************************)
Paused(gate) == [Blank EXCEPT !.done = vidx - 1, !.gate = gate, !.version = vst.version]

PauseAtGate ==
    /\ AtStep({"gate"})
    /\ vst.gate # steps[vidx].gate
    /\ \/ /\ journal
          /\ Save(vtask, Paused(steps[vidx].gate))
          /\ notices' = notices \cup {vtask}
          /\ Return
          /\ UNCHANGED results
       \/ /\ ~journal
          /\ failAuditExecution(vtask, Paused(steps[vidx].gate))
          /\ UNCHANGED notices
    /\ UNCHANGED <<analystVars, runUnchanged>>

Awaiting ==
    [Paused("await_callback") EXCEPT !.armed = TRUE, !.status = "await_callback", !.deadline = vdl]

AwaitCallback ==
    /\ AtStep({"await"})
    /\ \/ journal /\ Save(vtask, Awaiting) /\ Return /\ UNCHANGED results
       \/ ~journal /\ failAuditExecution(vtask, Awaiting)
    /\ UNCHANGED <<analystVars, notices, runUnchanged>>

(***************************************************************************)
(* system.save_preference, system.recall: no effect outside AOS.           *)
(***************************************************************************)
InternalTool ==
    /\ AtStep({"internal"})
    /\ \/ journal /\ Advance /\ UNCHANGED <<store, results>>
       \/ ~journal /\ failAuditExecution(vtask, vst)
    /\ UNCHANGED <<analystVars, notices, runUnchanged>>

(***************************************************************************)
(* The wait is saved before a tool that is given the callback's token.     *)
(***************************************************************************)
Prepared ==
    [Blank EXCEPT !.done = vidx, !.gate = "await_callback", !.armed = TRUE,
                  !.deadline = vdl, !.status = "submitting_callback", !.version = vst.version]

(***************************************************************************)
(* Mutant of StartTool: tool.started is not required to be logged.         *)
(***************************************************************************)
StartToolUnlogged ==
    /\ AtStep({"tool", "agent"})
    /\ IF steps[vidx].kind = "tool" /\ steps[vidx].submits /\ AwaitAhead(vidx)
       THEN Save(vtask, Prepared) /\ Goto("invoke", Prepared)
       ELSE Goto("invoke", vst) /\ UNCHANGED store
    /\ UNCHANGED <<results, analystVars, notices, runUnchanged>>

StartTool ==
    /\ AtStep({"tool", "agent"})
    /\ \/ /\ journal
          /\ IF steps[vidx].kind = "tool" /\ steps[vidx].submits /\ AwaitAhead(vidx)
             THEN Save(vtask, Prepared) /\ Goto("invoke", Prepared)
             ELSE Goto("invoke", vst) /\ UNCHANGED store
          /\ UNCHANGED results
       \/ ~journal /\ failAuditExecution(vtask, vst)
    /\ UNCHANGED <<analystVars, notices, runUnchanged>>

(***************************************************************************)
(* The call reaches the tool, the remote agent or the provider.            *)
(***************************************************************************)
Invoke ==
    /\ vpc = "invoke"
    /\ Goto("calling", vst)
    /\ ran' = [ran EXCEPT ![vtask][vidx] = @ + 1]
    /\ known' = IF steps[vidx].submits THEN known \cup {vtask} ELSE known
    /\ blind' = IF journal THEN blind ELSE blind + 1
    /\ UNCHANGED <<store, submitted, inbox, analystVars, req, notices, results, reading, envVars,
                   approvals, consumed>>

ToolSucceeds ==
    /\ vpc = "calling"
    /\ \/ journal /\ Advance /\ UNCHANGED <<store, results>>
       \/ ~journal /\ failAuditExecution(vtask, vst)
    /\ UNCHANGED <<analystVars, notices, runUnchanged>>

(***************************************************************************)
(* A failed agent step leaves the record alone.                            *)
(***************************************************************************)
AgentFails ==
    /\ vpc = "calling" /\ ToolsFail
    /\ steps[vidx].kind = "agent"
    /\ \/ journal /\ StoreResult(vtask, "error") /\ Return /\ UNCHANGED store
       \/ ~journal /\ failAuditExecution(vtask, vst)
    /\ UNCHANGED <<analystVars, notices, runUnchanged>>

(***************************************************************************)
(* Mutant of ToolFails: the step is called again without limit.            *)
(***************************************************************************)
ToolRetries ==
    /\ vpc = "calling" /\ ToolsFail
    /\ steps[vidx].kind = "tool"
    /\ Goto("invoke", vst)
    /\ UNCHANGED <<store, results, analystVars, notices, runUnchanged>>

(***************************************************************************)
(* A failed tool: clearPreparedCallbackWait saves the verifier's own copy, *)
(* then failTool loads the record and saves its outcome in it.             *)
(***************************************************************************)
ToolFails ==
    /\ vpc = "calling" /\ ToolsFail
    /\ steps[vidx].kind = "tool"
    /\ varg' \in {"error", "rejected"}
    /\ vpc' = "fail"
    /\ IF vst.gate = "await_callback" /\ vst.armed
       THEN vst' = Failed(vst) /\ Save(vtask, Failed(vst))
       ELSE UNCHANGED <<vst, store>>
    /\ UNCHANGED <<vtask, vidx, vdl, results, analystVars, notices, runUnchanged>>

LoadFailed ==
    /\ vpc = "fail"
    /\ Goto("failsave", IF store[vtask] # NoState THEN store[vtask] ELSE vst)
    /\ UNCHANGED <<store, results, analystVars, notices, runUnchanged>>

Ended(st, outcome) == [st EXCEPT !.status = outcome, !.error = (outcome = "error")]

SaveFailed ==
    /\ vpc = "failsave"
    /\ Save(vtask, Ended(vst, varg))
    /\ StoreResult(vtask, varg)
    /\ Return
    /\ UNCHANGED <<analystVars, notices, runUnchanged>>
-----------------------------------------------------------------------------
(***************************************************************************)
(* The analyst: persistCompletion loads the record, then saves it as       *)
(* completed with every step up to the analyst's own (snapshotSteps).      *)
(***************************************************************************)
CompletedSteps ==
    Cardinality({i \in DOMAIN steps : \A j \in 1..i : steps[j].kind # "analyst"})

LoadCompletion ==
    /\ analyst.pc = "idle"
    /\ abox # <<>>
    /\ abox' = Tail(abox)
    /\ LET t == Head(abox)
       IN analyst' = [pc |-> "save", task |-> t,
                      st |-> LoadOrNew(t)]
    /\ UNCHANGED <<store, verifierVars, notices, results, runUnchanged>>

Completed(st) ==
    [st EXCEPT !.status = "completed", !.error = FALSE, !.gate = "", !.armed = FALSE,
               !.deadline = 0, !.done = IF st.version # 0 THEN CompletedSteps ELSE @]

SaveCompletion ==
    /\ analyst.pc = "save"
    /\ Save(analyst.task, Completed(analyst.st))
    /\ StoreResult(analyst.task, "completed")
    /\ analyst' = [analyst EXCEPT !.pc = "idle", !.st = Blank]
    /\ UNCHANGED <<verifierVars, abox, notices, runUnchanged>>

-----------------------------------------------------------------------------
(***************************************************************************)
(* HTTP handlers.  A request reads the record, is admitted or refused on   *)
(* what it read, and acts later.                                           *)
(***************************************************************************)
apiUnchanged == <<submitted, verifierVars, analystVars, notices, results, reading, envVars>>

Read(r, op, t) ==
    /\ req[r].pc = "new"
    /\ store[t] # NoState
    /\ req' = [req EXCEPT ![r] = [pc |-> "read", op |-> op, task |-> t,
                                  st |-> store[t], at |-> now]]

Done(r) == req' = [req EXCEPT ![r].pc = "done", ![r].st = Blank, ![r].at = 0]

(***************************************************************************)
(* handleCallback of the API: a POST with the task's token, correctly      *)
(* signed.  A token that matches no open wait is answered 404.             *)
(***************************************************************************)
ReadCallback(r, t) ==
    /\ t \in known
    /\ Read(r, "callback_received", t)
    /\ store[t].armed
    /\ store[t].gate = "await_callback"
    /\ store[t].deadline # 0 => store[t].deadline > now
    /\ UNCHANGED <<store, inbox, apiUnchanged, history>>

Accepted(st, receivedAt) ==
    [st EXCEPT !.data = TRUE, !.at = receivedAt, !.status = "callback_received"]

AcceptCallback(r) ==
    /\ req[r].pc = "read" /\ req[r].op = "callback_received"
    /\ \/ /\ ~req[r].st.data
          /\ \E receivedAt \in req[r].at..now :
                Save(req[r].task, Accepted(req[r].st, receivedAt))
       \/ req[r].st.data /\ UNCHANGED store
    /\ Send("callback_received", req[r].task)
    /\ Done(r)
    /\ UNCHANGED <<apiUnchanged, history>>

(***************************************************************************)
(* Mutant of ReadDecision: the record need not wait at a gate.             *)
(***************************************************************************)
ReadAnyDecision(r, t, decision) ==
    /\ Read(r, decision, t)
    /\ UNCHANGED <<store, inbox, apiUnchanged, history>>

(***************************************************************************)
(* handleHumanDecision of the API: the gate named in the request must be   *)
(* the record's Gate.  Any gate but "clarification" can be named.          *)
(***************************************************************************)
ReadDecision(r, t, decision) ==
    /\ Read(r, decision, t)
    /\ store[t].gate # ""
    /\ approvals' = IF decision = "approved"
                    THEN [approvals EXCEPT ![t][store[t].gate] = @ + 1]
                    ELSE approvals
    /\ UNCHANGED <<store, inbox, apiUnchanged, known, ran, consumed, blind>>

SendDecision(r) ==
    /\ req[r].pc = "read" /\ req[r].op # "callback_received"
    /\ Send(req[r].op, req[r].task)
    /\ Done(r)
    /\ UNCHANGED <<store, apiUnchanged, history>>

(***************************************************************************)
(* The API agent's own message, and /task, which reads a result and        *)
(* deletes it in two steps.                                                *)
(***************************************************************************)
AwaitHuman(t) ==
    /\ t \in notices
    /\ notices' = notices \ {t}
    /\ StoreResult(t, "await_human")
    /\ UNCHANGED <<store, submitted, inbox, verifierVars, analystVars, req, reading, envVars,
                   history>>

GetResult(t) ==
    /\ results[t] # ""
    /\ t \notin reading
    /\ reading' = reading \cup {t}
    /\ UNCHANGED <<store, submitted, inbox, verifierVars, analystVars, req, notices, results,
                   envVars, history>>

DeleteResult(t) ==
    /\ t \in reading
    /\ reading' = reading \ {t}
    /\ StoreResult(t, "")
    /\ UNCHANGED <<store, submitted, inbox, verifierVars, analystVars, req, notices, envVars,
                   history>>

-----------------------------------------------------------------------------
(***************************************************************************)
(* The environment.                                                        *)
(***************************************************************************)
BreakJournal ==
    /\ JournalFails /\ journal
    /\ journal' = FALSE
    /\ UNCHANGED <<steps, store, submitted, inbox, verifierVars, analystVars, req, notices, results,
                   reading, cfg, now, crashes, history>>

(***************************************************************************)
(* The clock stops at MaxTime unless a stored deadline has not passed yet. *)
(***************************************************************************)
Tick ==
    /\ \/ now < MaxTime
       \/ \E t \in Tasks : store[t] # NoState /\ store[t].deadline >= now
    /\ now' = now + 1
    /\ UNCHANGED <<store, submitted, inbox, verifierVars, analystVars, req, notices, results,
                   reading, steps, journal, cfg, crashes, history>>

(***************************************************************************)
(* A crash and the restart after it, with the definitions then on disk.    *)
(***************************************************************************)
Crash ==
    /\ crashes < MaxCrashes
    /\ crashes' = crashes + 1
    /\ cfg' \in IF MaxVersion = 1 THEN {cfg} ELSE 0..MaxVersion
    /\ journal' = TRUE
    /\ inbox' = <<>>
    /\ Return
    /\ analyst' = [analyst EXCEPT !.pc = "idle", !.st = Blank]
    /\ abox' = <<>>
    /\ req' = [r \in Requests |-> IF req[r].pc = "new" THEN req[r]
                                  ELSE [req[r] EXCEPT !.pc = "done", !.st = Blank, !.at = 0]]
    /\ notices' = {}
    /\ results' = [t \in Tasks |-> ""]
    /\ reading' = {}
    /\ UNCHANGED <<steps, store, submitted, now, history>>

-----------------------------------------------------------------------------
executeLinear ==
    \/ LoadState \/ SkipStep \/ SendToAnalyst \/ PassGate \/ PauseAtGate \/ AwaitCallback
    \/ InternalTool \/ StartTool \/ Invoke \/ ToolSucceeds \/ AgentFails
    \/ ToolFails \/ LoadFailed \/ SaveFailed

Verifier ==
    \/ handleRunPipeline
    \/ handleHumanDecision("approved") \/ handleHumanDecision("rejected") \/ SaveDecision
    \/ handleCallback \/ SaveCallback
    \/ SaveExpired
    \/ executeLinear

Ticker(t) == recoverPendingCallbacks(t) \/ expireAwaitingCallbacks(t)

Analyst == LoadCompletion \/ SaveCompletion

Api(r) ==
    \/ \E t \in Tasks : ReadCallback(r, t) \/ ReadDecision(r, t, "approved")
                                           \/ ReadDecision(r, t, "rejected")
    \/ AcceptCallback(r) \/ SendDecision(r)

Poll(t) == AwaitHuman(t) \/ GetResult(t) \/ DeleteResult(t)

Next ==
    \/ \E t \in Tasks : DispatchPipeline(t) \/ Ticker(t) \/ Poll(t)
    \/ Verifier
    \/ Analyst
    \/ \E r \in Requests : Api(r)
    \/ BreakJournal \/ Tick \/ Crash

Spec == Init /\ [][Next]_vars

(***************************************************************************)
(* The goroutines keep running and the clock keeps ticking.  Nobody has to *)
(* submit a task, answer a callback or decide a gate.                      *)
(***************************************************************************)
Fairness ==
    /\ WF_vars(Verifier)
    /\ \A t \in Tasks : WF_vars(Ticker(t)) /\ WF_vars(AwaitHuman(t))
    /\ WF_vars(Analyst)
    /\ \A r \in Requests : WF_vars(AcceptCallback(r)) /\ WF_vars(SendDecision(r))
    /\ WF_vars(Tick)

FairSpec == Spec /\ Fairness
-----------------------------------------------------------------------------
UnconditionalGates(i) == {j \in DOMAIN steps : j < i /\ steps[j].kind = "gate" /\ ~steps[j].cond}

Admitted(t, op) == {r \in Requests : req[r].task = t /\ req[r].op = op /\ req[r].pc # "new"}

(***************************************************************************)
(* No tool or agent behind an unconditional human gate (executeLinear's    *)
(* pause) is ever called for a task nobody has approved, whatever is lost, *)
(* repeated or overwritten on the way.                                     *)
(***************************************************************************)
ApprovedBeforeActing ==
    \A t \in Tasks : \A i \in 1..N :
        ran[t][i] > 0 /\ UnconditionalGates(i) # {}
            => \E g \in Gates \cup {"await_callback"} : approvals[t][g] > 0

(***************************************************************************)
(* Passing k gates takes k admitted approvals: handleHumanDecision         *)
(* resumes past one gate per message, and executeLinear stops at the next. *)
(***************************************************************************)
OneApprovalPerGate ==
    \A t \in Tasks : \A i \in 1..N :
        ran[t][i] > 0
            => Cardinality(UnconditionalGates(i)) <= Cardinality(Admitted(t, "approved"))

(***************************************************************************)
(* Every gate that was passed was itself approved (api_agent.go admits a   *)
(* decision only for the gate the task waits at).                          *)
(***************************************************************************)
EachGateApproved ==
    \A t \in Tasks : \A i \in 1..N :
        ran[t][i] > 0 => \A j \in UnconditionalGates(i) : approvals[t][steps[j].gate] > 0

(***************************************************************************)
(* A step is called again only because of an admitted decision or a        *)
(* consumed callback: a crash, the ticker or a stale message alone repeats *)
(* no side effect.                                                         *)
(***************************************************************************)
RepeatsArePaidFor ==
    \A t \in Tasks : \A i \in 1..N :
        ran[t][i] <= 1 + Cardinality(Admitted(t, "approved")) + consumed[t]

(***************************************************************************)
(* "If an enabled journal cannot append an event, AOS stops before         *)
(* invoking the next tool": at most the one call already logged goes out   *)
(* per process.                                                            *)
(***************************************************************************)
JournalBeforeTool == blind <= 1 + crashes

(***************************************************************************)
(* ensurePipelineManifest: the definition whose steps run is the one the   *)
(* run's manifest recorded, across restarts and changed definitions.       *)
(***************************************************************************)
PinnedVersion ==
    vpc \in {"loop", "invoke", "calling"} => vst.version = cfg /\ cfg # 0

(***************************************************************************)
(* Nothing under way can still change the task's record.                   *)
(***************************************************************************)
Quiet(t) ==
    /\ vpc # "idle" => vtask # t
    /\ \A k \in DOMAIN inbox : inbox[k].task # t
    /\ analyst.pc # "idle" => analyst.task # t
    /\ \A k \in DOMAIN abox : abox[k] # t
    /\ \A r \in Requests : req[r].pc = "read" => req[r].task # t

Settled(t) ==
    /\ t \in submitted
    /\ store[t] # NoState
    /\ store[t].status \in {"rejected", "timed_out", "completed"}
    /\ store[t].gate = ""
    /\ Quiet(t)

(***************************************************************************)
(* A rejected, timed-out or completed run whose gate is closed stays so:   *)
(* no request admitted after that, no ticker and no restart opens it again.*)
(***************************************************************************)
SettledIsFinal ==
    [][\A t \in Tasks : Settled(t) => Settled(t)' /\ store'[t] = store[t]]_vars

(***************************************************************************)
(* A linear pipeline runs in order: a tool is called only when every       *)
(* unconditional tool before it has been.                                  *)
(***************************************************************************)
NoStepSkipped ==
    \A t \in Tasks : \A i, j \in 1..N :
        /\ ran[t][i] > 0 /\ j < i
        /\ steps[j].kind \in {"tool", "agent"} /\ ~steps[j].cond
        => ran[t][j] > 0

(***************************************************************************)
(* "TestCallbackTokenCanResumeOnlyOnce" (callback_lifecycle_test.go): a    *)
(* run resumes no more often than callbacks were admitted for it           *)
(* (handleCallback, recoverPendingCallbacks).                              *)
(***************************************************************************)
OneResumePerCallback ==
    \A t \in Tasks : consumed[t] <= Cardinality(Admitted(t, "callback_received"))

Waiting(t) == store[t] # NoState /\ store[t].gate = "await_callback"

(***************************************************************************)
(* A persisted callback does not sit in the store for ever, though its     *)
(* message is dropped or AOS restarts: recoverPendingCallbacks finds it.   *)
(***************************************************************************)
CallbackReplayed == \A t \in Tasks : []<>~(Waiting(t) /\ store[t].data)

(***************************************************************************)
(* "A callback is persisted before AOS returns acceptance ... and replayed *)
(* from state after restart": while the wait is open it is not erased.     *)
(***************************************************************************)
AcceptedIsKept ==
    [][\A t \in Tasks : Waiting(t) /\ store[t].data => (Waiting(t)' => store'[t].data)]_vars

(***************************************************************************)
(* A wait with a deadline ends, callback or not: expireAwaitingCallbacks.  *)
(***************************************************************************)
WaitEnds ==
    \A t \in Tasks : Waiting(t) /\ store[t].deadline # 0 ~> ~Waiting(t)
=============================================================================
