------------------------------- MODULE DagRun -------------------------------
(***************************************************************************)
(* A run of a DAG pipeline: executeDAG (verifier_dag.go) starts a          *)
(* goroutine per step; a step waits for the channels of the steps it       *)
(* depends on, and they share one mutex, one record (execState) and the    *)
(* state store.  A human gate saves what has succeeded so far and the run  *)
(* returns; an approval starts every goroutine again from that record.     *)
(*                                                                         *)
(* One task: tasks share the verifier, which runs one handler at a time    *)
(* (see LinearRun for several kinds of message and for in-memory results). *)
(* The loader's check of dangerous steps (config/safety.go) decides which  *)
(* pipelines there are.                                                    *)
(***************************************************************************)
EXTENDS Naturals, Sequences, FiniteSets

CONSTANTS
    Pipelines,    \* definitions on disk: sequences of step records
    Requests,     \* human decisions over HTTP, each used once
    InboxCap,     \* capacity of an agent's inbox (16 in the code)
    MaxCrashes,   \* bound on crashes
    ToolsFail,    \* TRUE iff a tool or an agent may fail or reject
    JournalFails, \* TRUE iff the audit journal may stop accepting events
    NoState,      \* the value of a key the store does not hold
    Nobody        \* the holder of a free mutex

Kinds == {"tool", "agent", "internal", "gate", "analyst"}

Step == [id : STRING, kind : Kinds, gate : STRING, deps : Seq(STRING), cond : BOOLEAN,
         dangerous : BOOLEAN]

(***************************************************************************)
(* Every step has an id, as in the shipped definitions: a gate without one *)
(* is "step_<i>" to the loader and "" to executeDAG.  An id may be given   *)
(* twice, which the loader does not refuse: the later step replaces the    *)
(* earlier one, in the loader and in executeDAG.                           *)
(***************************************************************************)
ASSUME PipelinesAssumption ==
    /\ Pipelines \subseteq Seq(Step)
    /\ \A p \in Pipelines : \A i \in DOMAIN p :
          p[i].id # "" /\ (p[i].kind = "gate" <=> p[i].gate # "")

ASSUME BoundsAssumption ==
    /\ InboxCap \in Nat
    /\ MaxCrashes \in Nat
    /\ ToolsFail \in BOOLEAN
    /\ JournalFails \in BOOLEAN

Ids(p) == {p[i].id : i \in DOMAIN p}

StepOf(p, n) == p[CHOOSE i \in DOMAIN p : p[i].id = n /\ \A j \in DOMAIN p : p[j].id = n => j <= i]

Elements(s) == {s[i] : i \in DOMAIN s}

(***************************************************************************)
(* Names that are no step's are ignored, by the loader and by executeDAG.  *)
(***************************************************************************)
DependsOn(p, step) == Elements(step.deps) \cap Ids(p)

(***************************************************************************)
(* The steps a step depends on, directly or not: what approvedBefore       *)
(* explores, the least set that is closed under depends_on.                *)
(***************************************************************************)
Ancestors(p, step) ==
    LET Explored(c) ==
            /\ DependsOn(p, step) \subseteq c
            /\ \A a \in c : DependsOn(p, StepOf(p, a)) \subseteq c
    IN {a \in Ids(p) : \A c \in SUBSET Ids(p) : Explored(c) => a \in c}

approvedBefore(p, i) == \E a \in Ancestors(p, p[i]) : StepOf(p, a).kind = "gate"

(***************************************************************************)
(* Mutant of validatePipelineSafety: an approval anywhere before the step  *)
(* in the list will do, as for a linear pipeline.                          *)
(***************************************************************************)
validateAsLinear(p) ==
    \A i \in DOMAIN p :
        p[i].dangerous => \E j \in 1..(i - 1) : p[j].kind = "gate"

(***************************************************************************)
(* The loader refuses a pipeline with a dangerous tool that no approval    *)
(* precedes.  (no_approval_reason waives it; no such step is dangerous.)   *)
(***************************************************************************)
validatePipelineSafety(p) ==
    \A i \in DOMAIN p : p[i].dangerous => approvedBefore(p, i)

Loadable == {p \in Pipelines : validatePipelineSafety(p)}
Gone == <<>>   \* the pipeline is not among the definitions AOS started with

Names == UNION {Ids(p) : p \in Pipelines}
Gates == UNION {{p[i].gate : i \in {j \in DOMAIN p : p[j].kind = "gate"}} : p \in Pipelines}

(***************************************************************************)
(* The part of ExecutionState a DAG run depends on: "done" are the ids in  *)
(* CompletedSteps, "repeated" those it lists more than once; the           *)
(* definition itself stands for its PipelineVersion.                       *)
(***************************************************************************)
ExecutionState ==
    [gate : Gates \cup {""}, status : {"", "error", "rejected", "completed"},
     done : SUBSET Names, repeated : SUBSET Names, version : Loadable \cup {Gone}]

Blank == [gate |-> "", status |-> "", done |-> {}, repeated |-> {}, version |-> Gone]

ASSUME ValuesAssumption == NoState \notin ExecutionState /\ Nobody \notin Names

VARIABLES
    steps,     \* the pipeline as AOS loaded it
    store,     \* the task's record in the state store
    submitted, \* TRUE once the planner has dispatched the task
    inbox,     \* the verifier's inbox
    vpc,       \* where the verifier goroutine is
    vst,       \* its copy of the record while it handles a decision
    exec,      \* execState, the record the goroutines of executeDAG share
    node,      \* each step's goroutine: where it is, and Status of its dagNode
    closed,    \* how often each node's DoneCh has been closed
    mu,        \* the goroutine that holds the mutex across a store operation
    fst,       \* the record failTool has loaded
    analyst,   \* the analyst goroutine: [pc, st]
    abox,      \* summarize messages in the analyst's inbox
    req,       \* the HTTP requests
    journal,   \* TRUE while the audit journal accepts events
    crashes    \* crashes so far

(***************************************************************************)
(* History: steps whose tool or agent was called, steps that succeeded.    *)
(***************************************************************************)
VARIABLES called, succeeded

dagVars == <<exec, node, closed, mu, fst>>
analystVars == <<analyst, abox>>
envVars == <<steps, journal, crashes>>
history == <<called, succeeded>>
vars == <<store, submitted, inbox, vpc, vst, dagVars, analystVars, req, envVars, history>>

Statuses == {"pending", "running", "success", "failed", "skipped", "paused", "cascaded_skip",
             "cascaded_pause"}
Places == {"wait", "ready", "calling", "unlogged", "failload", "failsave", "done"}
Operations == {"approved", "rejected"}

TypeOK ==
    /\ steps \in Loadable \cup {Gone}
    /\ store \in ExecutionState \cup {NoState}
    /\ submitted \in BOOLEAN
    /\ inbox \in Seq({"run_pipeline"} \cup Operations)
    /\ vpc \in {"idle", "approved", "rejected", "load", "dag"}
    /\ vst \in ExecutionState \cup {NoState}
    /\ exec \in ExecutionState \cup {NoState}
    /\ node \in [Names -> [pc : Places, status : Statuses]]
    /\ closed \in [Names -> Nat]
    /\ mu \in Names \cup {Nobody}
    /\ fst \in ExecutionState \cup {NoState}
    /\ analyst \in [pc : {"idle", "save"}, st : ExecutionState]
    /\ abox \in Nat
    /\ req \in [Requests -> [pc : {"new", "admitted", "sent"}, op : Operations]]
    /\ journal \in BOOLEAN
    /\ crashes \in Nat
    /\ called \subseteq Names
    /\ succeeded \subseteq Names

NoNodes == [n \in Names |-> [pc |-> "done", status |-> "pending"]]

Init ==
    /\ steps \in Loadable
    /\ store = NoState
    /\ submitted = FALSE
    /\ inbox = <<>>
    /\ vpc = "idle" /\ vst = NoState
    /\ exec = NoState /\ node = NoNodes /\ closed = [n \in Names |-> 0]
    /\ mu = Nobody /\ fst = NoState
    /\ analyst = [pc |-> "idle", st |-> Blank]
    /\ abox = 0
    /\ req = [r \in Requests |-> [pc |-> "new", op |-> "approved"]]
    /\ journal = TRUE
    /\ crashes = 0
    /\ called = {} /\ succeeded = {}

-----------------------------------------------------------------------------
(***************************************************************************)
(* Bus.Send drops a message for a full inbox.                              *)
(***************************************************************************)
Send(type) == inbox' = IF Len(inbox) < InboxCap THEN Append(inbox, type) ELSE inbox

Summarize == abox' = IF abox < InboxCap THEN abox + 1 ELSE abox

(***************************************************************************)
(* failAuditExecution's record; executeDAG's callers pass execState, which *)
(* changes for every goroutine.                                            *)
(***************************************************************************)
Failed(st) == [st EXCEPT !.status = "error", !.gate = ""]

failAuditExecution == exec' = Failed(exec) /\ store' = Failed(exec)

(***************************************************************************)
(* The planner saves the task and sends run_pipeline with its definition.  *)
(***************************************************************************)
DispatchPipeline ==
    /\ ~submitted /\ steps # Gone
    /\ submitted' = TRUE
    /\ store' = Blank
    /\ Send("run_pipeline")
    /\ UNCHANGED <<vpc, vst, dagVars, analystVars, req, envVars, history>>

Receive(type) ==
    /\ vpc = "idle"
    /\ inbox # <<>>
    /\ Head(inbox) = type
    /\ inbox' = Tail(inbox)

handleRunPipeline ==
    /\ Receive("run_pipeline")
    /\ LET st == [store EXCEPT !.version = steps]
       IN \/ journal /\ store' = st /\ vpc' = "load"
          \/ ~journal /\ store' = Failed(st) /\ UNCHANGED vpc
    /\ UNCHANGED <<submitted, vst, dagVars, analystVars, req, envVars, history>>

(***************************************************************************)
(* A definition that is gone deletes the record (storeError); one that has *)
(* changed since the manifest ends the run.                                *)
(***************************************************************************)
resumeFromState ==
    \/ steps = Gone /\ store' = NoState /\ vpc' = "idle"
    \/ steps # Gone /\ vst.version # steps /\ store' = Failed(vst) /\ vpc' = "idle"
    \/ steps # Gone /\ vst.version = steps /\ store' = vst /\ vpc' = "load"

handleHumanDecision(decision) ==
    /\ Receive(decision)
    /\ IF store = NoState THEN UNCHANGED <<vpc, vst>> ELSE vpc' = decision /\ vst' = store
    /\ UNCHANGED <<store, submitted, dagVars, analystVars, req, envVars, history>>

SaveDecision ==
    /\ \/ vpc = "approved" /\ resumeFromState
       \/ vpc = "rejected" /\ store' = [vst EXCEPT !.status = "rejected", !.gate = ""]
                           /\ vpc' = "idle"
    /\ vst' = NoState
    /\ UNCHANGED <<submitted, inbox, dagVars, analystVars, req, envVars, history>>

-----------------------------------------------------------------------------
(***************************************************************************)
(* executeDAG.  A step found in CompletedSteps starts with its channel     *)
(* closed: once for every time CompletedSteps lists it.                    *)
(***************************************************************************)
ClosedTwice == Ids(steps) \cap store.repeated

LoadState ==
    /\ vpc = "load"
    /\ ClosedTwice = {}
    /\ vpc' = "dag"
    /\ exec' = store
    /\ node' = [n \in Names |->
                   IF n \notin Ids(steps) THEN NoNodes[n]
                   ELSE [pc |-> "wait",
                         status |-> IF n \in store.done THEN "success" ELSE "pending"]]
    /\ closed' = [n \in Names |-> IF n \in Ids(steps) \cap store.done THEN 1 ELSE 0]
    /\ UNCHANGED <<store, submitted, inbox, vst, mu, fst, analystVars, req, envVars, history>>

(***************************************************************************)
(* The second close panics, before any goroutine has started.  dispatch    *)
(* recovers: the decision has been consumed and nothing runs.              *)
(***************************************************************************)
LoadPanics ==
    /\ vpc = "load"
    /\ \E twice \in ClosedTwice : closed' = [n \in Names |-> IF n = twice THEN 2 ELSE 0]
    /\ vpc' = "idle"
    /\ UNCHANGED <<store, submitted, inbox, vst, exec, node, mu, fst, analystVars, req, envVars,
                   history>>

S(n) == StepOf(steps, n)

At(n, pc) == vpc = "dag" /\ node[n].pc = pc

(***************************************************************************)
(* A critical section that holds no store operation is one step; so is one *)
(* with the node's own close right after it.                               *)
(***************************************************************************)
Locking(n, pc) == At(n, pc) /\ mu = Nobody /\ UNCHANGED mu

Move(n, pc, status) == node' = [node EXCEPT ![n] = [pc |-> pc, status |-> status]]

Close(n, status) ==
    /\ Move(n, "done", status)
    /\ closed' = [closed EXCEPT ![n] = @ + 1]
    /\ succeeded' = IF status = "success" THEN succeeded \cup {n} ELSE succeeded

(* what no goroutine of a step changes *)
runUnchanged == <<submitted, inbox, vpc, vst, analyst, req, envVars>>

Halting == {"failed", "skipped", "cascaded_skip", "paused", "cascaded_pause"}

(***************************************************************************)
(* The wait stops at the first dependency, in the order of depends_on,     *)
(* that did not succeed.                                                   *)
(***************************************************************************)
Succeeded(d) == d \in Ids(steps) => closed[d] > 0 /\ node[d].status \notin Halting

DependencyFails(n) ==
    /\ Locking(n, "wait")
    /\ \E k \in DOMAIN S(n).deps :
          LET d == S(n).deps[k]
          IN /\ \A j \in 1..(k - 1) : Succeeded(S(n).deps[j])
             /\ d \in Ids(steps) /\ closed[d] > 0 /\ node[d].status \in Halting
             /\ Close(n, IF node[d].status \in {"paused", "cascaded_pause"}
                         THEN "cascaded_pause" ELSE "cascaded_skip")
    /\ UNCHANGED <<store, exec, fst, abox, called, runUnchanged>>

(***************************************************************************)
(* A step that an earlier run completed has nothing left to do.            *)
(***************************************************************************)
Begin(n) ==
    /\ Locking(n, "wait")
    /\ \A k \in DOMAIN S(n).deps : Succeeded(S(n).deps[k])
    /\ IF node[n].status = "success"
       THEN Move(n, "done", "success")
       ELSE Move(n, "ready", "running")
    /\ UNCHANGED <<store, exec, fst, closed, abox, history, runUnchanged>>

(***************************************************************************)
(* A false `when` skips the step, and what depends on it; only a gate is   *)
(* skipped without a line in the journal.                                  *)
(***************************************************************************)
SkipStep(n) ==
    /\ Locking(n, "ready")
    /\ S(n).cond
    /\ \/ /\ journal \/ S(n).kind = "gate"
          /\ Close(n, "skipped")
          /\ UNCHANGED <<store, exec>>
       \/ /\ ~journal /\ S(n).kind # "gate"
          /\ failAuditExecution
          /\ Close(n, "failed")
    /\ UNCHANGED <<fst, abox, called, runUnchanged>>

(***************************************************************************)
(* Mutant of PassGate: a resumed run passes every gate it comes to.        *)
(***************************************************************************)
PassEveryGate(n) ==
    /\ Locking(n, "ready")
    /\ S(n).kind = "gate"
    /\ exec.gate # ""
    /\ Close(n, "success")
    /\ UNCHANGED <<store, exec, fst, abox, called, runUnchanged>>

(***************************************************************************)
(* A gate the run resumes from: the record loaded at the start names it.   *)
(***************************************************************************)
PassGate(n) ==
    /\ Locking(n, "ready")
    /\ S(n).kind = "gate"
    /\ exec.gate = S(n).gate
    /\ Close(n, "success")
    /\ UNCHANGED <<store, exec, fst, abox, called, runUnchanged>>

(***************************************************************************)
(* Mutants of Completed: running steps count; gates do not.                *)
(***************************************************************************)
CompletedOrRunning == {n \in Ids(steps) : \/ node[n].status = "success"
                                          \/ node[n].status = "running" /\ S(n).kind # "gate"}
CompletedTools == {n \in Ids(steps) : node[n].status = "success" /\ S(n).kind # "gate"}

Completed == {n \in Ids(steps) : node[n].status = "success"}

(***************************************************************************)
(* The record of a pause.  Its completed steps are the keys of a map: none *)
(* is listed twice.                                                        *)
(***************************************************************************)
nextState(gate) ==
    [gate |-> gate, status |-> "", done |-> Completed, repeated |-> {}, version |-> exec.version]

(***************************************************************************)
(* Mutant of Paused: the gate's id in place of its name.                   *)
(***************************************************************************)
PausedById(n) == nextState(n)

Paused(n) == nextState(S(n).gate)

(***************************************************************************)
(* Any other gate saves a new record, over the one it finds; a journal     *)
(* that fails turns that one into an error.                                *)
(***************************************************************************)
PauseAtGate(n) ==
    /\ Locking(n, "ready")
    /\ S(n).kind = "gate"
    /\ exec.gate # S(n).gate
    /\ \/ journal /\ store' = Paused(n) /\ Close(n, "paused")
       \/ ~journal /\ store' = Failed(Paused(n)) /\ Close(n, "failed")
    /\ UNCHANGED <<exec, fst, abox, called, runUnchanged>>

SendToAnalyst(n) ==
    /\ Locking(n, "ready")
    /\ S(n).kind = "analyst"
    /\ Summarize
    /\ Close(n, "success")
    /\ UNCHANGED <<store, exec, fst, called, runUnchanged>>

(***************************************************************************)
(* system.save_preference: no tool is called and nothing is logged.        *)
(***************************************************************************)
InternalTool(n) ==
    /\ Locking(n, "ready")
    /\ S(n).kind = "internal"
    /\ Close(n, "success")
    /\ UNCHANGED <<store, exec, fst, abox, called, runUnchanged>>

(***************************************************************************)
(* The call is logged first, outside the mutex; if it cannot be, the       *)
(* record is saved at once and the node's status set later.                *)
(***************************************************************************)
StartTool(n) ==
    /\ At(n, "ready")
    /\ S(n).kind \in {"tool", "agent"}
    /\ \/ /\ journal
          /\ Move(n, "calling", "running")
          /\ called' = called \cup {n}
          /\ UNCHANGED <<store, exec>>
       \/ /\ ~journal
          /\ failAuditExecution
          /\ Move(n, "unlogged", "running")
          /\ UNCHANGED called
    /\ UNCHANGED <<closed, mu, fst, abox, succeeded, runUnchanged>>

(***************************************************************************)
(* Mutant of NotStarted: an early return that forgets the channel.         *)
(***************************************************************************)
NotStartedOpen(n) ==
    /\ Locking(n, "unlogged")
    /\ Move(n, "done", "failed")
    /\ UNCHANGED <<store, exec, fst, closed, succeeded, abox, called, runUnchanged>>

NotStarted(n) ==
    /\ Locking(n, "unlogged")
    /\ Close(n, "failed")
    /\ UNCHANGED <<store, exec, fst, abox, called, runUnchanged>>

(***************************************************************************)
(* An outcome that cannot be logged fails the step, whatever it was.       *)
(***************************************************************************)
LogOutcome ==
    \/ journal /\ UNCHANGED <<store, exec>>
    \/ ~journal /\ failAuditExecution

ToolSucceeds(n) ==
    /\ Locking(n, "calling")
    /\ LogOutcome
    /\ Close(n, IF journal THEN "success" ELSE "failed")
    /\ UNCHANGED <<fst, abox, called, runUnchanged>>

(***************************************************************************)
(* A failed agent leaves the record as it is.                              *)
(***************************************************************************)
AgentFails(n) ==
    /\ Locking(n, "calling")
    /\ ToolsFail /\ S(n).kind = "agent"
    /\ LogOutcome
    /\ Close(n, "failed")
    /\ UNCHANGED <<fst, abox, called, runUnchanged>>

(***************************************************************************)
(* A failed tool keeps the mutex while failTool loads the record and saves *)
(* its outcome in it.                                                      *)
(***************************************************************************)
ToolFails(n) ==
    /\ At(n, "calling") /\ mu = Nobody
    /\ ToolsFail /\ S(n).kind = "tool"
    /\ mu' = n
    /\ LogOutcome
    /\ Move(n, "failload", "running")
    /\ UNCHANGED <<closed, fst, abox, history, runUnchanged>>

(***************************************************************************)
(* Mutant of LoadFailed: the caller's copy in place of the stored record.  *)
(***************************************************************************)
LoadStale(n) ==
    /\ At(n, "failload")
    /\ fst' = exec
    /\ Move(n, "failsave", "running")
    /\ UNCHANGED <<store, exec, closed, mu, abox, history, runUnchanged>>

LoadFailed(n) ==
    /\ At(n, "failload")
    /\ fst' = IF store # NoState THEN store ELSE exec
    /\ Move(n, "failsave", "running")
    /\ UNCHANGED <<store, exec, closed, mu, abox, history, runUnchanged>>

SaveFailed(n) ==
    /\ At(n, "failsave")
    /\ \E outcome \in {"error", "rejected"} : store' = [fst EXCEPT !.status = outcome]
    /\ fst' = NoState
    /\ mu' = Nobody
    /\ Close(n, "failed")
    /\ UNCHANGED <<exec, abox, called, runUnchanged>>

(***************************************************************************)
(* Mutant of Unfinished: failed steps are overlooked.                      *)
(***************************************************************************)
UnfinishedPaused == \E n \in Ids(steps) : node[n].status \in {"paused", "cascaded_pause"}

Unfinished == \E n \in Ids(steps) : node[n].status \in {"paused", "cascaded_pause", "failed"}

(***************************************************************************)
(* wg.Wait, and the summary of a run in which no step paused or failed.    *)
(***************************************************************************)
Finish ==
    /\ vpc = "dag"
    /\ \A n \in Ids(steps) : node[n].pc = "done"
    /\ IF Unfinished THEN UNCHANGED abox ELSE Summarize
    /\ vpc' = "idle" /\ exec' = NoState
    /\ UNCHANGED <<store, submitted, inbox, vst, node, closed, mu, fst, analyst, req, envVars,
                   history>>

-----------------------------------------------------------------------------
(***************************************************************************)
(* The analyst's persistCompletion: the completed steps are those of the   *)
(* run's snapshot up to the analyst's own, an id as often as the           *)
(* definition gives it.                                                    *)
(***************************************************************************)
BeforeAnalyst(p) == {j \in DOMAIN p : \A k \in 1..j : p[k].kind # "analyst"}

Reported(p) == {p[i].id : i \in BeforeAnalyst(p)}

Repeated(p) ==
    {p[i].id : i \in {j \in BeforeAnalyst(p) :
                          \E k \in BeforeAnalyst(p) \ {j} : p[k].id = p[j].id}}

LoadCompletion ==
    /\ analyst.pc = "idle" /\ abox > 0
    /\ abox' = abox - 1
    /\ analyst' = [pc |-> "save", st |-> IF store # NoState THEN store ELSE Blank]
    /\ UNCHANGED <<store, submitted, inbox, vpc, vst, dagVars, req, envVars, history>>

Complete(st) ==
    [st EXCEPT !.status = "completed", !.gate = "",
               !.done = IF Reported(st.version) # {} THEN Reported(st.version) ELSE @,
               !.repeated = IF Reported(st.version) # {} THEN Repeated(st.version) ELSE @]

SaveCompletion ==
    /\ analyst.pc = "save"
    /\ store' = Complete(analyst.st)
    /\ analyst' = [pc |-> "idle", st |-> Blank]
    /\ UNCHANGED <<submitted, inbox, vpc, vst, dagVars, abox, req, envVars, history>>

(***************************************************************************)
(* The API's handleHumanDecision admits a decision for the gate the record *)
(* names when it arrives, and sends it to the verifier.                    *)
(***************************************************************************)
ReadDecision(r, op) ==
    /\ req[r].pc = "new"
    /\ store # NoState
    /\ store.gate # ""
    /\ req' = [req EXCEPT ![r] = [pc |-> "admitted", op |-> op]]
    /\ UNCHANGED <<store, submitted, inbox, vpc, vst, dagVars, analystVars, envVars, history>>

SendDecision(r) ==
    /\ req[r].pc = "admitted"
    /\ Send(req[r].op)
    /\ req' = [req EXCEPT ![r].pc = "sent"]
    /\ UNCHANGED <<store, submitted, vpc, vst, dagVars, analystVars, envVars, history>>

BreakJournal ==
    /\ JournalFails /\ journal
    /\ journal' = FALSE
    /\ UNCHANGED <<steps, store, submitted, inbox, vpc, vst, dagVars, analystVars, req, crashes,
                   history>>

(***************************************************************************)
(* A crash and the restart after it, with the definitions then on disk.    *)
(***************************************************************************)
Crash ==
    /\ crashes < MaxCrashes
    /\ crashes' = crashes + 1
    /\ steps' \in Loadable \cup {Gone}
    /\ journal' = TRUE
    /\ inbox' = <<>>
    /\ vpc' = "idle" /\ vst' = NoState
    /\ exec' = NoState /\ node' = NoNodes /\ closed' = [n \in Names |-> 0]
    /\ mu' = Nobody /\ fst' = NoState
    /\ analyst' = [pc |-> "idle", st |-> Blank] /\ abox' = 0
    /\ req' = [r \in Requests |-> IF req[r].pc = "admitted" THEN [req[r] EXCEPT !.pc = "sent"]
                                  ELSE req[r]]
    /\ UNCHANGED <<store, submitted, history>>

-----------------------------------------------------------------------------
Goroutine(n) ==
    \/ DependencyFails(n) \/ Begin(n) \/ SkipStep(n) \/ PassGate(n) \/ PauseAtGate(n)
    \/ SendToAnalyst(n) \/ InternalTool(n) \/ StartTool(n) \/ NotStarted(n) \/ ToolSucceeds(n)
    \/ AgentFails(n) \/ ToolFails(n) \/ LoadFailed(n) \/ SaveFailed(n)

Verifier ==
    \/ handleRunPipeline \/ handleHumanDecision("approved") \/ handleHumanDecision("rejected")
    \/ SaveDecision \/ LoadState \/ LoadPanics \/ Finish

Analyst == LoadCompletion \/ SaveCompletion

Next ==
    \/ DispatchPipeline
    \/ Verifier
    \/ \E n \in Names : Goroutine(n)
    \/ Analyst
    \/ \E r \in Requests : ReadDecision(r, "approved") \/ ReadDecision(r, "rejected")
                                                       \/ SendDecision(r)
    \/ BreakJournal \/ Crash

Spec == Init /\ [][Next]_vars

(***************************************************************************)
(* Every goroutine keeps running and every call of a tool returns (see     *)
(* ToolStep for when it does).  Nobody has to submit the task or decide a  *)
(* gate.                                                                   *)
(***************************************************************************)
Fairness ==
    /\ WF_vars(Verifier)
    /\ \A n \in Names : WF_vars(Goroutine(n))
    /\ WF_vars(Analyst)
    /\ \A r \in Requests : WF_vars(SendDecision(r))

FairSpec == Spec /\ Fairness
-----------------------------------------------------------------------------
(***************************************************************************)
(* The definition the run's manifest recorded.                             *)
(***************************************************************************)
Recorded == IF store = NoState THEN Gone ELSE store.version

GatesBefore(p, n) ==
    {a \in Ancestors(p, StepOf(p, n)) : StepOf(p, a).kind = "gate"}

Approvals == {r \in Requests : req[r].pc # "new" /\ req[r].op = "approved"}

(***************************************************************************)
(* README.md:109-113: no dangerous tool, and no other step behind a gate,  *)
(* is called before a human has approved, whatever runs beside it, pauses  *)
(* beside it, fails or is lost.                                            *)
(***************************************************************************)
ApprovedBeforeDangerous ==
    \A n \in called \cap Ids(Recorded) :
        StepOf(Recorded, n).dangerous \/ GatesBefore(Recorded, n) # {} => Approvals # {}

(***************************************************************************)
(* One approval passes one gate: what waits for k gates, beside each other *)
(* or in turn, takes k admitted approvals (PassGate and what a pause puts  *)
(* in CompletedSteps).                                                     *)
(***************************************************************************)
OneApprovalPerGate ==
    \A n \in called \cap Ids(Recorded) :
        Cardinality(GatesBefore(Recorded, n)) <= Cardinality(Approvals)

(***************************************************************************)
(* A tool is called only after every step it depends on has succeeded, in  *)
(* this run or before a pause: what a pause records as completed really is *)
(* (CompletedSteps of executeDAG's gate).                                  *)
(***************************************************************************)
DependenciesFirst ==
    \A n \in called \cap Ids(Recorded) :
        DependsOn(Recorded, StepOf(Recorded, n)) \subseteq succeeded

(***************************************************************************)
(* No goroutine of a step closes a channel twice, which would panic and    *)
(* take AOS down: a step restored as completed never waits for one that is *)
(* not.  A channel is closed twice only while a completed run is restored  *)
(* for which the analyst reported a step id that the definition repeats;   *)
(* then no goroutine starts.                                               *)
(***************************************************************************)
ChannelsCloseOnce == \A n \in Names : closed[n] > 1 => vpc # "dag" /\ n \in Repeated(steps)

(***************************************************************************)
(* A gate has paused in this run and the record names it: a decision is    *)
(* admitted, and an approval would pass it.                                *)
(***************************************************************************)
GateWaits ==
    /\ store # NoState
    /\ \E n \in Ids(steps) : node[n].status = "paused" /\ store.gate = S(n).gate

(***************************************************************************)
(* A gate that waits goes on waiting, or leaves the record to another that *)
(* has paused, whatever the other branches do meanwhile, until a decision  *)
(* rejects it or starts the goroutines again (failTool reloads the record, *)
(* which the mutex keeps from a pause in between).  A broken journal ends  *)
(* the run; a crash forgets it, not the record; and a completion that was  *)
(* asked for before the pause is saved over it (persistCompletion).        *)
(***************************************************************************)
PauseIsKept ==
    [][GateWaits /\ ~GateWaits' =>
          \/ vpc = "rejected" /\ SaveDecision
          \/ LoadState
          \/ SaveCompletion
          \/ ~journal
          \/ Crash]_vars

MaySkip(p, n) == \E a \in Ancestors(p, StepOf(p, n)) \cup {n} : StepOf(p, a).cond

(***************************************************************************)
(* A run reported completed has done, in one run or across pauses, every   *)
(* step its conditions did not skip.                                       *)
(***************************************************************************)
CompletedMeansDone ==
    store # NoState /\ store.status = "completed"
        => \A n \in Ids(store.version) : n \in succeeded \/ MaySkip(store.version, n)

(***************************************************************************)
(* The verifier, which serves every task, always gets past wg.Wait.        *)
(***************************************************************************)
RunEnds == vpc = "dag" ~> vpc # "dag"

(***************************************************************************)
(* verifier.go:570-572: a resume restores the pipeline's progress "instead *)
(* of starting from scratch": no tool that has succeeded is called again.  *)
(***************************************************************************)
ProgressRestored == \A n \in succeeded : ~At(n, "calling")
=============================================================================
