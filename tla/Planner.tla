------------------------------ MODULE Planner ------------------------------
(***************************************************************************)
(* From a request to a dispatched pipeline: the handlers that accept a     *)
(* request or the answer to a clarification (api_agent.go), the inspector  *)
(* (inspector.go), the planner (planner.go) and what it consults before it *)
(* lets a pipeline run: the model's answer (detect_intent.go), RBAC        *)
(* (rbac.go), the guard (guardrails.go, structured.go) and Prudence's      *)
(* policy decision point (gate.go).  The module ends at the verifier's     *)
(* inbox, where LinearRun and DagRun begin.                                *)
(*                                                                         *)
(* A request's parameters are abstracted to one, the amount.               *)
(***************************************************************************)
EXTENDS Naturals, Sequences, FiniteSets

CONSTANTS
    Tasks,      \* task ids
    Replies,    \* HTTP requests that answer a clarification, each used once
    Users,      \* authenticated users
    Domains,    \* ai.use domains of each user, "*" for all of them
    Intents,    \* names of intents
    Configs,    \* configurations AOS may be started with
    MaxLost,    \* bound on saves the state store refuses
    MaxDropped, \* bound on messages dropped because an inbox is full
    MaxCrashes, \* bound on crashes
    NoState     \* the value of a key the store does not hold

(***************************************************************************)
(* A parameter's value: absent, blanks only, refused by the guard (not a   *)
(* number, not positive or over the limit), accepted by it.                *)
(***************************************************************************)
Values == {"", "blank", "bad", "good"}

(***************************************************************************)
(* A step of a pipeline: a tool, a dangerous one, one that needs AOS's own *)
(* model (an agent, system.recall, ...), a tool built into the verifier,   *)
(* a tool nobody defined.                                                  *)
(***************************************************************************)
Modes == {"tool", "dangerous", "llm", "internal", "missing"}

Intent ==
    [roles : SUBSET STRING, listed : BOOLEAN, pipeline : BOOLEAN, tools : Seq(Modes),
     allowDangerous : BOOLEAN, requiresAmount : BOOLEAN, required : BOOLEAN,
     governed : BOOLEAN, aiSystem : BOOLEAN]

ASSUME ConfigsAssumption ==
    \A c \in Configs : /\ DOMAIN c.intents \subseteq Intents
                       /\ \A i \in DOMAIN c.intents : c.intents[i] \in Intent
                       /\ {c.rbac, c.unknownAllowed, c.deterministic, c.pdp, c.localTools,
                           c.timed} \subseteq BOOLEAN

ASSUME BoundsAssumption ==
    /\ Tasks # {}
    /\ Intents \cap {"", "unknown"} = {}
    /\ Users \subseteq STRING \ {""}
    /\ Domains \in [Users -> SUBSET STRING]
    /\ MaxLost \in Nat /\ MaxDropped \in Nat /\ MaxCrashes \in Nat

(***************************************************************************)
(* What a request or a record may name: no intent yet, an intent nobody    *)
(* defined, the fallback, which a configuration may lack.                  *)
(***************************************************************************)
Operations == Intents \cup {"", "unknown", "system.fallback"}

(***************************************************************************)
(* The part of ExecutionState the planner and /task read or write; "error" *)
(* is Error # "", "decision" is DecisionID # "".                           *)
(***************************************************************************)
ExecutionState ==
    [user : Users \cup {""}, intent : Operations, amount : Values, decision : BOOLEAN,
     gate : {"", "clarification"}, status : {"", "processing", "governance_blocked"},
     error : BOOLEAN]

Blank ==
    [user |-> "", intent |-> "", amount |-> "", decision |-> FALSE, gate |-> "", status |-> "",
     error |-> FALSE]

ASSUME NoStateAssumption == NoState \notin ExecutionState

VARIABLES
    cfg,     \* definitions and environment of this process
    store,   \* state store: task id -> ExecutionState
    ask,     \* the requests: [pc, user, op, amount]
    req,     \* the replies in flight: [pc, task]
    ibox,    \* the inspector's inbox
    pbox,    \* the planner's inbox
    ctx,     \* tasks with a context in taskctx.go
    ppc,     \* where the planner goroutine is
    ptask,   \* the task it works for
    pst,     \* its local copy of the task's record
    notices, \* await_human messages in the API agent's inbox
    results, \* the in-memory results of result_store.go
    lost,    \* saves refused so far
    dropped, \* messages dropped so far
    crashes  \* crashes so far

(***************************************************************************)
(* History variables: what the planner has done, and what others told it.  *)
(***************************************************************************)
VARIABLES
    runs,      \* the run_pipeline messages each task's planning sent
    allowed,   \* tasks for which Prudence recorded an ALLOW
    logged,    \* tasks with an intent.rbac_allowed event in the journal
    clarified, \* tasks the planner asked a clarification for
    refused,   \* why a task was refused for good: "rbac", "guard", "verdict"
    answered   \* tasks with an outcome: a result was stored or the run was sent

plannerVars == <<ppc, ptask, pst>>
faults == <<lost, dropped, crashes>>
history == <<runs, allowed, logged, clarified, refused, answered>>
vars == <<cfg, store, ask, req, ibox, pbox, ctx, plannerVars, notices, results, faults, history>>

Names == DOMAIN cfg.intents

Messages == [type : {"detect_intent", "clarify_intent"}, task : Tasks]
Requests == [pc : {"new", "saved", "sent"}, user : Users, op : Operations,
             amount : Values \cup {"number"}]
Runs == [intent : Operations, amount : Values]
Outcomes == {"", "error", "await_clarification", "await_human", "governance_blocked"}

TypeOK ==
    /\ cfg \in Configs
    /\ store \in [Tasks -> ExecutionState \cup {NoState}]
    /\ ask \in [Tasks -> Requests]
    /\ req \in [Replies -> [pc : {"new", "read", "done"}, task : Tasks]]
    /\ ibox \in Seq(Tasks)
    /\ pbox \in Seq(Messages)
    /\ ctx \subseteq Tasks
    /\ ppc \in {"idle", "detect", "await", "authorize", "validate", "extract", "resume", "gate",
                "regate", "persist", "dispatch", "fail", "failsave"}
    /\ ptask \in Tasks
    /\ pst \in ExecutionState
    /\ notices \subseteq Tasks
    /\ results \in [Tasks -> Outcomes]
    /\ lost \in Nat /\ dropped \in Nat /\ crashes \in Nat
    /\ runs \in [Tasks -> Seq(Runs)]
    /\ allowed \subseteq Tasks /\ logged \subseteq Tasks
    /\ clarified \subseteq Tasks /\ answered \subseteq Tasks
    /\ refused \in [Tasks -> {"", "rbac", "guard", "verdict"}]

Init ==
    /\ cfg \in Configs
    /\ store = [t \in Tasks |-> NoState]
    /\ ask \in [Tasks -> {[pc |-> "new", user |-> u, op |-> "", amount |-> ""] : u \in Users}]
    /\ ptask \in Tasks
    /\ req = [r \in Replies |-> [pc |-> "new", task |-> ptask]]
    /\ ibox = <<>> /\ pbox = <<>>
    /\ ctx = {} /\ notices = {}
    /\ ppc = "idle" /\ pst = Blank
    /\ results = [t \in Tasks |-> ""]
    /\ lost = 0 /\ dropped = 0 /\ crashes = 0
    /\ runs = [t \in Tasks |-> <<>>]
    /\ allowed = {} /\ logged = {} /\ clarified = {} /\ answered = {}
    /\ refused = [t \in Tasks |-> ""]
-----------------------------------------------------------------------------
(***************************************************************************)
(* What the planner consults.                                              *)
(***************************************************************************)

(***************************************************************************)
(* IsAllowed and IsAllowedForFunctions: an intent permissions.yaml does    *)
(* not list follows defaults.unknown_intent.                               *)
(***************************************************************************)
IsAllowed(i, user) ==
    LET intent == cfg.intents[i]
    IN  IF intent.listed
        THEN "*" \in Domains[user] \/ Domains[user] \cap intent.roles # {}
        ELSE cfg.unknownAllowed

Granted(i, user) == cfg.rbac => IsAllowed(i, user)

IntentRequiresLLM(i) ==
    \E k \in DOMAIN cfg.intents[i].tools : cfg.intents[i].tools[k] = "llm"

(***************************************************************************)
(* guard.ValidateAll: permissions, dangerous parameters, dangerous chain.  *)
(***************************************************************************)
ValidateAll(i, amount) ==
    LET intent == cfg.intents[i]
        dangerous == {k \in DOMAIN intent.tools : intent.tools[k] = "dangerous"}
    IN  /\ \A k \in DOMAIN intent.tools : intent.tools[k] # "missing"
        /\ dangerous # {} => intent.allowDangerous
        /\ intent.allowDangerous /\ intent.requiresAmount => amount = "good"
        /\ cfg.localTools \/ Cardinality(dangerous) <= 1

(***************************************************************************)
(* An explicit operation's required parameters: strings, and not blank.    *)
(***************************************************************************)
ValidateStructuredParams(i, amount) ==
    cfg.intents[i].required => amount \notin {"", "blank"}

(***************************************************************************)
(* Prudence's answer to one request.                                       *)
(***************************************************************************)
Answers == [status : {200, 202, 403, 503}, decision : {"ALLOW", "APPROVAL_REQUIRED", "DENY", "ERROR"},
            id : BOOLEAN]
Unreachable == [status |-> 0, decision |-> "", id |-> FALSE]

decisionForStatus ==
    [s \in {200, 202, 403} |-> CASE s = 200 -> "ALLOW" [] s = 202 -> "APPROVAL_REQUIRED"
                                [] s = 403 -> "DENY"]

(* Mutant of evaluate: the status line is not compared with the decision. *)
evaluateDecision(answer) ==
    IF answer.status # 0 /\ answer.id THEN answer.decision ELSE "ERROR"

evaluate(answer) ==
    IF /\ answer.status \in DOMAIN decisionForStatus
       /\ answer.decision = decisionForStatus[answer.status]
       /\ answer.id
    THEN answer.decision
    ELSE "ERROR"

Governed(i) == cfg.pdp /\ cfg.intents[i].aiSystem

Misconfigured(i) == cfg.intents[i].governed /\ ~Governed(i)
-----------------------------------------------------------------------------
(***************************************************************************)
(* Save may be refused by the store; only the owner's save looks at that.  *)
(***************************************************************************)
Saved(t, st) == store' = [store EXCEPT ![t] = st] /\ UNCHANGED lost

NotSaved == lost < MaxLost /\ lost' = lost + 1 /\ UNCHANGED store

Save(t, st) == Saved(t, st) \/ NotSaved

StoreResult(t, status) ==
    /\ results' = [results EXCEPT ![t] = status]
    /\ answered' = answered \cup {t}

(***************************************************************************)
(* Bus.Send drops the message for a full inbox.  The inboxes are shared    *)
(* with tasks this module does not have, so they may be full at any time.  *)
(***************************************************************************)
Dropped == dropped < MaxDropped /\ dropped' = dropped + 1

Send(box, m) == box' = Append(box, m) /\ UNCHANGED dropped

Goto(place) == ppc' = place /\ UNCHANGED ptask

Finish == ppc' = "idle" /\ pst' = Blank /\ UNCHANGED ptask

Fail == Goto("fail")

Refuse(reason) == refused' = [refused EXCEPT ![ptask] = reason]
-----------------------------------------------------------------------------
(***************************************************************************)
(* The record is saved before the id is returned; a refused save ends the  *)
(* request with 503.                                                       *)
(***************************************************************************)
Accept(t, op, amount) ==
    /\ ask[t].pc = "new"
    /\ ask' = [ask EXCEPT ![t] = [pc |-> "saved", user |-> ask[t].user, op |-> op,
                                  amount |-> amount]]
    /\ Saved(t, [Blank EXCEPT !.user = ask[t].user, !.status = "processing"])
    /\ UNCHANGED <<cfg, req, ibox, pbox, ctx, plannerVars, notices, results, dropped, crashes,
                   history>>

(***************************************************************************)
(* Natural language, and an explicit operation with its parameters.  A     *)
(* message to /ask_structured that names no operation is planned like one  *)
(* to /ask: it lacks the context, which the planner makes before reading.  *)
(***************************************************************************)
handleAsk(t) == ~cfg.deterministic /\ Accept(t, "", "")

handleAsk2(t) ==
    \E op \in Names \cup {"unknown"}, amount \in Values \cup {"number"} : Accept(t, op, amount)

(***************************************************************************)
(* Only handleAsk creates the task's context; then new_task is sent.       *)
(***************************************************************************)
Submit(t) ==
    /\ ask[t].pc = "saved"
    /\ ask' = [ask EXCEPT ![t].pc = "sent"]
    /\ ctx' = IF ask[t].op = "" THEN ctx \cup {t} ELSE ctx
    /\ Send(ibox, t) \/ (Dropped /\ UNCHANGED ibox)
    /\ UNCHANGED <<cfg, store, req, pbox, plannerVars, notices, results, lost, crashes, history>>

(***************************************************************************)
(* Inspector.dispatch: new_task becomes detect_intent.                     *)
(***************************************************************************)
Inspect ==
    /\ ibox # <<>>
    /\ ibox' = Tail(ibox)
    /\ \/ Send(pbox, [type |-> "detect_intent", task |-> Head(ibox)])
       \/ Dropped /\ UNCHANGED pbox
    /\ UNCHANGED <<cfg, store, ask, req, ctx, plannerVars, notices, results, lost, crashes, history>>

(***************************************************************************)
(* handleClarifyReply: the requester's answer, while the task waits.       *)
(***************************************************************************)
ReadForReply(r, t, u) ==
    /\ req[r].pc = "new"
    /\ ~cfg.deterministic
    /\ store[t] # NoState
    /\ store[t].user = u
    /\ store[t].gate = "clarification"
    /\ req' = [req EXCEPT ![r] = [pc |-> "read", task |-> t]]
    /\ UNCHANGED <<cfg, store, ask, ibox, pbox, ctx, plannerVars, notices, results, faults, history>>

SendReply(r) ==
    /\ req[r].pc = "read"
    /\ req' = [req EXCEPT ![r].pc = "done"]
    /\ \/ Send(pbox, [type |-> "clarify_intent", task |-> req[r].task])
       \/ Dropped /\ UNCHANGED pbox
    /\ UNCHANGED <<cfg, store, ask, ibox, ctx, plannerVars, notices, results, lost, crashes, history>>

(***************************************************************************)
(* The API agent turns an await_human notice into a result.                *)
(***************************************************************************)
Notice(t) ==
    /\ t \in notices
    /\ notices' = notices \ {t}
    /\ StoreResult(t, "await_human")
    /\ UNCHANGED <<cfg, store, ask, req, ibox, pbox, ctx, plannerVars, faults, runs, allowed, logged,
                   clarified, refused>>

(***************************************************************************)
(* handleTask: the in-memory result is read once; View is what the record  *)
(* shows from then on.                                                     *)
(***************************************************************************)
Poll(t) ==
    /\ results[t] # ""
    /\ results' = [results EXCEPT ![t] = ""]
    /\ UNCHANGED <<cfg, store, ask, req, ibox, pbox, ctx, plannerVars, notices, faults, history>>

View(st) ==
    IF st = NoState THEN "not_found"
    ELSE IF st.error THEN "error"
    ELSE IF st.status # "" THEN st.status
    ELSE IF st.gate # "" THEN "await_clarification"
    ELSE "pending"
-----------------------------------------------------------------------------
(***************************************************************************)
(* Start and dispatch: the planner takes a message when it is idle.        *)
(***************************************************************************)
Receive(type) ==
    /\ ppc = "idle"
    /\ pbox # <<>>
    /\ Head(pbox).type = type
    /\ ptask' = Head(pbox).task
    /\ pbox' = Tail(pbox)

(***************************************************************************)
(* Structured parameters, any to string: others are left out.              *)
(***************************************************************************)
(* Mutant of Converted: values that are no strings are kept. *)
ConvertedAsIs(amount) == amount

Converted(amount) == IF amount \in Values THEN amount ELSE ""

(***************************************************************************)
(* handleDetectIntent: a context, then the owner, before anything else.    *)
(***************************************************************************)
handleDetectIntent ==
    /\ Receive("detect_intent")
    /\ ctx' = ctx \cup {ptask'}
    /\ LET a == ask[ptask']
           owner == [Blank EXCEPT !.user = a.user]
       IN  \/ /\ Saved(ptask', owner)
              /\ pst' = IF a.op = "" THEN owner
                        ELSE [owner EXCEPT !.intent = a.op, !.amount = Converted(a.amount)]
              /\ ppc' = IF a.op = "" THEN "detect" ELSE "authorize"
           \/ NotSaved /\ pst' = owner /\ ppc' = "fail"
    /\ UNCHANGED <<cfg, ask, req, ibox, notices, results, dropped, crashes, history>>

(***************************************************************************)
(* The record waits for the requester; the notice, then the result.        *)
(***************************************************************************)
RequestClarification(st) ==
    /\ Save(ptask, st)
    /\ \/ notices' = notices \cup {ptask} /\ UNCHANGED dropped
       \/ Dropped /\ UNCHANGED notices
    /\ clarified' = clarified \cup {ptask}
    /\ pst' = st
    /\ Goto("await")
    /\ UNCHANGED <<cfg, ask, req, ibox, pbox, ctx, results, crashes, runs, allowed, logged, refused,
                   answered>>

AwaitClarification ==
    /\ ppc = "await"
    /\ StoreResult(ptask, "await_clarification")
    /\ Finish
    /\ UNCHANGED <<cfg, store, ask, req, ibox, pbox, ctx, notices, faults, runs, allowed, logged,
                   clarified, refused>>

(***************************************************************************)
(* DetectIntentAndParams: the model errs, finds no intent (the fallback is *)
(* planned), or names one; a missing required parameter, or an error the   *)
(* model reports itself, asks the requester.                               *)
(***************************************************************************)
Unanswered(i, amount) == cfg.intents[i].required /\ amount = ""

DetectFails ==
    /\ ppc = "detect"
    /\ Fail
    /\ UNCHANGED <<cfg, store, ask, req, ibox, pbox, ctx, pst, notices, results, faults, history>>

DetectIntent ==
    /\ ppc = "detect"
    /\ \/ pst' = [pst EXCEPT !.intent = "system.fallback"]
       \/ \E i \in Names, amount \in Values :
              /\ ~Unanswered(i, amount)
              /\ pst' = [pst EXCEPT !.intent = i, !.amount = amount]
    /\ Goto("authorize")
    /\ UNCHANGED <<cfg, store, ask, req, ibox, pbox, ctx, notices, results, faults, history>>

DetectMissing ==
    /\ ppc = "detect"
    /\ \E i \in Names, amount \in Values :
           RequestClarification([pst EXCEPT !.intent = i, !.amount = amount,
                                            !.gate = "clarification"])

(***************************************************************************)
(* The intent is known and RBAC grants it to the requester; the journal    *)
(* says so, or the task ends.                                              *)
(***************************************************************************)
(* Mutant of Denied: an intent permissions.yaml does not list is granted. *)
DeniedIfListed ==
    /\ pst.intent \in Names
    /\ cfg.intents[pst.intent].listed
    /\ ~Granted(pst.intent, ask[ptask].user)

Denied == pst.intent \in Names /\ ~Granted(pst.intent, ask[ptask].user)

Authorize ==
    /\ ppc = "authorize"
    /\ \/ /\ pst.intent \notin Names \/ Denied
          /\ IF Denied THEN Refuse("rbac") ELSE UNCHANGED refused
          /\ Fail
          /\ UNCHANGED logged
       \/ /\ pst.intent \in Names /\ ~Denied
          /\ UNCHANGED refused
          /\ \/ logged' = logged \cup {ptask} /\ Goto("validate")
             \/ Fail /\ UNCHANGED logged
    /\ UNCHANGED <<cfg, store, ask, req, ibox, pbox, ctx, pst, notices, results, faults, runs, allowed,
                   clarified, answered>>

(***************************************************************************)
(* The pipeline exists, the mode can run it, the parameters pass: the      *)
(* first three end in storeError, the guard only stores a result.          *)
(***************************************************************************)
Plannable ==
    LET intent == cfg.intents[pst.intent]
    IN  /\ intent.pipeline
        /\ cfg.deterministic => ~IntentRequiresLLM(pst.intent)
        /\ ask[ptask].op # "" => /\ ask[ptask].amount # "number"
                                 /\ ValidateStructuredParams(pst.intent, pst.amount)

(* Mutant of GuardRefuses: no result is stored. *)
GuardRefusesSilently ==
    /\ Refuse("guard")
    /\ UNCHANGED <<results, answered>>
    /\ Finish

GuardRefuses ==
    /\ Refuse("guard")
    /\ StoreResult(ptask, "error")
    /\ Finish

Validate ==
    /\ ppc = "validate"
    /\ \/ /\ ~Plannable
          /\ Fail
          /\ UNCHANGED <<pst, results, refused, answered>>
       \/ /\ Plannable
          /\ ~ValidateAll(pst.intent, pst.amount)
          /\ GuardRefuses
       \/ /\ Plannable
          /\ ValidateAll(pst.intent, pst.amount)
          /\ Goto("gate")
          /\ UNCHANGED <<pst, results, refused, answered>>
    /\ UNCHANGED <<cfg, store, ask, req, ibox, pbox, ctx, notices, faults, runs, allowed, logged,
                   clarified>>

(***************************************************************************)
(* governanceGate, on a first plan ("gate") and after a clarification      *)
(* ("regate").  An error only stores a result.                             *)
(***************************************************************************)
AtGate == ppc \in {"gate", "regate"}

PassUngoverned ==
    /\ AtGate
    /\ ~Misconfigured(pst.intent) /\ ~Governed(pst.intent)
    /\ Goto(IF ppc = "gate" THEN "persist" ELSE "dispatch")
    /\ UNCHANGED <<cfg, store, ask, req, ibox, pbox, ctx, pst, notices, results, faults, history>>

RefuseUngoverned ==
    /\ AtGate
    /\ Misconfigured(pst.intent)
    /\ StoreResult(ptask, "error")
    /\ Finish
    /\ UNCHANGED <<cfg, store, ask, req, ibox, pbox, ctx, notices, faults, runs, allowed, logged,
                   clarified, refused>>

(***************************************************************************)
(* Prudence's own record of what it decided, whatever the planner makes of *)
(* its answer.                                                             *)
(***************************************************************************)
Recorded(answer) ==
    allowed' = IF answer = [status |-> 200, decision |-> "ALLOW", id |-> TRUE]
               THEN allowed \cup {ptask} ELSE allowed

Blocked == [Blank EXCEPT !.user = pst.user, !.intent = pst.intent, !.amount = pst.amount,
                         !.status = "governance_blocked"]

Evaluate(answer) ==
    /\ AtGate
    /\ Governed(pst.intent)
    /\ Recorded(answer)
    /\ \/ /\ evaluate(answer) = "ALLOW"
          /\ Goto(IF ppc = "gate" THEN "persist" ELSE "dispatch")
          /\ UNCHANGED <<store, lost, pst, results, refused, answered>>
       \/ /\ evaluate(answer) = "ERROR"
          /\ StoreResult(ptask, "error")
          /\ Finish
          /\ UNCHANGED <<store, lost, refused>>
       \/ /\ evaluate(answer) \in {"DENY", "APPROVAL_REQUIRED"}
          /\ Save(ptask, Blocked)
          /\ Refuse("verdict")
          /\ StoreResult(ptask, "governance_blocked")
          /\ Finish
    /\ UNCHANGED <<cfg, ask, req, ibox, pbox, ctx, notices, dropped, crashes, runs, logged, clarified>>

(***************************************************************************)
(* The execution is persisted, then dispatched.                            *)
(***************************************************************************)
PersistExecution ==
    /\ ppc = "persist"
    /\ Save(ptask, [pst EXCEPT !.decision = Governed(pst.intent)])
    /\ Goto("dispatch")
    /\ UNCHANGED <<cfg, ask, req, ibox, pbox, ctx, pst, notices, results, dropped, crashes, history>>

DispatchPipeline ==
    /\ ppc = "dispatch"
    /\ \/ /\ runs' = [runs EXCEPT ![ptask] = Append(@, [intent |-> pst.intent, amount |-> pst.amount])]
          /\ answered' = answered \cup {ptask}
          /\ UNCHANGED dropped
       \/ Dropped /\ UNCHANGED <<runs, answered>>
    /\ Finish
    /\ UNCHANGED <<cfg, store, ask, req, ibox, pbox, ctx, notices, results, lost, crashes, allowed,
                   logged, clarified, refused>>
-----------------------------------------------------------------------------
(***************************************************************************)
(* handleClarifyIntent: a task with a context that waits for its requester *)
(***************************************************************************)
(* Mutant of AwaitsReply: the record's gate is not looked at. *)
HasState(t) == t \in ctx /\ store[t] # NoState

AwaitsReply(t) == HasState(t) /\ store[t].gate = "clarification"

handleClarifyIntent ==
    /\ Receive("clarify_intent")
    /\ IF AwaitsReply(ptask')
       THEN pst' = store[ptask'] /\ ppc' = "extract"
       ELSE pst' = Blank /\ ppc' = "fail"
    /\ UNCHANGED <<cfg, store, ask, req, ibox, ctx, notices, results, faults, history>>

(***************************************************************************)
(* ExtractParams: the model errs, or gives values; an empty one is not     *)
(* merged.  The pipeline must exist and every required parameter be there. *)
(***************************************************************************)
ExtractFails ==
    /\ ppc = "extract"
    /\ Fail
    /\ UNCHANGED <<cfg, store, ask, req, ibox, pbox, ctx, pst, notices, results, faults, history>>

Merged(amount) == [pst EXCEPT !.amount = IF amount = "" THEN @ ELSE amount]

ExtractMissing ==
    /\ ppc = "extract"
    /\ cfg.intents[pst.intent].pipeline
    /\ \E amount \in Values : /\ Unanswered(pst.intent, Merged(amount).amount)
                              /\ RequestClarification(Merged(amount))

(***************************************************************************)
(* The answer is complete: the gate is cleared and the guard runs.         *)
(***************************************************************************)
(* Mutant of GateCleared: the gate stays set. *)
GateKept(st) == st

GateCleared(st) == [st EXCEPT !.gate = ""]

ExtractParams ==
    /\ ppc = "extract"
    /\ cfg.intents[pst.intent].pipeline
    /\ \E amount \in Values :
           LET st == GateCleared(Merged(amount))
           IN  /\ ~Unanswered(pst.intent, st.amount)
               /\ pst' = st
               /\ Save(ptask, st)
    /\ Goto("resume")
    /\ UNCHANGED <<cfg, ask, req, ibox, pbox, ctx, notices, results, dropped, crashes, history>>

(* Mutant of ResumePlan: the guard is not run again. *)
ResumeUnguarded ==
    /\ ppc = "resume"
    /\ Goto("regate")
    /\ UNCHANGED <<cfg, store, ask, req, ibox, pbox, ctx, pst, notices, results, faults, history>>

ResumePlan ==
    /\ ppc = "resume"
    /\ \/ /\ ~ValidateAll(pst.intent, pst.amount)
          /\ GuardRefuses
       \/ /\ ValidateAll(pst.intent, pst.amount)
          /\ Goto("regate")
          /\ UNCHANGED <<pst, results, refused, answered>>
    /\ UNCHANGED <<cfg, store, ask, req, ibox, pbox, ctx, notices, faults, runs, allowed, logged,
                   clarified>>
-----------------------------------------------------------------------------
(***************************************************************************)
(* storeError: the result; with a context also the record, which is loaded *)
(* and saved in two steps.                                                 *)
(***************************************************************************)
storeError ==
    /\ ppc = "fail"
    /\ StoreResult(ptask, "error")
    /\ IF ptask \in ctx
       THEN /\ pst' = [(IF store[ptask] = NoState THEN Blank ELSE store[ptask]) EXCEPT !.error = TRUE]
            /\ Goto("failsave")
       ELSE Finish
    /\ UNCHANGED <<cfg, store, ask, req, ibox, pbox, ctx, notices, faults, runs, allowed, logged,
                   clarified, refused>>

SaveError ==
    /\ ppc = "failsave"
    /\ Save(ptask, pst)
    /\ Finish
    /\ UNCHANGED <<cfg, ask, req, ibox, pbox, ctx, notices, results, dropped, crashes, history>>

(***************************************************************************)
(* A crash keeps the store; the inboxes, the results, the contexts and the *)
(* requests in flight are gone.  AOS restarts with the same configuration. *)
(***************************************************************************)
Crash ==
    /\ crashes < MaxCrashes
    /\ crashes' = crashes + 1
    /\ ask' = [t \in Tasks |-> IF ask[t].pc = "saved" THEN [ask[t] EXCEPT !.pc = "sent"] ELSE ask[t]]
    /\ req' = [r \in Replies |-> IF req[r].pc = "read" THEN [req[r] EXCEPT !.pc = "done"] ELSE req[r]]
    /\ ibox' = <<>> /\ pbox' = <<>>
    /\ ctx' = {} /\ notices' = {}
    /\ ppc' = "idle" /\ pst' = Blank
    /\ results' = [t \in Tasks |-> ""]
    /\ UNCHANGED <<cfg, store, ptask, lost, dropped, history>>
-----------------------------------------------------------------------------
(***************************************************************************)
(* The planner's steps: those that begin with an answer of the model, and  *)
(* those that call nobody but Prudence and the state store.                *)
(***************************************************************************)
ModelAnswers ==
    \/ DetectFails \/ DetectIntent \/ DetectMissing
    \/ ExtractFails \/ ExtractMissing \/ ExtractParams

OwnStep ==
    \/ handleDetectIntent \/ AwaitClarification
    \/ Authorize \/ Validate
    \/ PassUngoverned \/ RefuseUngoverned \/ \E a \in Answers \cup {Unreachable} : Evaluate(a)
    \/ PersistExecution \/ DispatchPipeline
    \/ handleClarifyIntent \/ ResumePlan
    \/ storeError \/ SaveError

PlannerStep == ModelAnswers \/ OwnStep

ApiStep(t) == Submit(t) \/ Notice(t)

Next ==
    \/ PlannerStep
    \/ Inspect
    \/ \E t \in Tasks : handleAsk(t) \/ handleAsk2(t) \/ ApiStep(t) \/ Poll(t)
    \/ \E r \in Replies : SendReply(r) \/ \E t \in Tasks, u \in Users : ReadForReply(r, t, u)
    \/ Crash

Spec == Init /\ [][Next]_vars

(***************************************************************************)
(* The goroutines run, and the state store's calls return.  Prudence's     *)
(* calls have time limits (gate.go:88, m2m.go:74), and so have the model's *)
(* with Ollama (ollama_client.go:150, 280) and OpenAI (openai_client.go:   *)
(* 66, 126, 206): cfg.timed.  Gemini's have none (gemini_client.go:32-38)  *)
(* and a task's context no deadline (planner.go:158): that model owes      *)
(* nothing, like users, faults and crashes.                                *)
(***************************************************************************)
FairSpec ==
    /\ Spec
    /\ WF_vars(OwnStep)
    /\ WF_vars(cfg.timed /\ ModelAnswers)
    /\ WF_vars(Inspect)
    /\ \A t \in Tasks : WF_vars(ApiStep(t))
    /\ \A r \in Replies : WF_vars(SendReply(r))
-----------------------------------------------------------------------------
(***************************************************************************)
(* No governed run without ALLOW: a pipeline with an AI system, or marked  *)
(* governed, is sent only if Prudence recorded an ALLOW for the task, on   *)
(* the direct path and after any number of clarifications.                 *)
(***************************************************************************)
GovernedOnlyWithAllow ==
    \A t \in Tasks : \A k \in DOMAIN runs[t] :
        LET intent == cfg.intents[runs[t][k].intent]
        IN  intent.governed \/ (intent.aiSystem /\ cfg.pdp) => t \in allowed

(***************************************************************************)
(* Only defined pipelines run, with parameters the guard accepts: what the *)
(* verifier receives passes the guard whichever way it came, and lacks no  *)
(* required parameter.                                                     *)
(***************************************************************************)
OnlyValidRuns ==
    \A t \in Tasks : \A k \in DOMAIN runs[t] :
        LET run == runs[t][k]
        IN  /\ run.intent \in Names
            /\ cfg.intents[run.intent].pipeline
            /\ ValidateAll(run.intent, run.amount)
            /\ ~Unanswered(run.intent, run.amount)

(***************************************************************************)
(* A run that needed no clarification was granted by RBAC to the user the  *)
(* task belongs to, and the journal says so before the verifier starts.    *)
(***************************************************************************)
DirectRunIsAuthorized ==
    \A t \in Tasks \ clarified : \A k \in DOMAIN runs[t] :
        /\ Granted(runs[t][k].intent, ask[t].user)
        /\ t \in logged
        /\ store[t] # NoState /\ store[t].user = ask[t].user

(***************************************************************************)
(* One request is dispatched once, however often its clarification is      *)
(* answered and whenever AOS restarts; each further run is paid for by a   *)
(* save the store refused.                                                 *)
(***************************************************************************)
DispatchedOnce == \A t \in Tasks : Len(runs[t]) <= 1 + lost

(***************************************************************************)
(* A refusal by RBAC, by the guard or by Prudence is final for the task:   *)
(* no later reply makes it run, unless a save was refused.                 *)
(***************************************************************************)
RefusalIsFinal == \A t \in Tasks : refused[t] # "" /\ lost = 0 => runs[t] = <<>>

(***************************************************************************)
(* Every accepted request gets an outcome: a result or a run, unless a     *)
(* message was dropped, AOS crashed, or the planner's only goroutine waits *)
(* for ever for a model whose client has no time limit.                    *)
(***************************************************************************)
AwaitsUntimedModel == ~cfg.timed /\ ppc \in {"detect", "extract"}

AskIsAnswered ==
    \/ <>[]AwaitsUntimedModel
    \/ \A t \in Tasks : ask[t].pc = "sent" ~> (t \in answered \/ dropped > 0 \/ crashes > 0)
=============================================================================
