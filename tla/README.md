# AOS: a TLA+ development

TLA+ models of the Agentic Orchestration System (Go, `src/`), checked with TLC, and theorems
about them proved with TLAPS. AOS takes a request in natural language, picks a pipeline of steps
from YAML definitions and runs it: tools, remote agents, human approvals, waits for a provider's
callback, and a summary at the end. Every step is recorded in an audit journal.

What matters is what happens *between* the steps: several actors save whole records of the same
task over each other, messages are dropped rather than queued, and the process may stop anywhere.
The unit tests run one handler at a time; the models run all of them together.

Contents: [the system](#the-system) · [modules](#modules-and-their-correspondence-to-the-code) ·
[runs](#runs) · [fairness](#fairness) · [proofs](#proofs) · [disagreements](#disagreements-with-the-documents) ·
[limits](#what-is-not-modelled) · [plan](#plan)

## The system

An *agent* is a goroutine with an inbox of 16 messages. `Bus.Send` (`bus/bus.go`) never blocks: a
message for a full inbox is dropped and logged. A task goes

    HTTP -> API agent -> inspector -> planner -> verifier -> analyst
                ^                                   |
                +-- await_human notice -------------+

The verifier is the only agent that runs steps. It is a single goroutine that handles one message
to its end; a 5 s ticker in the same goroutine looks for callbacks to replay and waits to expire.
HTTP handlers run concurrently with it and with each other. The state store holds one JSON record
per task and has `Load` and `Save` only: every read-modify-write is two operations, and the save
replaces the whole record.

| Component (files under `src/internal/`) | State | Operations | What is hard | What makes it correct | Model |
|---|---|---|---|---|---|
| Verifier, linear (`agent/verifier.go`, `verifier_linear.go`) | locals of one handler, `execState` | run_pipeline, human_decision, callback_received, the ticker's two scans, `executeLinear` | stale copies, dropped and repeated messages, restarts, deadlines | nothing behind a gate runs unapproved; order; waits end; settled runs stay settled; log before act | `LinearRun` |
| Verifier, DAG (`agent/verifier_dag.go`) | a node per step (status, channel), one mutex | a goroutine per step, pause, resume | pauses beside running steps, shared record, channels closed twice | dependencies first; approvals before dangerous tools; every run returns | `DagRun`; the inside of a tool node in `ToolStep` |
| State store (`state/`) | record per task, sessions, memories | Load, Save, Delete, scans | no compare-and-swap | a record survives a crash | in `LinearRun`, `DagRun`, `Planner` |
| Bus (`bus/bus.go`) | inboxes | Send | drops | what a message carried can be found again in the store | in `LinearRun`, `DagRun`, `Planner` |
| API agent (`agent/api_agent.go`, `result_store.go`) | rate windows; in-memory results | ask, task, decisions, callbacks, clarification, memories, events | check then act on a record read earlier | a decision counts for the gate it names; an accepted callback is not lost | decisions, callbacks, results in `LinearRun`; requests, clarification replies in `Planner` |
| Analyst (`agent/analyst.go`) | none | summarize, complete | saves a record loaded earlier | completed means done | in `LinearRun`, `DagRun` |
| Inspector, planner (`agent/planner.go`, `inspector.go`, `taskctx.go`) | task contexts | detect_intent, clarify_intent | clarification replies twice or after a restart; owner saved before the checks | no dispatch past RBAC, guardrails or the governance gate; one dispatch per request; every request answered | `Planner` |
| Pipeline safety (`config/safety.go`) | none | `validatePipelineSafety` | agrees with what the executor does? | an approval is an ancestor of every dangerous step | `DagRun` |
| Audit journal (`audit/chain.go`) | file, chain head, error latch | Log, restart, Verify | torn writes, failed syncs | the chain on disk verifies | `AuditOutbox` |
| Kafka shipper (`audit/kafka_shipper.go`) | cursor file | ShipOnce | crash between acknowledgement and cursor; partial failures | late, but neither lost nor out of order | `AuditOutbox`, which implements `Outbox` |
| Ernest over HTTP (`audit/ernest.go`, `evidence.go`, `multi.go`) | `lastErr` of each sink, one mutex | LogChecked, Log, send | nodes of a DAG share the sinks and their error; answers that are lost | a step is decided by its own event | in `ToolStep` |
| Governance (`governance/`) | token cache, model | Evaluate, Resolve, Incompatible, reports | an unreachable gate; token renewal; retried reports | fails closed; incompatible powers | Evaluate in `Planner`; the model, tokens and reports not modelled |
| Guardrails, RBAC (`guard/`, `rbac/`) | none | ValidateAll, IsAllowed | which path calls which of them | what runs has passed them | `Planner` |
| Authentication (`auth/`) | JWKS cache, one mutex | key, refreshLocked, fetchJWKS; the chain | two reasons to fetch, two time limits, requests queueing behind a fetch, an outage | a retired key stops, a new one works, an outage signs nobody out | `KeyCache` |
| Tools (`tools/`) | an MCP session per call | ExecuteToolCtx: HTTP, MCP, A2A, gRPC, workspace; ExecuteAgent | lost answers, sessions, rejections, contexts that expire or never do | every session ended; a rejection not repeated; a limited step ends | `ToolStep` |
| LLM clients (`llm/`) | none | retryHTTP | retries; a client without a time limit | bounded, except Gemini's | its answers are a choice in `Planner` |
| Application (`app/`), metrics, logs, UI | - | wiring | - | - | not modelled |

`PROJECT.json` lists the components, and under "hazards" every place where this code is hard to
test, with the properties that would notice it going wrong.

## Modules and their correspondence to the code

Common conventions. A *store operation is one step*. A handler that loads, decides and saves is
two actions with a copy of the record in between, and any other actor may run there. A crash keeps
the store (and the files) and loses everything else; the definitions on disk may have changed
before the restart. Names in the modules are the code's names where there is one. Records keep the
fields that decide what a run does; texts, parameters, results and timestamps that nothing
branches on are left out. A `when` condition is a choice (`cond`).

### LinearRun

Tasks of one linear pipeline, all actors. A pipeline is a sequence of steps `[kind, gate, submits,
cond, timeout]`.

* `store` is the state store; `ExecutionState` keeps `Gate`, `Status`, whether `Error`,
  `CallbackToken` and `CallbackData` are set (`error`, `armed`, `data`), `CallbackAt`,
  `AwaitDeadline`, the number of `CompletedSteps` and the manifest's version.
* `vpc`, `vtask`, `vst`, `vidx`, `vdl`, `varg` are the verifier goroutine: place, task, its copy of
  the record, loop index, `callbackDeadline`, decision or kind of failure. One action per branch of
  `handleRunPipeline`, `handleHumanDecision`, `handleCallback`, the two scans and `executeLinear`
  (`SkipStep`, `SendToAnalyst`, `PassGate`, `PauseAtGate`, `AwaitCallback`, `InternalTool`,
  `StartTool`, `Invoke`, `ToolSucceeds`, `AgentFails`, `ToolFails`, `LoadFailed`, `SaveFailed`).
* `req` holds the HTTP requests: `Read...` is the handler's load and checks, `AcceptCallback` and
  `SendDecision` what it does afterwards with what it read.
* `analyst`, `abox` are `persistCompletion`'s load and save; `notices`, `results`, `reading` the
  `await_human` message and the in-memory results `/task` reads and deletes.
* `journal` is the audit journal's latch, `cfg` the loaded definition (0: gone), `now` the clock.
  `known`, `ran`, `approvals`, `consumed` and `blind` are history.

### DagRun

One task with a DAG. `node[n]` is a step's goroutine and its dagNode's `Status`, `closed[n]` how
often its channel was closed, `mu` the holder of the mutex across failTool's two store operations
(other critical sections contain at most one and are one step), `exec` the shared `execState`,
which `failAuditExecution` changes for everybody and outside the mutex. The definition itself
stands for its version, so that a restart may load another and `resumeFromState` refuse it.
`validatePipelineSafety` decides which definitions load. Two groupings are worth a word: a node's
`close` follows its unlock in the code and is part of the same step here, because nobody observes
the channel before it is closed; and a gate's save and the save of a failed log entry after it are
one step, because the second overwrites the first before the mutex is released. `CompletedSteps` is
a list in the code: `done` are its ids, `repeated` those it holds more than once, which `LoadState`
must not find (`ClosedTwice`); if it does, the second close panics (`LoadPanics`).

### AuditOutbox

`lines`, `tail`, `last` are the file: complete lines and what follows the last newline. `sequence`,
`head`, `lastErr` are FileChain's fields; `spc`, `batch`, `next` are ShipOnce between its read, its
publication and its cursor; `cursor` is the cursor file; `evidence` is what Ernest holds, which
deduplicates on `sourceEventId`. A hash is the event it belongs to (two events never share one).
Disk faults, process crashes and a journal moved away by an operator are actions of their own.

### Outbox, and what AuditOutbox makes of it

`Outbox` is the promise without files: entries are appended, delivered (each after the earlier ones
of its trace) and acknowledged (never backwards, never past an entry that is not delivered), until
the position is lost or the journal is moved away. `AuditOutbox!Promise` maps it: an entry is a
complete line (`Journal`; readable unless it was joined to a torn one), what is delivered is
Ernest's evidence, what is acknowledged is the cursor file, `Corrupt` when it is unreadable.
`ImplementsOutbox` is the abstract `Spec` as a property. A write that fails, a crash, a read and
a repeated publication are stutters; a partial publication is one `Deliver`.

### ToolStep

What LinearRun and DagRun call `StartTool`, `Invoke` and `ToolSucceeds` or `ToolFails`, opened up: the
steps are nodes of a DAG that run side by side (a linear pipeline is one of them).

* `step[s]` is the goroutine: `phase` the event it logs (tool.started, completed, failed), `posts`,
  `written` and `accepted` what became of it, `attempt` and `expired` the loop and the context of
  `executeToolWithResiliency`, `session` the MCP session it was given and has not asked to end.
  `acted` and `told` are history: something was done for the step; it read a rejection.
* `mu` is MultiLogger's mutex, `journalErr` and `lastErr` the errors `LogChecked` asks the sinks for
  after the write, `journal` and `ernest` what they hold; `dag` is the run's mutex, which a node holds
  while it logs its end.
* One action per request: `Request` (HTTP); `Initialize`, `Initialized`, `List`, `Call`, `Close` (MCP);
  `Message`, `Wait`, `Poll` (A2A); `Resolve`, `Invoke` (gRPC); `File`, `Diff`, `RunTests`, `NoTests`
  (workspace); `ExecuteAgent`. A request and its answer are one step with every outcome: done or not,
  learned or not. `Expire` ends an attempt's context at any time if a timeout is configured
  (`limited`); after it nothing is sent any more, except the end of a session.

### KeyCache

`jwksCache` between requests and the identity provider. `keys` and `fetched` are its fields, `mu` its
mutex, which `key` holds during a fetch; `request[r]` is a request in `key`: waiting, in the fetch for
stale keys, in the one for an unknown key, or answered. `published` and `retired` say when the
provider began and ceased to serve a key; a fetch returns what was served at some moment of it
(`Serve`), or fails in any way (`refreshFails`), and lasts at most the client's timeout (`Tick`'s guard).
`failed` and `known` are history: a fetch of this request failed; the key was cached, and served,
when it arrived.

### Planner

From `/ask` to the `run_pipeline` message, which is where LinearRun and DagRun begin. The *goroutines*:
each request (`ask[t].pc`: new, owner saved, `new_task` sent), each clarification reply (`req[r].pc`:
new, admitted with what it read, sent), the inspector and the planner. The requests that
`handleClarifyReply` has admitted and not yet sent are the point: the planner may do anything to the
task in between.

* `store`, `results`, `notices`, `ctx` are the record, the in-memory result, the `await_human` message
  and taskctx.go's map. `View` is what `/task` answers from the record once the result is consumed.
* `ppc`, `ptask`, `pst` are the planner: place, task, its copy of the record. The places follow
  `handleDetectIntent` (`detect`, `await`, `authorize`, `validate`, `gate`, `persist`, `dispatch`) and
  `handleClarifyIntent` (`extract`, `resume`, `regate`, `dispatch`); `fail` and `failsave` are storeError's
  result and load, and its save.
* The model's answers (`ModelAnswers`: `DetectFails`, `DetectIntent`, `DetectMissing`,
  `ExtractFails`, ...) and Prudence's (`Answers`: any status with any decision, with and without an id, or none at all) are
  choices. `evaluate` is gate.go's table; `allowed` is what Prudence itself has on record.
  The planner's other steps are `OwnStep`. `cfg.timed` says whether the model's client has a time limit;
  a client that has none may leave the planner at `detect` or `extract` for ever.
* `ValidateAll`, `ValidateStructuredParams`, `IsAllowed`, `IntentRequiresLLM` are operators on the
  configuration `cfg`, a constant choice of the run.
* A save may be refused (`NotSaved`); only the two that save an owner look at that. An inbox may be
  full at any time, because tasks outside the model share it (`Dropped`).
* `runs`, `allowed`, `logged`, `clarified`, `refused` and `answered` are history.

A request has one parameter, the amount, with four kinds of values and, in a structured request, one
that is no string. Every request carries an identity.

### MC modules, proof modules

`MCLinearRun` and `MCDagRun` define the pipelines for TLC, the shipped ones (`custody`,
`callback_demo`, `dag_demo`) among them; `MCPlanner` the users, intents and configurations; `MCToolStep` pairs of
calls; `MCKeyCache` the symmetry of requests and of keys. `LinearRunProofs`, `LinearGateProofs`,
`DagRunProofs`, `AuditOutboxProofs`, `PlannerProofs`, `ToolStepProofs` and `KeyCacheProofs` hold the
theorems; `InboxLemmas` what the proofs about both kinds of run need to count messages in an inbox
(`Copies`: a send adds at most one, a receive takes one). In each module, a definition whose comment says "Mutant of X" is a plausible mistake in
X: the property it is listed with in `PROJECT.json` fails when it replaces X.

## Runs

| Run | Question | Bounds | Why they are enough |
|---|---|---|---|
| `linear_run` | Can anything behind a gate run unapproved, out of order, unlogged or under another definition? Do waits end, are callbacks replayed, do settled runs stay settled? | 1 task, 2 requests, inbox of 1, 1 crash, 2 versions, 5 pipelines, clock to 1 and one past every stored deadline | two requests are a double click, a decision for each of two gates, or two callbacks that race each other and the deadline; an inbox of 1 drops the second message; tasks share only the verifier's queue |
| `dag_run` | Dependencies, approvals, channels, pauses, completion, return of every run | 1 task, 2 decisions, 1 crash, 8 definitions of at most 5 steps (one repeats an id, one the loader refuses) | gates after, beside, in turn and conditional; each pair of concurrent kinds of step occurs; with the conditional second gate, a completion is saved over a newer pause |
| `audit_outbox` | Is evidence lost, reordered, or the chain broken? Is it an outbox? | 2 traces, batches of 2, 4 events, 2 crashes, 2 faults, 1 replaced journal | a batch that splits a trace, a fault in the write and one in the repair |
| `planner` | Can a run start past RBAC, the guard or the gate, twice, or after a refusal? Is every request answered? | 1 task, 2 replies, 2 users, 6 configurations, 1 refused save, 1 dropped message, 1 crash | two replies race each other and the planner; the configurations hold an intent for each way to be refused, with and without RBAC, Prudence, a model and a time limit for it; a longer run with 2 tasks (2.6 million states) found nothing else |
| `tool_step` | Is a step decided by its own evidence? Are sessions ended, rejections final, limited steps finite? | 2 steps, 1 retry, 4 pairs of calls, with and without timeouts | two nodes contend for the sinks and for the run's mutex; one retry is an attempt that is not the last and one that is; every kind of call occurs |
| `key_cache` | Do retired keys stop, new ones work, outages pass? | 2 keys, 2 requests, clock to 5, maximal age 3, refresh 1, timeout 1 | a request waits for the other's fetch; the clock passes the maximal age after a retirement, and the refresh limit after a publication |
| `second_gate`, `second_wait`, `skipped_gate`, `callback_lost`, `dag_repeat`, `torn_cursor` | [disagreements](#disagreements-with-the-documents) | the smallest instance that shows each | |

Deadlock checking is off: a system in which nobody decides a gate, whose steps are done, or whose
bounds are used up, rightly has nothing to do.

What the passing runs show:

* `ApprovedBeforeActing`, `OneApprovalPerGate`: for the linear pipelines checked, no tool or agent
  behind an unconditional gate is called before somebody approved, and passing k gates takes k
  admitted approvals, whatever is lost, repeated or overwritten.
* `NoStepSkipped`, `JournalBeforeTool`, `PinnedVersion`: steps run in order across pauses and
  resumes (`CompletedSteps` is counted right at each of the four places that save it), in pipelines
  with one submission per wait (see `second_wait` for the others); once the journal is broken at most
  the one call already logged goes out per process; only the definition in the run's manifest is
  executed.
* `RepeatsArePaidFor`: a step is repeated only because of an admitted decision or a consumed
  callback. Restarts, the ticker and stale messages repeat nothing by themselves.
* `SettledIsFinal`: a rejected, timed-out or completed run with its gate closed and nothing in
  flight never changes again. The gate has to be closed: `failTool` keeps `Gate` while it sets the
  status, so a run that failed behind a gate can be approved, and run, again.
* `CallbackReplayed`, `WaitEnds`: a persisted callback does not sit in the store for ever, and a
  wait with a deadline ends, though messages are dropped and AOS restarts.
* `ApprovedBeforeDangerous`, `DependenciesFirst`: in every definition the loader admits, a dangerous
  tool waits for an approval, and what a pause records as completed really is; a gate skipped by its
  condition skips what depends on it. `OneApprovalPerGate` counts: what waits for k gates takes k
  approvals, also when they pause side by side. (Gates of one name, which none of these definitions
  has, are passed together.)
* `ChannelsCloseOnce`, `RunEnds`: the restored steps are closed under `depends_on`, so no goroutine
  closes a closed channel (a panic that would take AOS down), and every path closes its own, so
  `wg.Wait` returns and the verifier goes on to the next task. The restoring loop itself closes a
  channel twice (`LoadPanics`) if `CompletedSteps` lists an id twice, which the property confines: only
  an analyst's report does, of an id that the definition repeats, and no goroutine has started yet.
* `PauseIsKept`: no failing branch, no save of failTool and no approval takes a gate that waits out of
  the record. A completion does, which the property says: after a double click the second approval
  may start the goroutines again while the analyst is still at the first run's summary, and the
  summary is saved over the pause of the second (see below). `CompletedMeansDone`: no run is
  reported completed over a failed or paused branch.
* `AckedBeforeCursor`, `TraceInOrder`, `ChainVerifies`, `EvidenceArrives`: records before the cursor
  have reached Ernest; a trace's events arrive in order; the file of a running chain verifies;
  every accepted event arrives unless a damaged journal needs an operator (`NeedsRepair`).
* `ImplementsOutbox`: the same as steps instead of states. Between them, file, shipper and cursor do
  only what an outbox does; in particular the cursor never goes back while the journal is the same.
* `OwnEvidenceDecides`: the mutex across write and check makes `lastErr` mean *this* event. Nothing is
  called for a step whose tool.started is not in both sinks, no step succeeds without tool.completed
  in both, and none stops although both took its event.
* `SessionsEnded`, `RejectionIsFinal`: whatever fails in an MCP call, and however little time is left,
  AOS asks for the end of a session it knows of before it goes on; after an A2A rejection it sends
  nothing more. A session whose `initialize` answer is lost is nobody's: AOS never learns of it.
* `StepEnds`: a step ends if a timeout limits it or if it only waits for answers of `safeClient`. The
  others (A2A, gRPC, test runs, agents without a timeout) may never end, see below.
* `RetiredKeyStops`, `NewKeyWorks`, `OutageSignsNobodyOut`: the windows of the JWKS cache are
  `jwksMaxAge` and `jwksMinRefresh`, each with the time one fetch may take; only a failing provider
  extends them, and neither it nor another request's refresh refuses a key that is cached and
  still published.
* `GovernedOnlyWithAllow`, `OnlyValidRuns`, `DirectRunIsAuthorized`: on both paths to the verifier a
  governed pipeline has Prudence's ALLOW, whatever the answers look like, and its parameters have
  passed the guard; a run that needed no clarification was granted by RBAC and journalled first.
* `DispatchedOnce`, `RefusalIsFinal`: late and double replies neither repeat a run nor revive a
  refused one, the exceptions being saves the store refused. `AskIsAnswered`: each of the early
  returns leaves the requester a result, unless the planner waits for ever for a model whose client
  has no time limit (`AwaitsUntimedModel`; without that case TLC finds the request unanswered).

## Fairness

`Spec` has none and carries the safety properties. `FairSpec` adds, per module:

* weak fairness of each goroutine: the verifier and its ticker, the analyst, the API agent's own
  loop, each node of a DAG, each HTTP handler that has started. The Go scheduler runs every
  runnable goroutine, handlers do not wait for each other except on the mutex, which each holder
  leaves after a bounded number of steps. That a call of a tool or an agent returns is ToolStep's
  `StepEnds`, and needs a timeout for some of them: `RunEnds` and `WaitEnds` are about runs whose calls
  return.
* in Planner: the inspector, the API agent's loop, requests whose record is saved, and the planner's own
  steps (`OwnStep`): Prudence's calls have time limits (gate.go:88, m2m.go:74), the state store's are
  assumed to return. The model's answers (`ModelAnswers`) are owed only if `cfg.timed`: Ollama's and
  OpenAI's clients have time limits (ollama_client.go:150, 280; openai_client.go:66, 126, 206), Gemini's
  has none (gemini_client.go:32-38) and the task's context has no deadline (planner.go:158).
* weak fairness of the clock in LinearRun.
* in AuditOutbox, the journal is reopened and ShipOnce runs (its loop has an interval), and the
  publication is strongly fair: a Kafka that fails for ever delivers nothing, one that answers again
  and again eventually acknowledges a batch.

* in ToolStep, `Proceed` (what AOS does by itself and what `safeClient`'s own timeout ends) and `Expire`
  of a configured timeout. Nothing makes another process answer.
* KeyCache has safety properties only.

Nobody has to submit a task, answer a callback, decide a gate, break or repair anything.

## Proofs

For all values of the constants: any pipelines, any number of tasks, requests, crashes, versions,
events, faults, keys, steps, attempts, configurations. The assumptions are the named ASSUMEs on the
constants (gate names are strings other than `""` and `await_callback`; bounds are naturals; `Corrupt`
is no offset; a configuration's fields have the types YAML gives them, and no intent is named `""`
or `unknown`; the values that stand for "nothing" are not among those they stand beside). Some
theorems have hypotheses on the definitions besides, which the shipped ones satisfy and the code
does not check. They are part of the statements, and each is needed:

| Hypothesis | Why the shipped definitions satisfy it | Without it |
|---|---|---|
| `NoLateGate`, `SubmitsOnce` | those of `custody.yaml`, `callback_demo.yaml` and `tribunal.yaml` submit once and wait right after that; no other submits | `skipped_gate`, `second_wait`; TLC finds `NoStepSkipped` violated by two submissions, by a conditional wait behind one, and by a tool between the two |
| `NamesDistinct`, `GateNamesDistinct` | at most one gate each | an approval opens every gate of the name the record waits at |
| `SummariesLast`, `AnalystsLast` | `dag_demo.yaml` and `customer_360.yaml` list the summary last, and it depends on everything; the other DAGs have none | the analyst reports steps that were never done; a resume restores a step without what it depends on |
| `FallbackNeedsNothing` | the fallback intent has no parameters | the planner runs the fallback without any |


* **`LinearRunProofs!TypeCorrect`**: `Spec => []TypeOK`. `TypeInv` is inductive: `TypeOK` with what
  the verifier's locals are at each place (`Locals`: a copy in hand is a record, the index is in
  the pipeline, an outcome is one). The second part is needed because the
  actions save records built from the copy. One lemma per action, grouped by actor.
* **`LinearRunProofs!SettledStaysFinal`**: `Spec => SettledIsFinal`. From `TypeInv`, by the actor that
  takes the step. Each step is either *elsewhere*, for another task, or by an actor that needs
  something in flight for this one (a message, a request, a copy), which `Quiet` excludes; what
  remains are the admissions, which a closed gate and an empty token refuse, and the two scans.
* **`LinearRunProofs!LoggedBeforeCalled`**: `Spec => []JournalBeforeTool`. `Logging` counts: as long as
  the journal is up, or a logged call is about to go out, no more calls were blind than there were
  crashes (`Ahead`); after it, one more. Only `StartTool` makes a call ready, and only with the journal
  up; only a restart brings the journal back.
* **`LinearRunProofs!OneDefinitionPerRun`**: `Spec => []PinnedVersion`. The verifier executes a copy of
  a record that other actors save copies of. `Pinning` says that all copies of one record, in the
  store, with the verifier, the analyst and each request, carry one version (`Agree`), which is the
  loaded one once `resumeFromState` has compared them; `FirstMessage`, that run_pipeline, the only
  message whose handler writes a version, finds the record as the planner saved it and nobody else
  at work for the task. `NextIdle`, from the proof of `SettledStaysFinal`, keeps that so while
  the message waits.
* **`LinearGateProofs!NothingActsUnapproved`**: `NoLateGate /\ Spec => []ApprovedBeforeActing`. The
  property speaks of calls; the invariant `HeldBack`, of what could lead to one. For a task nobody
  has approved, every copy of its record (in the store, with the verifier, the analyst and each
  callback's request) resumes in front of every unconditional gate (`Behind`); so does the loop
  index; no approval is in any inbox or handler; no record names a gate while it is being executed;
  and no analyst's report counts a step behind a gate. It rests on `Pinning`, which says what record
  run_pipeline finds. `NoLateGate` excludes the pipelines with an unconditional gate right behind a
  submission, where a resume counts the gate as the wait (`skipped_gate`).
* **`LinearRunProofs!RepeatsPaidFor`**: `Spec => []RepeatsArePaidFor`. `PaidFor` counts, for each step,
  the calls made and what may still lead to one (`Owed`: the dispatch and its message, a pass over the
  steps that has not come to it), and bounds them by one for the dispatch, the approvals spent
  (`Spent`: admitted and no longer in an inbox or with the verifier) and the callbacks resumed on.
  A pass only goes forward (`PassGoesForward`), so it calls a step once; a crash and a dropped message
  only take passes away.
* **`LinearGateProofs!ApprovalsPayForGates`**: `NoLateGate /\ NamesDistinct /\ Spec => []OneApprovalPerGate`.
  The invariant bounds the unconditional gates in front of every position the task can still go on
  from (`GatesCovered`), in each copy of the record, by the approvals spent; a decision message that is
  taken pays for the one gate its record names.
* **`LinearGateProofs!StepsInOrder`**: `SubmitsOnce /\ Spec => []NoStepSkipped`. `CompletedSteps` is a number
  that four places save and three read, each with its own rule for the step in between. `InOrder` says
  of every copy what its number means: all unconditional steps before it have been called
  (`CalledTo`), at a wait also that the submission before it has, or that nobody outside has the
  token yet (`TokenGiven`), so that no callback can resume past a submission that was never made.
* **`AuditOutboxProofs!OutboxTypeCorrect`**, **`EvidenceNeverLost`** (`[]AckedBeforeCursor`) and
  **`EvidenceInOrder`** (`[]TraceInOrder`). The two properties are not inductive: the batch in hand
  might hold anything. `IInv` adds that events on file increase (`Numbered`), that the batch is the
  stretch of the journal before `next` (`InHand`) whose start, and once it has been published whose
  end, is acknowledged (`CursorAcked`, `Acked`), and that acknowledged events of a trace are a
  prefix (`InOrder`).
* **`AuditOutboxProofs!JournalVerifies`**: `Spec => []ChainVerifies`. `ChainInv` adds the chain's memory: as
  long as no line was joined to another, the complete records are linked (`Records`, which counts a
  last record without its newline as `NewFileChain` does), and `sequence` and `head` in memory are
  those of the last of them unless the last write failed, in which case the next one reads the file
  again.
* **`AuditOutboxProofs!JournalIsAnOutbox`**: `Spec => ImplementsOutbox`. From `IInv`, one case per action:
  each is an action of `Outbox`, or leaves `Journal`, the evidence and the cursor as they are.
* **`DagRunProofs!DagTypeCorrect`**: `Spec => []TypeOK`. `TypeInv` adds what the verifier's and the
  goroutines' places imply (`Locals`), that one goroutine at most is between failTool's load and save,
  and which (`Mutex`), and that nothing has been called before `run_pipeline` is handled (`Fresh`).
* **`DagRunProofs!ChannelsAreClosedOnce`**, **`DependenciesComeFirst`**: `SummariesLast /\ Spec => []...`.
  Both turn on what a resume restores: if a record listed a step as completed but not one it depends
  on, the restored step's channel would be closed again when the other fails. `Records` says of every
  record anybody holds (the store, handleHumanDecision's copy, `execState`, failTool's and the
  analyst's copies) that its completed steps are closed under `depends_on` and have succeeded, or are
  what an analyst reported; `Channels` says, per node, that its channel is closed exactly when it has an
  outcome and that what it depends on has succeeded once it runs; `Versions`, that each record is
  about the definition it was made with, so that `resumeFromState`'s check is enough.
  `SummariesLast` is needed: the analyst reports all steps listed before its own, whatever depends on
  what, so it has to be listed after every tool and agent, and what it reports may depend on nothing
  listed later (see below for what happens otherwise). Ids may be repeated: `Records` also says that a
  record lists twice only ids that its definition repeats before the analyst (`RepeatsItsOwn`), so
  `LoadState`'s guard is what keeps them from the goroutines (`RunClosesOnce`, `LoadPanicsKeeps`).
* **`DagRunProofs!NothingDangerousUnapproved`**: `Spec => []ApprovedBeforeDangerous`, without that
  hypothesis: until somebody approves, nothing is resumed, so nothing that was only reported is
  restored. `Unapproved` says that the one run starts from an empty record that names no gate, that no
  gate's node has succeeded, and that what has succeeded contains what it depends on (`Ungated`). The
  loader's ancestors are the least set closed under `depends_on` (`AncestorsWithin`): they are among
  what has succeeded, so no gate is one of them, and `validatePipelineSafety` has refused a dangerous
  step without a gate.
* **`DagRunProofs!EachGateIsPaidFor`**: `SummariesLast /\ GateNamesDistinct /\ Spec => []OneApprovalPerGate`.
  `PaidInv`: the gates that have succeeded, and while a run is under way the one gate it may pass
  besides (`Reach`), are at most as many as the approvals spent. `PassGate` clears the gate in
  `execState`, which every goroutine shares, so one approval is spent once; what has been called has
  its dependencies among what succeeded, hence all gates before it.
* **`DagRunProofs!CompletedRunsAreDone`**: `SummariesLast /\ AnalystsLast /\ Spec => []CompletedMeansDone`.
  `DoneInv`: a summary is asked for only when everything is done that its condition, or that of a
  step it depends on, did not skip. It needs a cause for each skip (`RunBacked`: a condition, or a
  failure that `Finish` finds), and that a record which claims more than has succeeded is one of a
  pipeline that is all done (`Backed`).
* **`DagRunProofs!PausesAreKept`**: `Spec => PauseIsKept`, for all definitions. `WaitingInv`: while a gate
  waits, the record is of the loaded definition, and the copies of whoever may save it whole, failTool
  and an approval's handler, are the record itself. For failTool the mutex does that: no gate can
  pause between its load and its save (`NobodyFails`, `HolderFails`); the analyst, which takes no lock,
  is the exception.
* **`PlannerProofs!PlannerTypeCorrect`**: `Spec => []TypeOK`, one lemma per action. `TypeOK` is
  inductive as it stands because the planner's copy is always a record, also between tasks.
* **`PlannerProofs!GovernedRunsAreAllowed`**: `Spec => []GovernedOnlyWithAllow`. `GateInv` adds `Cleared`:
  past the gate (`persist`, `dispatch`), an intent that needs a verdict has an ALLOW on record at
  Prudence. It is needed because the run is sent one or two steps after the verdict. `Evaluate`
  establishes it through `AllowIsGenuine` (an answer evaluate takes for ALLOW is one Prudence
  recorded), and no later action changes the copy before the message goes out.
* **`PlannerProofs!OneRunPerRequest`**, **`RefusalsAreFinal`**. A run is a resource: `Budget` counts the
  runs a task has had, the planning under way (`Active`) and the gate that waits for its requester
  (`Gated`), which together are at most one, and one more for each refused save. Every step of the
  planner (`Work`) passes the one chance on, returns it to the gate, spends it, or destroys it; that a
  request's messages start only one planning follows from `Once` and `Fresh` (its message is in one
  inbox at a time, and until it is taken nothing is known of the task).
* **`PlannerProofs!RunsAreValid`**, **`DirectRunsAreAuthorized`**: `FallbackNeedsNothing /\ Spec => []...`.
  `PassInv` says what has been checked at each of the planner's places (`Checked`, `Authorized`), and
  what a record that waits for an answer must have for the resume to be valid (`Asked`). The
  hypothesis is needed because the fallback is planned without parameters.
* **`ToolStepProofs`**: `ToolStepTypeCorrect`, `EvidenceIsOwn`, `SessionsAreEnded`, `RejectionsAreFinal`, for
  any number of steps, protocols and retries. `IInv` has three parts per step: while it holds the
  mutex, the sinks' errors are about its own event (`Logging`); what its place implies about session,
  attempt and result (`Known`); what it may have done without evidence: nothing (`Covered`). A step
  of one node leaves these parts of the others alone (`OthersKept`), which is where the mutex counts.
* **`KeyCacheProofs`**: `KeyCacheTypeCorrect`, `RetiredKeysStop`, `NewKeysWork`, `OutageIsSurvived`, for any
  limits. `IInv` adds that what the cache holds was served within one timeout of `fetched`
  (`Provider`, `Cached`), that a fetch in progress holds the mutex, is within its time and brings what
  was served at a moment of it (`InTime`, `Answered`), and that a key a request found in the cache on
  arrival is still there unless it was retired (`Known`).

Only model-checked: the liveness properties (`WaitEnds`, `CallbackReplayed`, `RunEnds`, `StepEnds`,
`EvidenceArrives`, `AskIsAnswered`), since TLAPS reaches neither fairness nor ENABLED here. Every
invariant and action property of the passing runs is proved. What the violations of the six
other runs say is about single behaviours, so there is nothing to prove.

## Disagreements with the documents

Each is a run that TLC must find violated, with the line it contradicts in `PROJECT.json`.

* **second_gate**: `handleHumanDecision` of the verifier applies a decision to the gate the task
  waits at *now*. Two approvals of the first gate, both admitted before the first is handled, pass
  the second gate too.
* **second_wait**: all waits of a task share one callback token, and a callback's message names none of
  them. A message taken after the ticker has replayed its callback resumes the next wait, with the
  first provider's answer. (For the same reason, a callback for the first of two submissions that
  arrives while the wait of the second is prepared, and a crash before the second is sent, resume
  past a submission that was never made: `NoStepSkipped` is not claimed for such pipelines.)
* **skipped_gate**: with a gate between the step that submits and its `await_callback`, a callback
  read before the pause and saved after it restores the prepared wait over the gate's record, and
  the resume counts the gate as the wait.
* **callback_lost**: a callback accepted while the submission is still returning is erased by the
  record the `await_callback` step saves.
* **dag_repeat**: a tool that is still running when a gate beside it pauses is not in the snapshot of
  completed steps, and is called again after the approval although it succeeded.
* **torn_cursor**: `writeCursor` assigns the errors of `Write` and `Sync` to a variable of the `if`
  statement, so a short write is renamed over the good cursor.

Found while modelling and kept in the models; no run is about them.

* A refusal by the guard, a failure to reach Prudence and a pipeline with `governed: true` but no gate
  are stored as in-memory results only: after the first poll, or a restart, `/task` says
  `pending` for ever.
* A run dispatched after a clarification has passed the guard and the gate, but neither RBAC nor the
  `intent.rbac_allowed` event, and its record lacks the decision id; `DirectRunIsAuthorized` is
  therefore about the other runs.
* A call of Gemini that hangs is never given up: the client is made without a timeout and passes the
  task's context through (gemini_client.go:32-38, 76-110), which has no deadline (planner.go:158,
  taskctx.go:37-38). The planner has one goroutine, so every later request waits behind it.
* After a restart no clarification can be answered: the API admits the reply, the planner has no
  context for the task and reports an error, in memory only.
* A reply whose values cannot be extracted leaves an error on a record that still accepts replies.
* Of two admitted replies to one clarification, Prudence may block the first; the second writes
  "task not awaiting clarification" over the verdict, which `/task` then shows as an error
  (planner.go:602; README.md:268-270 speaks of the verdict as persisted).
* A DAG's analyst reports as completed the steps listed before it (analyst.go:274-290). If one of them
  depends on a step listed later, here `<<g: gate, x: after y and g, s: analyst after x, y: tool after
  g>>`, a second admitted approval after the run's end restores x but not y; should y then fail, x's
  goroutine closes its channel a second time, a panic. No shipped definition is of this kind.
  An analyst on a branch beside a gate, likewise, would close the gate's pause.
* The loader does not refuse a definition that gives an id twice. The analyst reports the id as often
  as it is listed (analyst.go:264, verifier_linear.go:482-495) and executeDAG closes the node's channel
  once per entry (verifier_dag.go:61-68): a second approval of a gate, admitted before the run's end
  and handled after it, panics in the loop. The dispatcher recovers (verifier.go:98-105), so the
  decision is lost and the record stays completed; no shipped definition is of this kind.
* A completion is saved over whatever the record has become since the run it reports (analyst.go:235
  on): if a second decision, admitted before the run's end, has started the goroutines again and they
  have paused at a gate, the record reads completed, `gate` is empty, and nobody can decide the gate.
* A gate that pauses after a tool beside it has failed saves a fresh record over the failure that
  failTool kept (verifier_dag.go:219; verifier.go:334-337).
* The context of a task has no deadline, and nothing calls `CancelTask`: an A2A task that stays
  "working", a gRPC call, a test run or an agent without a `timeout` or `timeout_ms` is waited for for
  ever, by the only goroutine that runs steps. A tool's `timeout` does not apply to workspace tools and
  agents, a step's does. After a line that is no JSON, ExecuteAgent stops reading and waits for a
  child that may be blocked on its full pipe (agent_executor.go:114-124).
* `workspace.run_tests` that fails, or is killed by its timeout, is a success with status "failed":
  it is not tried again.
* Each attempt of an A2A or MCP tool is a new message or session: after a lost answer the remote side
  may act twice, and an A2A task that is given up is not cancelled.
* A JWKS fetch that fails does not count for `jwksMinRefresh`: during an outage every request fetches,
  one with a stale cache and an unknown key twice, and the others queue for the mutex.
* The event of a failed send to Ernest is not sent again later: the operation stops instead, as
  README.md:625-629 says.

## What is not modelled

* Errors of the state store, undefined tools and agents, `generate_code`: each ends the run where it
  happens. `system.recall` and `system.save_preference` are steps without effect on the run.
* In LinearRun and DagRun a tool is one call that succeeds, fails or rejects; ToolStep has its inside
  for the steps of one run, without pauses or restarts.
* Governance's organisation model (`Resolve`, `Incompatible`), its token cache and the retried reports;
  rate windows, task listings, memories and the event stream of the API agent; the claims of a token
  and the chain of authenticators. They are functions of one request or caches of one value, and
  what a run does depends on none of them except through the refusals that Planner has.
* Shutdown: agents return after their current message and the store is closed last; for the runs it is
  a crash between two steps, which LinearRun, DagRun and Planner have.
* Power loss (unsynced data); the journal's faults are errors and process crashes.
* DAG definitions with a cycle: nothing refuses them and they block the verifier; `RunEnds` is about
  the others. A DAG gate without an id is `step_<i>` to the loader and nameless to the executor;
  DagRun assumes ids, as the shipped definitions have.
* In-memory results in DagRun (LinearRun and Planner have them).
* Requests without identity (development mode), `DispatchAskInternal` (unused), sessions and memories
  in the planner's prompt.
* Signatures, embeddings, texts, YAML, HTTP and Kafka protocols, the UI.

## Plan

Done: LinearRun, AuditOutbox, DagRun, Planner, ToolStep and KeyCache with their runs; `Outbox` and the
refinement; the theorems above. Left, most useful first:

1. An abstract run (waiting, running, settled) implemented by LinearRun and DagRun.
2. Pure decisions: governance's Resolve and the incompatibility rules, and `detect_intent`'s choice,
   against reference definitions; the token cache of `governance/` with a clock.
3. The rest of the API agent: rate windows, task listing, memories.
