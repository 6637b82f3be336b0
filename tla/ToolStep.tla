------------------------------ MODULE ToolStep ------------------------------
(***************************************************************************)
(* What happens inside one step that calls a tool or an agent, where       *)
(* LinearRun and DagRun have one action: the event before it, the attempts *)
(* with their remote conversations, and the event after it.  The steps are *)
(* the nodes of a DAG, which run side by side and share the run's mutex    *)
(* (verifier_dag.go) and one MultiLogger (audit/multi.go), whose sinks are *)
(* the journal and Ernest over HTTP (audit/ernest.go).                     *)
(*                                                                         *)
(* A request and its answer are one step; a request whose answer is lost   *)
(* may have been carried out.  A request to an expired context is not      *)
(* sent.  No code cancels the context of a task, and it has no deadline of *)
(* its own: only the timeouts of a tool and of a step end a call.          *)
(***************************************************************************)
EXTENDS Naturals

CONSTANTS
    Steps,
    Plans,   \* what the steps call
    Retries, \* step.Retries
    Nobody   \* holds a free mutex

LocalKinds == {"file", "diff", "tests"}
AllKinds == {"http", "mcp", "a2a", "grpc", "agent"} \cup LocalKinds

ASSUME ToolStepAssumption ==
    /\ Plans \subseteq [Steps -> AllKinds]
    /\ Retries \in Nat
    /\ Nobody \notin Steps

VARIABLES
    kind,       \* the definition a step names
    limited,    \* a timeout applies to its calls: of the tool, or its own
    step,       \* the steps
    mu,         \* who holds the MultiLogger's mutex
    dag,        \* who holds the run's mutex
    journalErr, \* FileChain.lastErr: it has failed, and stays so
    lastErr,    \* ErnestLogger.lastErr: its last event failed
    journal,    \* events in the journal
    ernest      \* events Ernest has accepted, by sourceEventId

config == <<kind, limited>>
sinks == <<mu, journalErr, lastErr, journal, ernest>>
vars == <<config, step, sinks, dag>>

(***************************************************************************)
(* Where a step is: not begun; in LogChecked; in a call; waiting to try    *)
(* again; at the end of its attempts; done.                                *)
(***************************************************************************)
LogPcs == {"lock", "file", "post", "check"}
McpPcs == {"initialize", "initialized", "list", "call", "close"}
CallPcs == McpPcs \cup {"request", "message", "wait", "poll", "resolve", "invoke", "run"}
Pcs == {"pending", "backoff", "ended", "done"} \cup LogPcs \cup CallPcs

Phases == {"started", "completed", "failed"}
Results == {"none", "ok", "error", "rejected", "noevidence"}

(***************************************************************************)
(* A step: the event it logs and how often it has posted it; whether that  *)
(* event was accepted; its attempts, and whether the context of this one   *)
(* has expired; a session it was given and has not asked to end; what the  *)
(* call came to; whether something was done for it (acted), and whether it *)
(* read a rejection (told).                                                *)
(***************************************************************************)
Step == [pc : Pcs, phase : Phases, posts : 0..1, written : BOOLEAN, accepted : BOOLEAN,
         attempt : 0..Retries, expired : BOOLEAN, session : BOOLEAN, result : Results,
         acted : BOOLEAN, told : BOOLEAN]

TypeOK ==
    /\ kind \in [Steps -> AllKinds]
    /\ limited \in [Steps -> BOOLEAN]
    /\ step \in [Steps -> Step]
    /\ mu \in Steps \cup {Nobody}
    /\ dag \in Steps \cup {Nobody}
    /\ journalErr \in BOOLEAN
    /\ lastErr \in BOOLEAN
    /\ journal \in SUBSET (Steps \X Phases)
    /\ ernest \in SUBSET (Steps \X Phases)

Pending == [pc |-> "pending", phase |-> "started", posts |-> 0, written |-> FALSE,
            accepted |-> FALSE, attempt |-> 0, expired |-> FALSE, session |-> FALSE,
            result |-> "none", acted |-> FALSE, told |-> FALSE]

Init ==
    /\ kind \in Plans
    /\ limited \in [Steps -> BOOLEAN]
    /\ step = [s \in Steps |-> Pending]
    /\ mu = Nobody /\ dag = Nobody
    /\ journalErr = FALSE /\ lastErr = FALSE
    /\ journal = {} /\ ernest = {}
-----------------------------------------------------------------------------
Put(s, rec) == step' = [step EXCEPT ![s] = rec]

(***************************************************************************)
(* A node whose dependencies are done resolves its parameters under the    *)
(* run's mutex, and logs tool.started.                                     *)
(***************************************************************************)
Begin(s) ==
    /\ step[s].pc = "pending"
    /\ dag = Nobody
    /\ Put(s, [step[s] EXCEPT !.pc = "lock"])
    /\ UNCHANGED <<config, sinks, dag>>
-----------------------------------------------------------------------------
(***************************************************************************)
(* Mutant of Free: LogChecked does not serialize the write and the check.  *)
(***************************************************************************)
AlwaysFree == TRUE

(***************************************************************************)
(* LogChecked, step by step: the mutex, the journal, Ernest, the check.    *)
(***************************************************************************)
Free == mu = Nobody

Lock(s) ==
    /\ step[s].pc = "lock"
    /\ Free
    /\ mu' = s
    /\ Put(s, [step[s] EXCEPT !.pc = "file"])
    /\ UNCHANGED <<config, journalErr, lastErr, journal, ernest, dag>>

(***************************************************************************)
(* The journal takes the event, unless it fails now or failed before; its  *)
(* error is read at once, and it never goes away.  Ernest is tried anyway. *)
(***************************************************************************)
Write(s) ==
    /\ step[s].pc = "file"
    /\ \/ /\ ~journalErr
          /\ journal' = journal \cup {<<s, step[s].phase>>}
          /\ UNCHANGED journalErr
       \/ /\ journalErr' = TRUE
          /\ UNCHANGED journal
    /\ Put(s, [step[s] EXCEPT !.pc = "post", !.posts = 0, !.written = ~journalErr'])
    /\ UNCHANGED <<config, mu, lastErr, ernest, dag>>

(***************************************************************************)
(* send posts the event: Ernest takes it or not, and AOS learns which or   *)
(* not (an answer that is lost, a server error).  It posts once more when  *)
(* it did not learn it, and gives up on the second failure, on a refusal   *)
(* (4xx), and when its deadline passes.                                    *)
(***************************************************************************)
Post(s) ==
    /\ step[s].pc = "post"
    /\ \E taken, learned \in BOOLEAN :
         /\ ernest' = IF taken THEN ernest \cup {<<s, step[s].phase>>} ELSE ernest
         /\ \/ /\ lastErr' = ~(taken /\ learned)
               /\ Put(s, [step[s] EXCEPT !.pc = "check", !.accepted = taken /\ learned])
            \/ /\ ~learned
               /\ step[s].posts = 0
               /\ Put(s, [step[s] EXCEPT !.posts = 1])
               /\ UNCHANGED lastErr
    /\ UNCHANGED <<config, mu, journalErr, journal, dag>>

(***************************************************************************)
(* Err of both sinks.  Without tool.started the tool is not called         *)
(* (failAuditExecution); without tool.completed the step has failed.  A    *)
(* failed step stays what it was (failTool has the last word).  The node   *)
(* gives the run's mutex back once it has logged its end.                  *)
(***************************************************************************)
First == [k \in AllKinds |-> CASE k = "http" -> "request"
                              [] k = "mcp" -> "initialize"
                              [] k = "a2a" -> "message"
                              [] k = "grpc" -> "resolve"
                              [] OTHER -> "run"]

Check(s) ==
    LET err == lastErr \/ ~step[s].written
        started == step[s].phase = "started"
    IN /\ step[s].pc = "check"
       /\ mu' = Nobody
       /\ \/ /\ started /\ ~err
             /\ Put(s, [step[s] EXCEPT !.pc = First[kind[s]]])
          \/ /\ ~(started /\ ~err)
             /\ Put(s, [step[s] EXCEPT !.pc = "done",
                       !.result = IF err /\ step[s].phase # "failed" THEN "noevidence" ELSE @])
       /\ dag' = IF started THEN dag ELSE Nobody
       /\ UNCHANGED <<config, journalErr, lastErr, journal, ernest>>
-----------------------------------------------------------------------------
(***************************************************************************)
(* Mutant of Final: a rejection is tried again like any other error.       *)
(***************************************************************************)
FinalOnlySuccess(s, result) == result = "ok" \/ step[s].attempt = Retries \/ kind[s] = "agent"

(***************************************************************************)
(* Mutant of Final: one attempt more than the step allows.                 *)
(***************************************************************************)
FinalOneMore(s, result) ==
    result \in {"ok", "rejected"} \/ step[s].attempt > Retries \/ kind[s] = "agent"

(***************************************************************************)
(* An attempt comes to its result (executeToolWithResiliency): success and *)
(* a rejection end the step, an error is tried again after a delay.  An    *)
(* agent step has one attempt (runAgentStep).                              *)
(***************************************************************************)
Final(s, result) ==
    result \in {"ok", "rejected"} \/ step[s].attempt = Retries \/ kind[s] = "agent"

Come(s, result, session, acted) ==
    /\ Put(s, [step[s] EXCEPT !.pc = IF Final(s, result) THEN "ended" ELSE "backoff",
                              !.result = result, !.session = session, !.acted = @ \/ acted,
                              !.told = @ \/ result = "rejected", !.expired = FALSE])
    /\ UNCHANGED <<config, sinks, dag>>

Again(s) ==
    /\ step[s].pc = "backoff"
    /\ Put(s, [step[s] EXCEPT !.pc = First[kind[s]], !.attempt = @ + 1])
    /\ UNCHANGED <<config, sinks, dag>>

(***************************************************************************)
(* The end of the step is logged under the run's mutex.                    *)
(***************************************************************************)
End(s) ==
    /\ step[s].pc = "ended"
    /\ dag = Nobody
    /\ dag' = s
    /\ Put(s, [step[s] EXCEPT !.pc = "lock",
                              !.phase = IF step[s].result = "ok" THEN "completed" ELSE "failed"])
    /\ UNCHANGED <<config, sinks>>

(***************************************************************************)
(* The context of the attempt ends, if the tool or the step has a timeout. *)
(***************************************************************************)
Expire(s) ==
    /\ limited[s]
    /\ step[s].pc \in CallPcs
    /\ ~step[s].expired
    /\ Put(s, [step[s] EXCEPT !.expired = TRUE])
    /\ UNCHANGED <<config, sinks, dag>>
-----------------------------------------------------------------------------
(***************************************************************************)
(* What AOS may come to with one request: the result, and whether the      *)
(* other side did what it asks.  The http.Client has a timeout of its own, *)
(* so every request ends; guardedDial may refuse the address.              *)
(***************************************************************************)
Reply(s, result, acted) ==
    /\ result \in {"ok", "error"}
    /\ result = "ok" => acted
    /\ acted => ~step[s].expired

(***************************************************************************)
(* An HTTP tool: one request; a status of 400 or more is an error.         *)
(***************************************************************************)
Request(s) ==
    /\ step[s].pc = "request"
    /\ \E result \in {"ok", "error"}, acted \in BOOLEAN :
        Reply(s, result, acted) /\ Come(s, result, step[s].session, acted)

(***************************************************************************)
(* An MCP tool (executeMCP): initialize, whose answer names the session    *)
(* whatever its status; a server that does not know initialize is used     *)
(* without it.  Then initialized, tools/list when there are parameters (at *)
(* most 50 pages), and the call.                                           *)
(***************************************************************************)
Move(s, pc, result, session, acted) ==
    /\ Put(s, [step[s] EXCEPT !.pc = pc, !.result = result, !.session = session,
                              !.acted = @ \/ acted])
    /\ UNCHANGED <<config, sinks, dag>>

Initialize(s) ==
    /\ step[s].pc = "initialize"
    /\ \/ /\ ~step[s].expired
          /\ \E given \in BOOLEAN, next \in {"initialized", "list", "call"} :
               Move(s, next, "none", given \/ step[s].session, FALSE)
       \/ \E given \in BOOLEAN :
            /\ given => ~step[s].expired
            /\ Move(s, "close", "error", given \/ step[s].session, FALSE)

Initialized(s) ==
    /\ step[s].pc = "initialized"
    /\ \/ /\ ~step[s].expired
          /\ \E next \in {"list", "call"} : Move(s, next, "none", step[s].session, FALSE)
       \/ Move(s, "close", "error", step[s].session, FALSE)

List(s) ==
    /\ step[s].pc = "list"
    /\ \/ ~step[s].expired /\ Move(s, "call", "none", step[s].session, FALSE)
       \/ Move(s, "close", "error", step[s].session, FALSE)

Call(s) ==
    /\ step[s].pc = "call"
    /\ \E result \in {"ok", "error"}, acted \in BOOLEAN :
        Reply(s, result, acted) /\ Move(s, "close", result, step[s].session, acted)

(***************************************************************************)
(* Mutant of Close: it asks with the context of the call.                  *)
(***************************************************************************)
CloseWithCall(s) ==
    /\ step[s].pc = "close"
    /\ Come(s, step[s].result, step[s].session /\ step[s].expired, FALSE)

(***************************************************************************)
(* However the call went, the server is asked once, with a context of its  *)
(* own, to end the session it gave.                                        *)
(***************************************************************************)
Close(s) ==
    /\ step[s].pc = "close"
    /\ Come(s, step[s].result, FALSE, FALSE)
-----------------------------------------------------------------------------
(***************************************************************************)
(* An A2A tool (executeA2A): the answer to the message, or to a poll, is a *)
(* direct message or a task.  A completed one is a success; one that is    *)
(* submitted or working is polled after a delay; a rejected one is the     *)
(* agent's answer; one that failed, was canceled, asks for something, is   *)
(* unknown or has no id is an error.  The agent may work on whatever AOS   *)
(* comes to, and for as long as it likes.                                  *)
(***************************************************************************)
Message(s) ==
    /\ step[s].pc = "message"
    /\ \/ \E result \in {"ok", "error"}, acted \in BOOLEAN :
            Reply(s, result, acted) /\ Come(s, result, step[s].session, acted)
       \/ ~step[s].expired /\ Come(s, "rejected", step[s].session, FALSE)
       \/ ~step[s].expired /\ Move(s, "wait", "none", step[s].session, TRUE)

Wait(s) ==
    /\ step[s].pc = "wait"
    /\ \/ step[s].expired /\ Come(s, "error", step[s].session, FALSE)
       \/ ~step[s].expired /\ Move(s, "poll", "none", step[s].session, FALSE)

Poll(s) ==
    /\ step[s].pc = "poll"
    /\ \/ ~step[s].expired /\ Come(s, "ok", step[s].session, FALSE)
       \/ Come(s, "error", step[s].session, FALSE)
       \/ ~step[s].expired /\ Come(s, "rejected", step[s].session, FALSE)
       \/ ~step[s].expired /\ Move(s, "wait", "none", step[s].session, FALSE)

(***************************************************************************)
(* gRPC: the method's types from the server, if it describes them, and one *)
(* call.  Neither has a timeout but the context's.                         *)
(***************************************************************************)
Resolve(s) ==
    /\ step[s].pc = "resolve"
    /\ ~step[s].expired
    /\ \/ Move(s, "invoke", "none", step[s].session, FALSE)
       \/ Come(s, "error", step[s].session, FALSE)

Invoke(s) ==
    /\ step[s].pc = "invoke"
    /\ ~step[s].expired
    /\ \E result \in {"ok", "error"}, acted \in BOOLEAN :
        Reply(s, result, acted) /\ Come(s, result, step[s].session, acted)

(***************************************************************************)
(* A workspace tool (executeLocalFileTool) is refused without a workspace, *)
(* outside it, for want of a parameter, or when its context has ended.  A  *)
(* tool that reads or writes a file ends by itself; nothing interrupts it. *)
(***************************************************************************)
Local(s) == step[s].pc = "run" /\ kind[s] \in LocalKinds

RefuseLocal(s) ==
    /\ Local(s)
    /\ Come(s, "error", step[s].session, FALSE)

File(s) ==
    /\ Local(s) /\ kind[s] = "file"
    /\ \E result \in {"ok", "error"} : Come(s, result, step[s].session, TRUE)

(***************************************************************************)
(* The others run a child process, which ends when it likes.  A test run   *)
(* that fails, or for which there is no project, is a result and not an    *)
(* error; so is one that is killed.                                        *)
(***************************************************************************)
Diff(s) ==
    /\ Local(s) /\ kind[s] = "diff"
    /\ ~step[s].expired
    /\ \E result \in {"ok", "error"} : Come(s, result, step[s].session, TRUE)

RunTests(s) ==
    /\ Local(s) /\ kind[s] = "tests"
    /\ ~step[s].expired
    /\ Come(s, "ok", step[s].session, TRUE)

NoTests(s) ==
    /\ Local(s) /\ kind[s] = "tests"
    /\ Come(s, "ok", step[s].session, FALSE)

(***************************************************************************)
(* An agent's command line (ExecuteAgent): its parameters are refused, or  *)
(* it ends.  The result is its exit status and the last result event of    *)
(* its stream; a line that is no JSON is an error.                         *)
(***************************************************************************)
RefuseAgent(s) ==
    /\ step[s].pc = "run" /\ kind[s] = "agent"
    /\ Come(s, "error", step[s].session, FALSE)

ExecuteAgent(s) ==
    /\ step[s].pc = "run" /\ kind[s] = "agent"
    /\ ~step[s].expired
    /\ \E result \in {"ok", "error"} : Come(s, result, step[s].session, TRUE)

(***************************************************************************)
(* Mutant of Abort: a child process is not bound to the context.           *)
(***************************************************************************)
AbortCalls(s) ==
    /\ step[s].pc \in {"resolve", "invoke"}
    /\ step[s].expired
    /\ \E acted \in BOOLEAN : Come(s, "error", step[s].session, acted /\ step[s].pc # "resolve")

(***************************************************************************)
(* A call or a child process whose context ended is given up or killed; it *)
(* may have done what it was for.                                          *)
(***************************************************************************)
Abort(s) ==
    /\ \/ step[s].pc \in {"resolve", "invoke"}
       \/ step[s].pc = "run" /\ kind[s] # "file"
    /\ step[s].expired
    /\ \E acted \in BOOLEAN :
         Come(s, IF kind[s] = "tests" THEN "ok" ELSE "error", step[s].session,
              acted /\ step[s].pc # "resolve")
-----------------------------------------------------------------------------
(***************************************************************************)
(* What AOS does by itself, in bounded time, and what it waits for.        *)
(***************************************************************************)
LogChecked(s) == Lock(s) \/ Write(s) \/ Post(s) \/ Check(s)
executeMCP(s) == Initialize(s) \/ Initialized(s) \/ List(s) \/ Call(s) \/ Close(s)
executeA2A(s) == Message(s) \/ Wait(s) \/ Poll(s)

Proceed(s) ==
    \/ Begin(s) \/ LogChecked(s) \/ Again(s) \/ End(s)
    \/ Request(s) \/ executeMCP(s) \/ executeA2A(s) \/ Abort(s)
    \/ File(s)

executeLocalFileTool(s) == RefuseLocal(s) \/ Diff(s) \/ RunTests(s) \/ NoTests(s)
Answered(s) ==
    Resolve(s) \/ Invoke(s) \/ executeLocalFileTool(s) \/ RefuseAgent(s) \/ ExecuteAgent(s)

Next == \E s \in Steps : Proceed(s) \/ Answered(s) \/ Expire(s)

Spec == Init /\ [][Next]_vars

(***************************************************************************)
(* AOS goes on, a client's timeout passes, and a configured timeout does.  *)
(* Nothing makes another process answer.                                   *)
(***************************************************************************)
Fairness == \A s \in Steps : WF_vars(Proceed(s)) /\ WF_vars(Expire(s))

FairSpec == Spec /\ Fairness
-----------------------------------------------------------------------------
(***************************************************************************)
(* A step's own event decides whether it goes on: nothing is done for a    *)
(* step whose tool.started is not in both sinks, no step succeeds without  *)
(* tool.completed in both, and none stops for want of evidence that both   *)
(* sinks took (LogChecked: one execution never consumes the error of       *)
(* another's event, or its success).                                       *)
(***************************************************************************)
Evident(s, phase) == <<s, phase>> \in journal /\ <<s, phase>> \in ernest

OwnEvidenceDecides ==
    \A s \in Steps :
        /\ step[s].acted => Evident(s, "started")
        /\ step[s].pc = "done" /\ step[s].result = "ok" => Evident(s, "completed")
        /\ step[s].result = "noevidence" => ~(step[s].written /\ step[s].accepted)

(***************************************************************************)
(* AOS never goes on from an attempt without having asked the MCP server   *)
(* to end the session it gave, whatever failed in between and however      *)
(* little time was left (mcpClient.close).                                 *)
(***************************************************************************)
SessionsEnded == \A s \in Steps : step[s].session => step[s].pc \in McpPcs

(***************************************************************************)
(* A remote agent's rejection is its answer: AOS sends it nothing more,    *)
(* and the step ends rejected, not failed (RejectedError).                 *)
(***************************************************************************)
RejectionIsFinal ==
    \A s \in Steps : step[s].told =>
        /\ step[s].pc \in {"ended", "done"} \cup LogPcs
        /\ step[s].result = "rejected"

(***************************************************************************)
(* A step ends, whatever the other side does, when a timeout limits it or  *)
(* when all it waits for is an answer to a request of safeClient           *)
(* (executeToolWithResiliency).                                            *)
(***************************************************************************)
Bounded(s) == limited[s] \/ kind[s] \in {"http", "mcp", "file"}

StepEnds == \A s \in Steps : Bounded(s) ~> (step[s].pc = "done")
=============================================================================
