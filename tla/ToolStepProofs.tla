--------------------------- MODULE ToolStepProofs ---------------------------
(***************************************************************************)
(* Theorems about ToolStep, for any number of steps and of retries.        *)
(*                                                                         *)
(* The argument is the mutex: a step between its write and its check holds *)
(* it, so Ernest's last error is that of the event the step has posted     *)
(* (Logging).  Once checked, the event is in both sinks, and what follows  *)
(* keeps it there (Covered).                                               *)
(***************************************************************************)
EXTENDS ToolStep, TLAPS

Held(r) == r.pc \in {"file", "post", "check"}

(***************************************************************************)
(* The step that logs holds the mutex, and knows what became of its event. *)
(***************************************************************************)
Logging(s) ==
    /\ Held(step[s]) => mu = s
    /\ step[s].pc \in {"post", "check"} /\ step[s].written => <<s, step[s].phase>> \in journal
    /\ step[s].pc = "check" =>
         /\ lastErr <=> ~step[s].accepted
         /\ step[s].accepted => <<s, step[s].phase>> \in ernest

(***************************************************************************)
(* What a step has come to, by where it is.                                *)
(***************************************************************************)
Known(r) ==
    /\ r.pc = "pending" => r.phase = "started" /\ r.result = "none"
    /\ r.pc = "close" => r.result \in {"ok", "error"}
    /\ r.pc = "ended" => r.result \in {"ok", "error", "rejected"}
    /\ r.pc = "backoff" => r.attempt < Retries
    /\ r.pc \in LogPcs /\ r.phase = "started" => r.result = "none"
    /\ r.pc \in LogPcs /\ r.phase = "completed" => r.result = "ok"
    /\ r.pc \in LogPcs /\ r.phase = "failed" => r.result \in {"error", "rejected"}
    /\ r.result = "noevidence" => r.pc = "done" /\ ~(r.written /\ r.accepted)
    /\ r.session => r.pc \in McpPcs
    /\ r.told => r.pc \in {"ended", "done"} \cup LogPcs /\ r.result = "rejected"

(***************************************************************************)
(* The evidence there is, by where the step is.                            *)
(***************************************************************************)
Calling(r) == r.pc \in CallPcs \cup {"backoff", "ended"}

Covered(s) ==
    /\ step[s].acted \/ Calling(step[s]) => Evident(s, "started")
    /\ step[s].pc = "done" /\ step[s].result = "ok" => Evident(s, "completed")

IInv ==
    /\ TypeOK
    /\ \A s \in Steps : Logging(s) /\ Known(step[s]) /\ Covered(s)

(***************************************************************************)
(* Initially no step has begun (NewVerifier and a run's fresh nodes).      *)
(***************************************************************************)
LEMMA InitIInv == Init => IInv
  <1> SUFFICES ASSUME Init PROVE IInv
    OBVIOUS
  <1> USE DEF Init
  <1>1. Pending \in Step
    BY ToolStepAssumption DEF Pending, Step, Pcs, LogPcs, CallPcs, McpPcs, Phases, Results,
                              ToolStepAssumption
  <1>2. TypeOK
    BY <1>1, ToolStepAssumption DEF TypeOK, ToolStepAssumption
  <1>3. ASSUME NEW s \in Steps PROVE Logging(s) /\ Known(step[s]) /\ Covered(s)
    BY DEF Logging, Known, Covered, Held, Calling, Pending, LogPcs, CallPcs, McpPcs
  <1> QED BY <1>2, <1>3 DEF IInv

(***************************************************************************)
(* A step leaves the others as they are: their evidence stays, and while   *)
(* one holds the mutex nothing else changes it or Ernest's last error.     *)
(***************************************************************************)
LEMMA OthersKept ==
  ASSUME IInv, NEW s \in Steps, NEW rec \in Step, step' = [step EXCEPT ![s] = rec],
         NEW t \in Steps, t # s,
         journal \subseteq journal', ernest \subseteq ernest',
         Held(step[t]) => mu' = mu /\ (lastErr' <=> lastErr)
  PROVE  Logging(t)' /\ Known(step[t])' /\ Covered(t)'
  <1>1. step'[t] = step[t]
    BY DEF IInv, TypeOK
  <1>2. Logging(t) /\ Known(step[t]) /\ Covered(t)
    BY DEF IInv
  <1>3. Logging(t)'
    BY <1>1, <1>2 DEF Logging, Held
  <1>4. Known(step[t])'
    BY <1>1, <1>2 DEF Known
  <1>5. Covered(t)'
    BY <1>1, <1>2 DEF Covered, Calling, Evident
  <1> QED BY <1>3, <1>4, <1>5

(***************************************************************************)
(* A step inside its calls moves on: nothing of it touches the sinks, its  *)
(* start is in them, and a rejection takes it to its end.                  *)
(***************************************************************************)
Onward(r) ==
    /\ Calling(r)
    /\ r.result # "noevidence"
    /\ r.pc = "close" => r.result \in {"ok", "error"}
    /\ r.pc = "ended" => r.result \in {"ok", "error", "rejected"}
    /\ r.pc = "backoff" => r.attempt < Retries
    /\ r.session => r.pc \in McpPcs
    /\ r.told => r.pc = "ended" /\ r.result = "rejected"

LEMMA CallKeeps ==
  ASSUME IInv, NEW s \in Steps, NEW rec \in Step, step' = [step EXCEPT ![s] = rec],
         UNCHANGED <<config, sinks, dag>>, Calling(step[s]), Onward(rec)
  PROVE  IInv'
  <1>1. step'[s] = rec
    BY DEF IInv, TypeOK
  <1>2. TypeOK'
    BY DEF IInv, TypeOK, config, sinks
  <1>3. Logging(s)'
    BY <1>1 DEF Logging, Held, Onward, Calling, CallPcs, McpPcs
  <1>4. Known(step[s])'
    BY <1>1 DEF Known, Onward, Calling, CallPcs, McpPcs, LogPcs
  <1>5. Covered(s)'
    <2>1. Evident(s, "started")
      BY DEF IInv, Covered
    <2>2. Evident(s, "started")'
      BY <2>1 DEF Evident, sinks
    <2> QED BY <1>1, <2>2 DEF Covered, Onward, Calling, CallPcs, McpPcs
  <1>6. ASSUME NEW t \in Steps, t # s PROVE Logging(t)' /\ Known(step[t])' /\ Covered(t)'
    <2>1. journal \subseteq journal' /\ ernest \subseteq ernest' /\ mu' = mu /\ lastErr' = lastErr
      BY DEF sinks
    <2> QED BY <1>6, <2>1, OthersKept
  <1>7. \A t \in Steps : Logging(t)' /\ Known(step[t])' /\ Covered(t)'
    BY <1>3, <1>4, <1>5, <1>6
  <1> QED BY <1>2, <1>7 DEF IInv

(***************************************************************************)
(* An attempt that comes to a result, in or out of a session.              *)
(***************************************************************************)
LEMMA ComeKeeps ==
  ASSUME IInv, NEW s \in Steps, step[s].pc \in CallPcs,
         NEW result \in {"ok", "error", "rejected"}, NEW session \in BOOLEAN,
         NEW acted \in BOOLEAN, ~session, Come(s, result, session, acted)
  PROVE  IInv'
  <1> DEFINE rec == [step[s] EXCEPT !.pc = IF Final(s, result) THEN "ended" ELSE "backoff",
                                    !.result = result, !.session = session,
                                    !.acted = @ \/ acted,
                                    !.told = @ \/ result = "rejected", !.expired = FALSE]
  <1>1. step[s] \in Step /\ Known(step[s])
    BY DEF IInv, TypeOK
  <1>2. ~step[s].told
    BY <1>1 DEF Known, CallPcs, McpPcs, LogPcs
  <1>3. (step[s].acted \/ acted) \in BOOLEAN /\ (step[s].told \/ result = "rejected") \in BOOLEAN
    BY Zenon
  <1>4. rec \in Step
    BY <1>1, <1>3 DEF Step, Pcs, Results
  <1>5. result = "rejected" => Final(s, result)
    BY DEF Final
  <1>9. ~Final(s, result) => step[s].attempt < Retries
    BY <1>1, ToolStepAssumption DEF Final, Step, ToolStepAssumption
  <1>6. Onward(rec)
    BY <1>1, <1>2, <1>5, <1>9 DEF Onward, Calling, Step
  <1>7. step' = [step EXCEPT ![s] = rec] /\ UNCHANGED <<config, sinks, dag>>
    BY DEF Come, Put
  <1>8. Calling(step[s])
    BY DEF Calling
  <1> HIDE DEF rec
  <1> QED BY <1>4, <1>6, <1>7, <1>8, CallKeeps

(***************************************************************************)
(* A conversation that goes on.                                            *)
(***************************************************************************)
LEMMA MoveKeeps ==
  ASSUME IInv, NEW s \in Steps, step[s].pc \in CallPcs, NEW pc \in CallPcs,
         NEW result \in {"none", "ok", "error"}, NEW session \in BOOLEAN,
         NEW acted \in BOOLEAN, session => pc \in McpPcs,
         pc = "close" => result # "none", Move(s, pc, result, session, acted)
  PROVE  IInv'
  <1> DEFINE rec == [step[s] EXCEPT !.pc = pc, !.result = result, !.session = session,
                                    !.acted = @ \/ acted]
  <1>1. step[s] \in Step /\ Known(step[s])
    BY DEF IInv, TypeOK
  <1>2. ~step[s].told
    BY <1>1 DEF Known, CallPcs, McpPcs, LogPcs
  <1>3. (step[s].acted \/ acted) \in BOOLEAN
    BY Zenon
  <1>4. rec \in Step
    BY <1>1, <1>3 DEF Step, Pcs, Results
  <1>5. Onward(rec)
    BY <1>1, <1>2 DEF Onward, Calling, Step, CallPcs, McpPcs
  <1>6. step' = [step EXCEPT ![s] = rec] /\ UNCHANGED <<config, sinks, dag>>
    BY DEF Move, Put
  <1>7. Calling(step[s])
    BY DEF Calling
  <1> HIDE DEF rec
  <1> QED BY <1>4, <1>5, <1>6, <1>7, CallKeeps
-----------------------------------------------------------------------------
(***************************************************************************)
(* The calls of each protocol.                                             *)
(***************************************************************************)
LEMMA StepTyped == IInv => \A s \in Steps : step[s] \in Step /\ Known(step[s])
  BY DEF IInv, TypeOK

(***************************************************************************)
(* A result outside a session ends the attempt, or the conversation goes   *)
(* on.                                                                     *)
(***************************************************************************)
LEMMA ResultKeeps ==
  ASSUME IInv, NEW s \in Steps, step[s].pc \in CallPcs \ McpPcs,
         NEW result \in {"ok", "error", "rejected"},
         NEW acted \in BOOLEAN, Come(s, result, step[s].session, acted)
  PROVE  IInv'
  <1>1. step[s] \in Step /\ ~step[s].session
    BY StepTyped DEF Known
  <1>2. step[s].session \in BOOLEAN
    BY <1>1 DEF Step
  <1>3. step[s].pc \in CallPcs
    OBVIOUS
  <1> QED BY <1>1, <1>2, <1>3, ComeKeeps

LEMMA OutsideKeeps ==
  ASSUME IInv, NEW s \in Steps, step[s].pc \in CallPcs \ McpPcs,
         NEW pc \in CallPcs \ McpPcs, NEW acted \in BOOLEAN,
         Move(s, pc, "none", step[s].session, acted)
  PROVE  IInv'
  <1>1. step[s] \in Step /\ ~step[s].session
    BY StepTyped DEF Known
  <1>2. step[s].session \in BOOLEAN
    BY <1>1 DEF Step
  <1>3. step[s].pc \in CallPcs /\ pc \in CallPcs /\ pc # "close"
    BY DEF McpPcs
  <1> QED BY <1>1, <1>2, <1>3, MoveKeeps

LEMMA RequestKeeps ==
  ASSUME IInv, NEW s \in Steps, Request(s) \/ Invoke(s)
  PROVE  IInv'
  <1>1. step[s].pc \in CallPcs \ McpPcs
    BY DEF Request, Invoke, CallPcs, McpPcs
  <1> QED BY <1>1, ResultKeeps DEF Request, Invoke

LEMMA RunKeeps ==
  ASSUME IInv, NEW s \in Steps,
         File(s) \/ executeLocalFileTool(s) \/ RefuseAgent(s) \/ ExecuteAgent(s)
  PROVE  IInv'
  <1>1. step[s].pc \in CallPcs \ McpPcs
    BY DEF File, executeLocalFileTool, RefuseLocal, Diff, RunTests, NoTests, RefuseAgent,
           ExecuteAgent, Local, CallPcs, McpPcs
  <1>2. \E result \in {"ok", "error"}, acted \in BOOLEAN :
          Come(s, result, step[s].session, acted)
    BY DEF File, executeLocalFileTool, RefuseLocal, Diff, RunTests, NoTests, RefuseAgent,
           ExecuteAgent
  <1> QED BY <1>1, <1>2, ResultKeeps

LEMMA ResolveKeeps ==
  ASSUME IInv, NEW s \in Steps, Resolve(s) PROVE IInv'
  <1>1. step[s].pc \in CallPcs \ McpPcs /\ "invoke" \in CallPcs \ McpPcs
    BY DEF Resolve, CallPcs, McpPcs
  <1>2. PICK acted \in BOOLEAN : \/ Move(s, "invoke", "none", step[s].session, acted)
                                 \/ Come(s, "error", step[s].session, acted)
    BY DEF Resolve
  <1> QED BY <1>1, <1>2, OutsideKeeps, ResultKeeps

LEMMA A2AKeeps ==
  ASSUME IInv, NEW s \in Steps, executeA2A(s) PROVE IInv'
  <1>1. step[s].pc \in CallPcs \ McpPcs /\ {"wait", "poll"} \subseteq CallPcs \ McpPcs
    BY DEF executeA2A, Message, Wait, Poll, CallPcs, McpPcs
  <1>2. \/ \E result \in {"ok", "error", "rejected"}, acted \in BOOLEAN :
             Come(s, result, step[s].session, acted)
        \/ \E pc \in {"wait", "poll"}, acted \in BOOLEAN :
             Move(s, pc, "none", step[s].session, acted)
    BY DEF executeA2A, Message, Wait, Poll
  <1> QED BY <1>1, <1>2, ResultKeeps, OutsideKeeps

LEMMA AbortKeeps ==
  ASSUME IInv, NEW s \in Steps, Abort(s) PROVE IInv'
  <1>1. step[s].pc \in CallPcs \ McpPcs
    BY DEF Abort, CallPcs, McpPcs
  <1>2. PICK acted \in BOOLEAN :
          Come(s, IF kind[s] = "tests" THEN "ok" ELSE "error", step[s].session,
               acted /\ step[s].pc # "resolve")
    BY DEF Abort
  <1>3. (acted /\ step[s].pc # "resolve") \in BOOLEAN
    BY Zenon
  <1>4. (IF kind[s] = "tests" THEN "ok" ELSE "error") \in {"ok", "error"}
    OBVIOUS
  <1> QED BY <1>1, <1>2, <1>3, <1>4, ResultKeeps

(***************************************************************************)
(* An MCP conversation: every way out of it is through its close.          *)
(***************************************************************************)
LEMMA InsideKeeps ==
  ASSUME IInv, NEW s \in Steps, step[s].pc \in McpPcs, NEW pc \in McpPcs,
         NEW result \in {"none", "ok", "error"}, NEW session \in BOOLEAN, NEW acted \in BOOLEAN,
         pc = "close" => result # "none", Move(s, pc, result, session, acted)
  PROVE  IInv'
  <1>1. step[s].pc \in CallPcs /\ pc \in CallPcs
    BY DEF CallPcs
  <1> QED BY <1>1, MoveKeeps

LEMMA MCPKeeps ==
  ASSUME IInv, NEW s \in Steps, executeMCP(s) PROVE IInv'
  <1>1. step[s] \in Step /\ Known(step[s]) /\ step[s].session \in BOOLEAN
    BY StepTyped DEF Step
  <1>2. step[s].pc \in McpPcs
    BY DEF executeMCP, Initialize, Initialized, List, Call, Close, McpPcs
  <1>3. CASE Initialize(s)
    <2>1. PICK given \in BOOLEAN, pc \in {"initialized", "list", "call", "close"},
               result \in {"none", "error"}, acted \in BOOLEAN :
            /\ pc = "close" => result = "error"
            /\ Move(s, pc, result, given \/ step[s].session, acted)
      BY <1>3 DEF Initialize
    <2>2. (given \/ step[s].session) \in BOOLEAN
      BY Zenon
    <2> QED BY <1>2, <2>1, <2>2, InsideKeeps DEF McpPcs
  <1>4. CASE Initialized(s) \/ List(s)
    <2>1. PICK pc \in {"list", "call", "close"}, result \in {"none", "error"}, acted \in BOOLEAN :
            /\ pc = "close" => result = "error"
            /\ Move(s, pc, result, step[s].session, acted)
      BY <1>4 DEF Initialized, List
    <2> QED BY <1>1, <1>2, <2>1, InsideKeeps DEF McpPcs
  <1>5. CASE Call(s)
    <2>1. PICK result \in {"ok", "error"}, acted \in BOOLEAN :
            Move(s, "close", result, step[s].session, acted)
      BY <1>5 DEF Call
    <2> QED BY <1>1, <1>2, <2>1, InsideKeeps DEF McpPcs
  <1>6. CASE Close(s)
    <2>1. step[s].result \in {"ok", "error", "rejected"} /\ step[s].pc \in CallPcs
      BY <1>1, <1>2, <1>6 DEF Close, Known, CallPcs
    <2>2. PICK session \in BOOLEAN, acted \in BOOLEAN :
            ~session /\ Come(s, step[s].result, session, acted)
      BY <1>6 DEF Close
    <2> QED BY <2>1, <2>2, ComeKeeps
  <1> QED BY <1>3, <1>4, <1>5, <1>6 DEF executeMCP
-----------------------------------------------------------------------------
(***************************************************************************)
(* The actions between the calls, which leave the sinks alone.             *)
(***************************************************************************)
LEMMA QuietKeeps ==
  ASSUME IInv, NEW s \in Steps, NEW rec \in Step, step' = [step EXCEPT ![s] = rec],
         UNCHANGED <<config, sinks>>, dag' \in Steps \cup {Nobody},
         ~Held(rec), Known(rec), rec.pc # "done",
         rec.acted \/ Calling(rec) => step[s].acted \/ Calling(step[s])
  PROVE  IInv'
  <1>1. step'[s] = rec
    BY DEF IInv, TypeOK
  <1>2. TypeOK'
    BY DEF IInv, TypeOK, config, sinks
  <1>3. Logging(s)'
    BY <1>1 DEF Logging, Held
  <1>4. Known(step[s])'
    BY <1>1
  <1>5. Covered(s)'
    <2>1. rec.acted \/ Calling(rec) => Evident(s, "started")
      BY DEF IInv, Covered
    <2>2. Evident(s, "started")' <=> Evident(s, "started")
      BY DEF Evident, sinks
    <2> QED BY <1>1, <2>1, <2>2 DEF Covered
  <1>6. ASSUME NEW t \in Steps, t # s PROVE Logging(t)' /\ Known(step[t])' /\ Covered(t)'
    <2>1. journal \subseteq journal' /\ ernest \subseteq ernest' /\ mu' = mu /\ lastErr' = lastErr
      BY DEF sinks
    <2> QED BY <1>6, <2>1, OthersKept
  <1>7. \A t \in Steps : Logging(t)' /\ Known(step[t])' /\ Covered(t)'
    BY <1>3, <1>4, <1>5, <1>6
  <1> QED BY <1>2, <1>7 DEF IInv

LEMMA BeginKeeps ==
  ASSUME IInv, NEW s \in Steps, Begin(s) PROVE IInv'
  <1> DEFINE rec == [step[s] EXCEPT !.pc = "lock"]
  <1>1. step[s] \in Step /\ Known(step[s]) /\ step[s].pc = "pending"
    BY StepTyped DEF Begin
  <1>2. rec \in Step /\ ~Held(rec) /\ rec.pc # "done"
    BY <1>1 DEF Step, Pcs, LogPcs, Held
  <1>3. Known(rec)
    BY <1>1 DEF Known, Step, LogPcs, McpPcs
  <1>4. rec.acted = step[s].acted /\ ~Calling(rec)
    BY <1>1 DEF Step, Calling, CallPcs, McpPcs
  <1>5. step' = [step EXCEPT ![s] = rec] /\ UNCHANGED <<config, sinks>> /\ dag' \in Steps \cup {Nobody}
    BY DEF Begin, Put, IInv, TypeOK
  <1> HIDE DEF rec
  <1> QED BY <1>2, <1>3, <1>4, <1>5, QuietKeeps

LEMMA EndKeeps ==
  ASSUME IInv, NEW s \in Steps, End(s) PROVE IInv'
  <1> DEFINE rec == [step[s] EXCEPT !.pc = "lock",
                       !.phase = IF step[s].result = "ok" THEN "completed" ELSE "failed"]
  <1>1. step[s] \in Step /\ Known(step[s]) /\ step[s].pc = "ended"
    BY StepTyped DEF End
  <1>2. rec \in Step /\ ~Held(rec) /\ rec.pc # "done"
    BY <1>1 DEF Step, Pcs, LogPcs, Held, Phases
  <1>3. Known(rec)
    BY <1>1 DEF Known, Step, LogPcs, McpPcs
  <1>4. rec.acted = step[s].acted /\ ~Calling(rec)
    BY <1>1 DEF Step, Calling, CallPcs, McpPcs
  <1>5. step' = [step EXCEPT ![s] = rec] /\ UNCHANGED <<config, sinks>> /\ dag' \in Steps \cup {Nobody}
    BY DEF End, Put
  <1> HIDE DEF rec
  <1> QED BY <1>2, <1>3, <1>4, <1>5, QuietKeeps

LEMMA ExpireKeeps ==
  ASSUME IInv, NEW s \in Steps, Expire(s) PROVE IInv'
  <1> DEFINE rec == [step[s] EXCEPT !.expired = TRUE]
  <1>1. step[s] \in Step /\ Known(step[s]) /\ step[s].pc \in CallPcs
    BY StepTyped DEF Expire
  <1>2. rec \in Step
    BY <1>1 DEF Step
  <1>3. Calling(step[s]) /\ Onward(rec)
    BY <1>1 DEF Known, Step, Onward, Calling, CallPcs, McpPcs, LogPcs
  <1>4. step' = [step EXCEPT ![s] = rec] /\ UNCHANGED <<config, sinks, dag>>
    BY DEF Expire, Put
  <1> HIDE DEF rec
  <1> QED BY <1>2, <1>3, <1>4, CallKeeps

LEMMA FirstCalls == \A k \in AllKinds : First[k] \in CallPcs \ {"close"}
  BY DEF First, AllKinds, CallPcs, McpPcs

LEMMA LockKeeps ==
  ASSUME IInv, NEW s \in Steps, Lock(s) PROVE IInv'
  <1> DEFINE rec == [step[s] EXCEPT !.pc = "file"]
  <1>1. step[s] \in Step /\ Known(step[s]) /\ Covered(s) /\ step[s].pc = "lock" /\ mu = Nobody
    BY StepTyped DEF Lock, Free, IInv
  <1>2. rec \in Step
    BY <1>1 DEF Step, Pcs, LogPcs
  <1>3. /\ step' = [step EXCEPT ![s] = rec] /\ mu' = s
        /\ UNCHANGED <<config, journalErr, lastErr, journal, ernest, dag>>
    BY DEF Lock, Put
  <1>4. step'[s] = rec
    BY <1>3 DEF IInv, TypeOK
  <1>5. TypeOK'
    BY <1>2, <1>3 DEF IInv, TypeOK, config
  <1>6. Logging(s)' /\ Known(step[s])' /\ Covered(s)'
    <2>1. Logging(s)'
      BY <1>1, <1>3, <1>4 DEF Logging, Held, Step
    <2>2. Known(step[s])'
      BY <1>1, <1>4 DEF Known, Step, LogPcs, McpPcs
    <2>3. Covered(s)'
      BY <1>1, <1>3, <1>4 DEF Covered, Calling, Step, CallPcs, McpPcs, Evident
    <2> QED BY <2>1, <2>2, <2>3
  <1>7. ASSUME NEW t \in Steps, t # s PROVE Logging(t)' /\ Known(step[t])' /\ Covered(t)'
    <2>1. ~Held(step[t])
      BY <1>1, ToolStepAssumption DEF IInv, Logging, ToolStepAssumption
    <2> HIDE DEF rec
    <2> QED BY <1>2, <1>3, <1>7, <2>1, OthersKept
  <1> QED BY <1>5, <1>6, <1>7 DEF IInv

(***************************************************************************)
(* A step waits to try again only when it has attempts left.               *)
(***************************************************************************)
LEMMA AgainKeeps ==
  ASSUME IInv, NEW s \in Steps, Again(s) PROVE IInv'
  <1> DEFINE rec == [step[s] EXCEPT !.pc = First[kind[s]], !.attempt = @ + 1]
  <1>1. step[s] \in Step /\ Known(step[s]) /\ step[s].pc = "backoff"
    BY StepTyped DEF Again
  <1>2. First[kind[s]] \in CallPcs \ {"close"}
    BY FirstCalls DEF IInv, TypeOK
  <1>3. step[s].attempt + 1 \in 0..Retries
    BY <1>1, ToolStepAssumption DEF Known, Step, ToolStepAssumption
  <1>4. rec \in Step
    BY <1>1, <1>2, <1>3 DEF Step, Pcs
  <1>5. ~step[s].session /\ ~step[s].told
    BY <1>1 DEF Known, McpPcs, LogPcs
  <1>6. Calling(step[s]) /\ Onward(rec)
    BY <1>1, <1>2, <1>5 DEF Known, Step, Onward, Calling, CallPcs, McpPcs
  <1>7. step' = [step EXCEPT ![s] = rec] /\ UNCHANGED <<config, sinks, dag>>
    BY DEF Again, Put
  <1> HIDE DEF rec
  <1> QED BY <1>4, <1>6, <1>7, CallKeeps
-----------------------------------------------------------------------------
(***************************************************************************)
(* The holder of the mutex writes, posts and checks.                       *)
(***************************************************************************)
LEMMA HolderAlone ==
  ASSUME IInv, NEW s \in Steps, Held(step[s]), NEW t \in Steps, t # s
  PROVE  ~Held(step[t])
  BY DEF IInv, Logging

LEMMA WriteKeeps ==
  ASSUME IInv, NEW s \in Steps, Write(s) PROVE IInv'
  <1>1. PICK written \in BOOLEAN :
          /\ written <=> ~journalErr'
          /\ step' = [step EXCEPT ![s] = [step[s] EXCEPT !.pc = "post", !.posts = 0,
                                                         !.written = written]]
    <2>1. (~journalErr') \in BOOLEAN
      BY Zenon
    <2> QED BY <2>1, Zenon DEF Write, Put
  <1> DEFINE rec == [step[s] EXCEPT !.pc = "post", !.posts = 0, !.written = written]
  <1>2. step[s] \in Step /\ Known(step[s]) /\ step[s].pc = "file" /\ Covered(s) /\ mu = s
    BY StepTyped DEF Write, IInv, Logging, Held
  <1>3. rec \in Step
    <2>1. 0 \in 0..1 /\ "post" \in Pcs
      BY DEF Pcs, LogPcs
    <2> QED BY <1>2, <2>1 DEF Step
  <1>4. /\ step' = [step EXCEPT ![s] = rec]
        /\ UNCHANGED <<config, mu, lastErr, ernest, dag>>
    BY <1>1 DEF Write
  <1>5. step'[s] = rec
    BY <1>4 DEF IInv, TypeOK
  <1>6. /\ journal' \in SUBSET (Steps \X Phases) /\ journal \subseteq journal'
        /\ written => <<s, step[s].phase>> \in journal'
    BY <1>1, <1>2 DEF Write, IInv, TypeOK, Step
  <1>7. journalErr' \in BOOLEAN
    BY DEF Write, IInv, TypeOK
  <1>8. TypeOK'
    BY <1>3, <1>4, <1>6, <1>7 DEF IInv, TypeOK, config
  <1>9. Logging(s)'
    BY <1>2, <1>4, <1>5, <1>6 DEF Logging, Held, Step
  <1>10. Known(step[s])'
    BY <1>2, <1>5 DEF Known, Step, LogPcs, McpPcs
  <1>11. Covered(s)'
    BY <1>2, <1>4, <1>5, <1>6 DEF Covered, Calling, Step, CallPcs, McpPcs, Evident
  <1>12. ASSUME NEW t \in Steps, t # s PROVE Logging(t)' /\ Known(step[t])' /\ Covered(t)'
    <2>1. ~Held(step[t])
      BY <1>2, <1>12, HolderAlone DEF Held
    <2> HIDE DEF rec
    <2> QED BY <1>3, <1>4, <1>6, <1>12, <2>1, OthersKept
  <1> QED BY <1>8, <1>9, <1>10, <1>11, <1>12 DEF IInv

LEMMA PostKeeps ==
  ASSUME IInv, NEW s \in Steps, Post(s) PROVE IInv'
  <1>1. step[s] \in Step /\ Known(step[s]) /\ step[s].pc = "post" /\ Covered(s) /\ Logging(s)
    BY StepTyped DEF Post, IInv
  <1>2. UNCHANGED <<config, mu, journalErr, journal, dag>> /\ mu = s
    BY <1>1 DEF Post, Logging, Held
  <1>3. ernest' \in SUBSET (Steps \X Phases) /\ ernest \subseteq ernest'
    BY <1>1 DEF Post, IInv, TypeOK, Step
  <1>4. ASSUME NEW t \in Steps, t # s PROVE ~Held(step[t])
    BY <1>1, <1>4, HolderAlone DEF Held
  <1>5. ASSUME NEW rec \in Step, step' = [step EXCEPT ![s] = rec], lastErr' \in BOOLEAN,
               Known(rec), Logging(s)', rec.pc \in {"post", "check"},
               rec.acted = step[s].acted
        PROVE  IInv'
    <2>1. step'[s] = rec
      BY <1>5 DEF IInv, TypeOK
    <2>2. TypeOK'
      BY <1>2, <1>3, <1>5 DEF IInv, TypeOK, config
    <2>3. Covered(s)'
      BY <1>1, <1>2, <1>3, <1>5, <2>1 DEF Covered, Calling, CallPcs, McpPcs, Evident
    <2>4. Known(step[s])'
      BY <2>1, <1>5
    <2>5. ASSUME NEW t \in Steps, t # s PROVE Logging(t)' /\ Known(step[t])' /\ Covered(t)'
      BY <1>2, <1>3, <1>4, <1>5, <2>5, OthersKept
    <2> QED BY <1>5, <2>2, <2>3, <2>4, <2>5 DEF IInv
  <1>6. PICK taken, learned \in BOOLEAN :
          /\ ernest' = IF taken THEN ernest \cup {<<s, step[s].phase>>} ELSE ernest
          /\ \/ /\ lastErr' = ~(taken /\ learned)
                /\ Put(s, [step[s] EXCEPT !.pc = "check", !.accepted = taken /\ learned])
             \/ /\ ~learned
                /\ step[s].posts = 0
                /\ Put(s, [step[s] EXCEPT !.posts = 1])
                /\ UNCHANGED lastErr
    BY DEF Post
  <1>7. CASE /\ lastErr' = ~(taken /\ learned)
             /\ Put(s, [step[s] EXCEPT !.pc = "check", !.accepted = taken /\ learned])
    <2>1. (taken /\ learned) \in BOOLEAN /\ lastErr' \in BOOLEAN
      BY <1>7, Zenon
    <2>2. PICK accepted \in BOOLEAN : accepted <=> taken /\ learned
      BY <2>1, Zenon
    <2> DEFINE rec == [step[s] EXCEPT !.pc = "check", !.accepted = accepted]
    <2>3. accepted = (taken /\ learned)
      BY <2>1, <2>2, Zenon
    <2>4. step' = [step EXCEPT ![s] = rec]
      BY <1>7, <2>3 DEF Put
    <2>5. rec \in Step
      BY <1>1 DEF Step, Pcs, LogPcs
    <2>6. step'[s] = rec
      BY <2>4 DEF IInv, TypeOK
    <2>7. (lastErr' <=> ~accepted) /\ (accepted => <<s, step[s].phase>> \in ernest')
      BY <1>6, <1>7, <2>2
    <2>8. Logging(s)'
      BY <1>1, <1>2, <2>6, <2>7 DEF Logging, Held, Step
    <2>9. Known(rec)
      BY <1>1 DEF Known, Step, LogPcs, McpPcs
    <2>10. rec.pc \in {"post", "check"} /\ rec.acted = step[s].acted
      BY <1>1 DEF Step
    <2> HIDE DEF rec
    <2> QED BY <1>5, <2>1, <2>4, <2>5, <2>8, <2>9, <2>10
  <1>8. CASE Put(s, [step[s] EXCEPT !.posts = 1]) /\ UNCHANGED lastErr
    <2> DEFINE rec == [step[s] EXCEPT !.posts = 1]
    <2>1. step' = [step EXCEPT ![s] = rec]
      BY <1>8 DEF Put
    <2>2. rec \in Step
      BY <1>1 DEF Step
    <2>3. step'[s] = rec
      BY <2>1 DEF IInv, TypeOK
    <2>4. Logging(s)'
      BY <1>1, <1>2, <2>3 DEF Logging, Held, Step
    <2>5. Known(rec)
      BY <1>1 DEF Known, Step, LogPcs, McpPcs
    <2>6. rec.pc \in {"post", "check"} /\ rec.acted = step[s].acted
      BY <1>1 DEF Step
    <2>7. lastErr' \in BOOLEAN
      BY <1>8 DEF IInv, TypeOK
    <2> HIDE DEF rec
    <2> QED BY <1>5, <2>1, <2>2, <2>4, <2>5, <2>6, <2>7
  <1> QED BY <1>6, <1>7, <1>8

(***************************************************************************)
(* What the check concludes from: the step's own event.                    *)
(***************************************************************************)
LEMMA CheckKeeps ==
  ASSUME IInv, NEW s \in Steps, Check(s) PROVE IInv'
  <1> DEFINE err == lastErr \/ ~step[s].written
             started == step[s].phase = "started"
  <1>1. /\ step[s] \in Step /\ Known(step[s]) /\ step[s].pc = "check"
        /\ Covered(s) /\ Logging(s) /\ mu = s
    BY StepTyped DEF Check, IInv, Logging, Held
  <1>2. /\ mu' = Nobody /\ dag' \in Steps \cup {Nobody}
        /\ UNCHANGED <<config, journalErr, lastErr, journal, ernest>>
    BY DEF Check, IInv, TypeOK
  <1>3. ~err => step[s].written /\ step[s].accepted /\ Evident(s, step[s].phase)
    BY <1>1 DEF Logging, Evident
  <1>4. err => ~(step[s].written /\ step[s].accepted)
    BY <1>1 DEF Logging
  <1>5. ASSUME NEW rec \in Step, step' = [step EXCEPT ![s] = rec], Known(rec), ~Held(rec),
               rec.acted \/ Calling(rec) => Evident(s, "started"),
               rec.pc = "done" /\ rec.result = "ok" => Evident(s, "completed")
        PROVE  IInv'
    <2>1. step'[s] = rec
      BY <1>5 DEF IInv, TypeOK
    <2>2. TypeOK'
      BY <1>2, <1>5 DEF IInv, TypeOK, config
    <2>3. Logging(s)' /\ Known(step[s])'
      BY <1>5, <2>1 DEF Logging, Held
    <2>4. \A p \in Phases : Evident(s, p)' <=> Evident(s, p)
      BY <1>2 DEF Evident
    <2>5. Covered(s)'
      BY <1>2, <1>5, <2>1 DEF Covered, Evident
    <2>6. ASSUME NEW t \in Steps, t # s PROVE Logging(t)' /\ Known(step[t])' /\ Covered(t)'
      <3>1. ~Held(step[t])
        BY <1>1, <2>6, HolderAlone DEF Held
      <3> QED BY <1>2, <1>5, <2>6, <3>1, OthersKept
    <2> QED BY <2>2, <2>3, <2>5, <2>6 DEF IInv
  <1>6. CASE started /\ ~err
    <2> DEFINE rec == [step[s] EXCEPT !.pc = First[kind[s]]]
    <2>1. First[kind[s]] \in CallPcs \ {"close"}
      BY FirstCalls DEF IInv, TypeOK
    <2>2. rec \in Step
      BY <1>1, <2>1 DEF Step, Pcs
    <2>3. step' = [step EXCEPT ![s] = rec]
      BY <1>6 DEF Check, Put
    <2>4. step[s].result = "none" /\ ~step[s].session /\ ~step[s].told
      BY <1>1, <1>6 DEF Known, LogPcs, McpPcs
    <2>5. Known(rec) /\ ~Held(rec) /\ rec.pc # "done"
      BY <1>1, <2>1, <2>4 DEF Known, Step, LogPcs, McpPcs, CallPcs, Held
    <2>6. Evident(s, "started")
      BY <1>3, <1>6
    <2> HIDE DEF rec
    <2> QED BY <1>5, <2>2, <2>3, <2>5, <2>6
  <1>7. CASE ~(started /\ ~err)
    <2> DEFINE result == IF err /\ step[s].phase # "failed" THEN "noevidence" ELSE step[s].result
               rec == [step[s] EXCEPT !.pc = "done", !.result = result]
    <2>1. result \in Results
      BY <1>1 DEF Step, Results
    <2>2. rec \in Step
      BY <1>1, <2>1 DEF Step, Pcs
    <2>3. step' = [step EXCEPT ![s] = rec]
      BY <1>7 DEF Check, Put
    <2>4. /\ rec.pc = "done" /\ rec.result = result /\ rec.acted = step[s].acted
          /\ rec.told = step[s].told /\ rec.session = step[s].session
          /\ rec.written = step[s].written /\ rec.accepted = step[s].accepted
      BY <1>1 DEF Step
    <2>5. step[s].phase \in Phases /\ ~step[s].session
      BY <1>1 DEF Step, Known, McpPcs
    <2>6. step[s].told => result = "rejected"
      BY <1>1, <2>5 DEF Known, LogPcs, Phases
    <2>7. result = "noevidence" => ~(step[s].written /\ step[s].accepted)
      BY <1>1, <1>4, <2>5 DEF Known, LogPcs, Phases
    <2>8. result = "ok" => ~err /\ step[s].phase = "completed"
      BY <1>1, <1>7, <2>5 DEF Known, LogPcs, Phases
    <2> HIDE DEF rec, result
    <2>9. Known(rec) /\ ~Held(rec)
      BY <2>4, <2>5, <2>6, <2>7 DEF Known, LogPcs, Held
    <2>10. rec.acted \/ Calling(rec) => Evident(s, "started")
      BY <1>1, <2>4 DEF Covered, Calling, CallPcs, McpPcs
    <2>11. rec.pc = "done" /\ rec.result = "ok" => Evident(s, "completed")
      BY <1>3, <2>4, <2>8
    <2> QED BY <1>5, <2>2, <2>3, <2>9, <2>10, <2>11
  <1> QED BY <1>6, <1>7
-----------------------------------------------------------------------------
(***************************************************************************)
(* Nothing that happens breaks the invariant.                              *)
(***************************************************************************)
LEMMA NextIInv == IInv /\ [Next]_vars => IInv'
  <1> SUFFICES ASSUME IInv, [Next]_vars PROVE IInv'
    OBVIOUS
  <1>1. CASE UNCHANGED vars
    BY <1>1 DEF vars, config, sinks, IInv, TypeOK, Logging, Covered, Evident
  <1>2. ASSUME NEW s \in Steps, Proceed(s) PROVE IInv'
    <2>1. CASE Begin(s) \/ Again(s) \/ End(s)
      BY <2>1, BeginKeeps, AgainKeeps, EndKeeps
    <2>2. CASE LogChecked(s)
      BY <2>2, LockKeeps, WriteKeeps, PostKeeps, CheckKeeps DEF LogChecked
    <2>3. CASE Request(s) \/ executeMCP(s) \/ executeA2A(s) \/ Abort(s)
      BY <2>3, RequestKeeps, MCPKeeps, A2AKeeps, AbortKeeps
    <2> QED BY <1>2, <2>1, <2>2, <2>3, RunKeeps DEF Proceed
  <1>3. ASSUME NEW s \in Steps, Answered(s) PROVE IInv'
    BY <1>3, ResolveKeeps, RequestKeeps, RunKeeps DEF Answered
  <1>4. ASSUME NEW s \in Steps, Expire(s) PROVE IInv'
    BY <1>4, ExpireKeeps
  <1> QED BY <1>1, <1>2, <1>3, <1>4 DEF Next

LEMMA SpecIInv == Spec => []IInv
  BY InitIInv, NextIInv, PTL DEF Spec

(***************************************************************************)
(* The variables keep their types.                                         *)
(***************************************************************************)
THEOREM ToolStepTypeCorrect == Spec => []TypeOK
  <1>1. IInv => TypeOK
    BY DEF IInv
  <1> QED BY <1>1, SpecIInv, PTL

(***************************************************************************)
(* Whether a step goes on is decided by its own event, in both sinks: with *)
(* any number of nodes that log at once, none acts, succeeds or stops on   *)
(* what became of another's (MultiLogger.LogChecked).                      *)
(***************************************************************************)
THEOREM EvidenceIsOwn == Spec => []OwnEvidenceDecides
  <1>1. IInv => OwnEvidenceDecides
    BY DEF IInv, OwnEvidenceDecides, Known, Covered
  <1> QED BY <1>1, SpecIInv, PTL

(***************************************************************************)
(* AOS asks for the end of each MCP session it was given before it goes on *)
(* (mcpClient.close).                                                      *)
(***************************************************************************)
THEOREM SessionsAreEnded == Spec => []SessionsEnded
  <1>1. IInv => SessionsEnded
    BY DEF IInv, SessionsEnded, Known
  <1> QED BY <1>1, SpecIInv, PTL

(***************************************************************************)
(* A rejection is not tried again, and nothing turns it into an error      *)
(* (RejectedError).                                                        *)
(***************************************************************************)
THEOREM RejectionsAreFinal == Spec => []RejectionIsFinal
  <1>1. IInv => RejectionIsFinal
    BY DEF IInv, RejectionIsFinal, Known
  <1> QED BY <1>1, SpecIInv, PTL
=============================================================================
