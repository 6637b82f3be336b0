--------------------------- MODULE DagRunProofs ---------------------------
(***************************************************************************)
(* Proofs about DagRun, for any pipelines, requests, inbox capacity and    *)
(* numbers of crashes.                                                     *)
(***************************************************************************)
EXTENDS DagRun, InboxLemmas, WellFoundedInduction, TLAPS

(***************************************************************************)
(* The step a name stands for is one of the pipeline's: of finitely many   *)
(* positions with that name there is a last one (executeDAG's node map).   *)
(***************************************************************************)
LEMMA LastPosition ==
    ASSUME NEW p \in Seq(Step), NEW n \in Ids(p)
    PROVE  \E i \in DOMAIN p : p[i].id = n /\ \A j \in DOMAIN p : p[j].id = n => j <= i
  <1> DEFINE T == {Len(p) - i : i \in {j \in DOMAIN p : p[j].id = n}}
             R == OpToRel(<, Nat)
  <1>1. Len(p) \in Nat /\ DOMAIN p = 1..Len(p)
    OBVIOUS
  <1>2. T \subseteq Nat
    BY <1>1
  <1>3. T # {}
    BY DEF Ids
  <1>4. PICK x \in T : \A y \in T : ~ (<<y, x>> \in R)
    <2> HIDE DEF T, R
    <2>1. IsWellFoundedOn(R, Nat)
      BY NatLessThanWellFounded DEF R
    <2> QED BY <2>1, <1>2, <1>3, WFMin
  <1>5. \A y \in T : x <= y
    <2> TAKE y \in T
    <2>1. x \in Nat /\ y \in Nat
      BY <1>2
    <2>2. ~ (y < x)
      BY <1>4, <2>1 DEF OpToRel
    <2> QED BY <2>1, <2>2
  <1>6. PICK i \in DOMAIN p : p[i].id = n /\ x = Len(p) - i
    BY <1>4
  <1>7. ASSUME NEW j \in DOMAIN p, p[j].id = n PROVE j <= i
    <2>1. Len(p) - j \in T
      BY <1>7
    <2>2. x <= Len(p) - j
      BY <1>5, <2>1
    <2> HIDE DEF T
    <2> QED BY <1>1, <1>6, <2>2
  <1> QED BY <1>6, <1>7

LEMMA StepOfType ==
    ASSUME NEW p \in Seq(Step), NEW n \in Ids(p)
    PROVE  \E i \in DOMAIN p : StepOf(p, n) = p[i] /\ p[i].id = n
  BY LastPosition DEF StepOf

(***************************************************************************)
(* What DagRun says of a step's names holds of those of the definition in  *)
(* hand.                                                                   *)
(***************************************************************************)
LEMMA LoadableType ==
    /\ Loadable \subseteq Seq(Step)
    /\ Gone \in Seq(Step)
    /\ \A p \in Loadable \cup {Gone} : Ids(p) \subseteq Names
  <1>1. Loadable \subseteq Pipelines
    BY DEF Loadable
  <1>2. Ids(Gone) = {}
    BY DEF Ids, Gone
  <1>3. \A p \in Pipelines : Ids(p) \subseteq Names
    BY DEF Names
  <1>4. Gone \in Seq(Step)
    BY DEF Gone
  <1> QED BY <1>1, <1>2, <1>3, <1>4, PipelinesAssumption DEF PipelinesAssumption

LEMMA OwnStep ==
    ASSUME steps \in Loadable \cup {Gone}, NEW n \in Ids(steps)
    PROVE  /\ n \in Names
           /\ S(n).kind \in Kinds
           /\ S(n).deps \in Seq(STRING)
           /\ S(n).kind = "gate" => S(n).gate \in Gates
  <1>1. steps \in Loadable
    BY DEF Ids, Gone
  <1>2. steps \in Pipelines /\ steps \in Seq(Step)
    BY <1>1, LoadableType DEF Loadable
  <1>3. PICK i \in DOMAIN steps : S(n) = steps[i]
    BY <1>2, StepOfType DEF S
  <1>4. steps[i] \in Step
    BY <1>2
  <1>5. S(n).kind \in Kinds /\ S(n).deps \in Seq(STRING)
    BY <1>3, <1>4 DEF Step
  <1>6. S(n).kind = "gate" => S(n).gate \in Gates
    BY <1>2, <1>3 DEF Gates
  <1> QED BY <1>5, <1>6, LoadableType

(***************************************************************************)
(* Records.                                                                *)
(***************************************************************************)
LEMMA BlankType == Blank \in ExecutionState
  BY DEF Blank, ExecutionState

LEMMA FailedType ==
    ASSUME NEW st \in ExecutionState
    PROVE  /\ Failed(st) \in ExecutionState
           /\ Failed(st).done = st.done
           /\ Failed(st).repeated = st.repeated
           /\ Failed(st).version = st.version
  BY DEF Failed, ExecutionState

LEMMA ReportedNames ==
    ASSUME NEW p \in Loadable \cup {Gone}
    PROVE  /\ Reported(p) \subseteq Ids(p) /\ Reported(p) \subseteq Names
           /\ Repeated(p) \subseteq Names
  <1>1. Repeated(p) \subseteq Reported(p)
    BY DEF Repeated, Reported
  <1>2. Reported(p) \subseteq Ids(p) /\ Ids(p) \subseteq Names
    BY LoadableType DEF Reported, BeforeAnalyst, Ids
  <1> QED BY <1>1, <1>2

LEMMA CompleteType ==
    ASSUME NEW st \in ExecutionState
    PROVE  /\ Complete(st) \in ExecutionState
           /\ Complete(st).done = IF Reported(st.version) # {} THEN Reported(st.version)
                                                              ELSE st.done
           /\ Complete(st).repeated = IF Reported(st.version) # {} THEN Repeated(st.version)
                                                                  ELSE st.repeated
           /\ Complete(st).version = st.version
  <1>1. Reported(st.version) \subseteq Names /\ Repeated(st.version) \subseteq Names
    BY ReportedNames DEF ExecutionState
  <1> QED BY <1>1 DEF Complete, ExecutionState

LEMMA PausedType ==
    ASSUME TypeOK, exec \in ExecutionState, NEW n \in Ids(steps), S(n).kind = "gate"
    PROVE  /\ Paused(n) \in ExecutionState
           /\ Paused(n).done = Completed
           /\ Paused(n).repeated = {}
           /\ Paused(n).version = exec.version
  <1>1. S(n).gate \in Gates
    BY OwnStep DEF TypeOK
  <1>2. Completed \subseteq Names
    BY LoadableType DEF TypeOK, Completed
  <1> QED BY <1>1, <1>2 DEF Paused, nextState, ExecutionState
-----------------------------------------------------------------------------
(***************************************************************************)
(* Type correctness needs to know where a record is a record and not the   *)
(* lack of one: the places that use a copy, and the holder of the mutex,   *)
(* who alone is between failTool's load and save.  And nothing happens to  *)
(* a task before its run_pipeline message is taken.                        *)
(***************************************************************************)
Locals ==
    /\ vpc \in {"approved", "rejected"} => vst \in ExecutionState
    /\ vpc \in {"load", "dag"} => store \in ExecutionState
    /\ vpc = "dag" => exec \in ExecutionState

FailPcs == {"failload", "failsave"}

Mutex ==
    vpc = "dag" => \A n \in Names :
        /\ n \notin Ids(steps) => node[n].pc = "done"
        /\ node[n].pc \in FailPcs => mu = n
        /\ node[n].pc = "failsave" => fst \in ExecutionState

Untouched ==
    /\ vpc = "idle" /\ vst = NoState /\ abox = 0 /\ analyst.pc = "idle" /\ called = {}
    /\ \A r \in Requests : req[r].pc = "new"

Fresh ==
    /\ ~submitted => inbox = <<>> /\ store = NoState /\ Untouched
    /\ \A i \in DOMAIN inbox : inbox[i] = "run_pipeline" =>
          inbox = <<"run_pipeline">> /\ store = Blank /\ Untouched

TypeInv == TypeOK /\ Locals /\ Mutex /\ Fresh

LEMMA InitTypeInv == Init => TypeInv
  <1> SUFFICES ASSUME Init PROVE TypeInv
    OBVIOUS
  <1>1. TypeOK
    <2>1. node \in [Names -> [pc : Places, status : Statuses]]
      BY DEF Init, NoNodes, Places, Statuses
    <2>2. analyst \in [pc : {"idle", "save"}, st : ExecutionState]
      BY BlankType DEF Init
    <2>3. req \in [Requests -> [pc : {"new", "admitted", "sent"}, op : Operations]]
      BY DEF Init, Operations
    <2>4. inbox \in Seq({"run_pipeline"} \cup Operations)
      BY DEF Init
    <2>5. closed \in [Names -> Nat]
      BY DEF Init
    <2>6. /\ steps \in Loadable \cup {Gone} /\ store \in ExecutionState \cup {NoState}
          /\ vst \in ExecutionState \cup {NoState} /\ exec \in ExecutionState \cup {NoState}
          /\ fst \in ExecutionState \cup {NoState} /\ mu \in Names \cup {Nobody}
      BY DEF Init
    <2>7. /\ submitted \in BOOLEAN /\ vpc \in {"idle", "approved", "rejected", "load", "dag"}
          /\ abox \in Nat /\ journal \in BOOLEAN /\ crashes \in Nat
          /\ called \subseteq Names /\ succeeded \subseteq Names
      BY DEF Init
    <2> QED BY <2>1, <2>2, <2>3, <2>4, <2>5, <2>6, <2>7 DEF TypeOK
  <1>2. Locals /\ Mutex
    BY DEF Init, Locals, Mutex
  <1>3. Fresh
    BY DEF Init, Fresh, Untouched
  <1> QED BY <1>1, <1>2, <1>3 DEF TypeInv

(***************************************************************************)
(* A decision is in the inbox or in hand only after the run has begun.     *)
(***************************************************************************)
LEMMA SendType ==
    ASSUME inbox \in Seq({"run_pipeline"} \cup Operations),
           NEW type \in {"run_pipeline"} \cup Operations, Send(type)
    PROVE  /\ inbox' \in Seq({"run_pipeline"} \cup Operations)
           /\ \A i \in DOMAIN inbox' : (i \in DOMAIN inbox /\ inbox'[i] = inbox[i])
                                       \/ (i = Len(inbox) + 1 /\ inbox'[i] = type)
           /\ inbox = <<>> => inbox' \in {<<>>, <<type>>}
  <1>1. CASE inbox' = inbox
    BY <1>1
  <1>2. CASE inbox' = Append(inbox, type)
    <2> DEFINE M == {"run_pipeline"} \cup Operations
    <2>1. inbox \in Seq(M) /\ type \in M
      OBVIOUS
    <2> HIDE DEF M
    <2>2. inbox' \in Seq(M)
      BY <1>2, <2>1
    <2>3. \A i \in DOMAIN inbox' : (i \in DOMAIN inbox /\ inbox'[i] = inbox[i])
                                  \/ (i = Len(inbox) + 1 /\ inbox'[i] = type)
      BY <1>2, <2>1
    <2>4. inbox = <<>> => inbox' = <<type>>
      BY <1>2
    <2> QED BY <2>2, <2>3, <2>4 DEF M
  <1> QED BY <1>1, <1>2 DEF Send

LEMMA ReceiveType ==
    ASSUME inbox \in Seq({"run_pipeline"} \cup Operations),
           NEW type \in {"run_pipeline"} \cup Operations, Receive(type)
    PROVE  /\ inbox' \in Seq({"run_pipeline"} \cup Operations)
           /\ \A i \in DOMAIN inbox' : i + 1 \in DOMAIN inbox /\ inbox'[i] = inbox[i + 1]
           /\ 1 \in DOMAIN inbox /\ inbox[1] = type
           /\ Len(inbox') = Len(inbox) - 1
  BY DEF Receive

(***************************************************************************)
(* What happens once the run has begun keeps Fresh.                        *)
(***************************************************************************)
Begun == submitted /\ \A i \in DOMAIN inbox : inbox[i] # "run_pipeline"

LEMMA BegunIsFresh == Begun' => Fresh'
  BY DEF Begun, Fresh

LEMMA TouchedIsBegun ==
    ASSUME Fresh, ~Untouched
    PROVE  Begun
  BY DEF Fresh, Begun
-----------------------------------------------------------------------------
(***************************************************************************)
(* A step's goroutine (executeDAG): it moves its node, and may save one    *)
(* record, close its channel, send a summary or take or give the mutex.    *)
(***************************************************************************)
LEMMA NodeStep ==
    ASSUME TypeInv, vpc = "dag", NEW n \in Ids(steps), runUnchanged' = runUnchanged,
           NEW pc \in Places, NEW status \in Statuses, Move(n, pc, status),
           store' \in ExecutionState, exec' \in ExecutionState,
           fst' \in ExecutionState \cup {NoState}, mu' \in Names \cup {Nobody},
           closed' \in [Names -> Nat], abox' \in Nat,
           called' \subseteq Names, succeeded' \subseteq Names,
           \A m \in Names \ {n} : node[m].pc \in FailPcs =>
               mu' = m /\ (node[m].pc = "failsave" => fst' \in ExecutionState),
           pc \in FailPcs => mu' = n /\ (pc = "failsave" => fst' \in ExecutionState)
    PROVE  TypeInv'
  <1> DEFINE rec == [pc |-> pc, status |-> status]
             N == [pc : Places, status : Statuses]
  <1>1. /\ steps' = steps /\ vpc' = vpc /\ submitted' = submitted /\ inbox' = inbox
        /\ vst' = vst /\ analyst' = analyst /\ req' = req /\ journal' = journal
        /\ crashes' = crashes
    BY DEF runUnchanged, envVars
  <1>2. rec \in N
    OBVIOUS
  <1>3. n \in Names
    BY OwnStep DEF TypeInv, TypeOK
  <1>4. node' = [node EXCEPT ![n] = rec] /\ node \in [Names -> N]
    BY DEF Move, TypeInv, TypeOK
  <1>5. rec.pc = pc
    OBVIOUS
  <1> HIDE DEF rec, N
  <1>6. node' \in [Names -> N] /\ node'[n] = rec
        /\ \A m \in Names \ {n} : node'[m] = node[m]
    BY <1>2, <1>3, <1>4
  <1>7. TypeOK'
    BY <1>1, <1>6 DEF TypeInv, TypeOK, N
  <1>8. Locals'
    BY <1>1 DEF Locals
  <1>9. Mutex'
    <2> SUFFICES ASSUME NEW m \in Names
                 PROVE  /\ m \notin Ids(steps) => node'[m].pc = "done"
                        /\ node'[m].pc \in FailPcs => mu' = m
                        /\ node'[m].pc = "failsave" => fst' \in ExecutionState
      BY <1>1 DEF Mutex
    <2>1. CASE m = n
      BY <2>1, <1>5, <1>6 DEF FailPcs
    <2>2. CASE m # n
      BY <2>2, <1>6 DEF FailPcs, TypeInv, Mutex
    <2> QED BY <2>1, <2>2
  <1>10. Fresh'
    <2>1. ~Untouched
      BY DEF Untouched
    <2>2. Begun
      BY <2>1, TouchedIsBegun DEF TypeInv
    <2>3. Begun'
      BY <2>2, <1>1 DEF Begun
    <2> QED BY <2>3, BegunIsFresh
  <1> QED BY <1>7, <1>8, <1>9, <1>10 DEF TypeInv

(***************************************************************************)
(* The holder of the mutex is alone in failTool.                           *)
(***************************************************************************)
LEMMA NobodyFails ==
    ASSUME TypeInv, vpc = "dag", mu = Nobody, NEW m \in Names
    PROVE  node[m].pc \notin FailPcs
  BY ValuesAssumption DEF ValuesAssumption, TypeInv, Mutex

LEMMA HolderFails ==
    ASSUME TypeInv, vpc = "dag", NEW n \in Names, node[n].pc \in FailPcs,
           NEW m \in Names \ {n}
    PROVE  node[m].pc \notin FailPcs /\ mu = n
  BY DEF TypeInv, Mutex

LEMMA AtOwn ==
    ASSUME TypeInv, NEW n \in Names, NEW pc \in Places \ {"done"}, At(n, pc)
    PROVE  n \in Ids(steps) /\ vpc = "dag" /\ node[n].pc = pc
  BY DEF At, TypeInv, Mutex

(***************************************************************************)
(* Close ends a step under the mutex; a record it saves is one.            *)
(***************************************************************************)
LEMMA CloseKeeps ==
    ASSUME TypeInv, vpc = "dag", mu = Nobody, mu' = Nobody, NEW n \in Ids(steps),
           runUnchanged' = runUnchanged, fst' = fst, called' = called,
           NEW status \in Statuses, Close(n, status),
           store' \in ExecutionState, exec' \in ExecutionState, abox' \in Nat
    PROVE  TypeInv'
  <1>1. Move(n, "done", status) /\ "done" \in Places /\ "done" \notin FailPcs
    BY DEF Close, Places, FailPcs
  <1>2. n \in Names
    BY OwnStep DEF TypeInv, TypeOK
  <1>3. closed' \in [Names -> Nat]
    BY <1>2 DEF Close, TypeInv, TypeOK
  <1>4. succeeded' \subseteq Names
    BY <1>2 DEF Close, TypeInv, TypeOK
  <1>5. \A m \in Names : node[m].pc \notin FailPcs
    BY NobodyFails
  <1>6. fst' \in ExecutionState \cup {NoState} /\ called' \subseteq Names
        /\ mu' \in Names \cup {Nobody}
    BY DEF TypeInv, TypeOK
  <1> QED BY <1>1, <1>3, <1>4, <1>5, <1>6, NodeStep

LEMMA LoggedType ==
    ASSUME TypeInv, vpc = "dag"
    PROVE  /\ store \in ExecutionState /\ exec \in ExecutionState /\ abox \in Nat
           /\ failAuditExecution => store' \in ExecutionState /\ exec' \in ExecutionState
           /\ LogOutcome => store' \in ExecutionState /\ exec' \in ExecutionState
  BY FailedType DEF TypeInv, TypeOK, Locals, failAuditExecution, LogOutcome
LEMMA GoroutineKeeps ==
    ASSUME TypeInv, NEW n \in Names, Goroutine(n)
    PROVE  TypeInv'
  <1> USE DEF Places, Statuses
  <1>1. ASSUME DependencyFails(n) PROVE TypeInv'
    <2>1. At(n, "wait") /\ mu = Nobody /\ mu' = Nobody
      BY <1>1 DEF DependencyFails, Locking
    <2>2. n \in Ids(steps) /\ vpc = "dag"
      BY <2>1, AtOwn
    <2>3. \E status \in Statuses : Close(n, status)
      BY <1>1 DEF DependencyFails
    <2>4. store' = store /\ exec' = exec /\ abox' = abox /\ fst' = fst /\ called' = called
          /\ runUnchanged' = runUnchanged
      BY <1>1 DEF DependencyFails
    <2> QED BY <2>1, <2>2, <2>3, <2>4, CloseKeeps, LoggedType
  <1>2. ASSUME Begin(n) PROVE TypeInv'
    <2>1. At(n, "wait") /\ mu = Nobody /\ mu' = Nobody
      BY <1>2 DEF Begin, Locking
    <2>2. n \in Ids(steps) /\ vpc = "dag"
      BY <2>1, AtOwn
    <2>3. PICK pc \in {"done", "ready"}, status \in {"success", "running"} : Move(n, pc, status)
      BY <1>2 DEF Begin
    <2>4. pc \in Places /\ pc \notin FailPcs /\ status \in Statuses
      BY DEF FailPcs
    <2>5. \A m \in Names : node[m].pc \notin FailPcs
      BY <2>1, <2>2, NobodyFails
    <2>6. store' = store /\ exec' = exec /\ abox' = abox /\ fst' = fst /\ closed' = closed
          /\ called' = called /\ succeeded' = succeeded /\ runUnchanged' = runUnchanged
      BY <1>2 DEF Begin, history
    <2>7. store' \in ExecutionState /\ exec' \in ExecutionState
      BY <2>2, <2>6, LoggedType
    <2>8. /\ fst' \in ExecutionState \cup {NoState} /\ mu' \in Names \cup {Nobody}
          /\ closed' \in [Names -> Nat] /\ abox' \in Nat
          /\ called' \subseteq Names /\ succeeded' \subseteq Names
      BY <2>1, <2>6 DEF TypeInv, TypeOK
    <2> QED BY <2>2, <2>3, <2>4, <2>5, <2>6, <2>7, <2>8, NodeStep
  <1>3. ASSUME SkipStep(n) PROVE TypeInv'
    <2>1. At(n, "ready") /\ mu = Nobody /\ mu' = Nobody
      BY <1>3 DEF SkipStep, Locking
    <2>2. n \in Ids(steps) /\ vpc = "dag"
      BY <2>1, AtOwn
    <2>3. PICK status \in {"skipped", "failed"} : Close(n, status)
      BY <1>3 DEF SkipStep
    <2>4. (store' = store /\ exec' = exec) \/ failAuditExecution
      BY <1>3 DEF SkipStep
    <2>5. abox' = abox /\ fst' = fst /\ called' = called /\ runUnchanged' = runUnchanged
      BY <1>3 DEF SkipStep
    <2> QED BY <2>1, <2>2, <2>3, <2>4, <2>5, CloseKeeps, LoggedType
  <1>4. ASSUME PassGate(n) \/ InternalTool(n) PROVE TypeInv'
    <2>1. At(n, "ready") /\ mu = Nobody /\ mu' = Nobody
      BY <1>4 DEF PassGate, InternalTool, Locking
    <2>2. n \in Ids(steps) /\ vpc = "dag"
      BY <2>1, AtOwn
    <2>3. /\ Close(n, "success") /\ store' = store /\ exec' = exec /\ abox' = abox /\ fst' = fst
          /\ called' = called /\ runUnchanged' = runUnchanged
      BY <1>4 DEF PassGate, InternalTool
    <2> QED BY <2>1, <2>2, <2>3, CloseKeeps, LoggedType
  <1>5. ASSUME PauseAtGate(n) PROVE TypeInv'
    <2>1. At(n, "ready") /\ mu = Nobody /\ mu' = Nobody
      BY <1>5 DEF PauseAtGate, Locking
    <2>2. n \in Ids(steps) /\ vpc = "dag"
      BY <2>1, AtOwn
    <2>3. PICK status \in {"paused", "failed"} : Close(n, status)
      BY <1>5 DEF PauseAtGate
    <2>4. S(n).kind = "gate" /\ (store' = Paused(n) \/ store' = Failed(Paused(n)))
      BY <1>5 DEF PauseAtGate
    <2>5. Paused(n) \in ExecutionState /\ exec \in ExecutionState
      BY <2>2, <2>4, PausedType DEF TypeInv, Locals
    <2>6. store' \in ExecutionState
      BY <2>4, <2>5, FailedType
    <2>7. /\ exec' = exec /\ abox' = abox /\ fst' = fst /\ called' = called
          /\ runUnchanged' = runUnchanged
      BY <1>5 DEF PauseAtGate
    <2> QED BY <2>1, <2>2, <2>3, <2>5, <2>6, <2>7, CloseKeeps, LoggedType
  <1>6. ASSUME SendToAnalyst(n) PROVE TypeInv'
    <2>1. At(n, "ready") /\ mu = Nobody /\ mu' = Nobody
      BY <1>6 DEF SendToAnalyst, Locking
    <2>2. n \in Ids(steps) /\ vpc = "dag"
      BY <2>1, AtOwn
    <2>3. /\ Close(n, "success") /\ store' = store /\ exec' = exec /\ fst' = fst
          /\ called' = called /\ runUnchanged' = runUnchanged
      BY <1>6 DEF SendToAnalyst
    <2>4. abox' \in Nat
      BY <1>6, BoundsAssumption DEF SendToAnalyst, Summarize, TypeInv, TypeOK
    <2> QED BY <2>1, <2>2, <2>3, <2>4, CloseKeeps, LoggedType
  <1>7. ASSUME StartTool(n) PROVE TypeInv'
    <2>1. At(n, "ready")
      BY <1>7 DEF StartTool
    <2>2. n \in Ids(steps) /\ vpc = "dag"
      BY <2>1, AtOwn
    <2>3. PICK pc \in {"calling", "unlogged"} : Move(n, pc, "running")
      BY <1>7 DEF StartTool
    <2>4. pc \in Places /\ pc \notin FailPcs
      BY DEF FailPcs
    <2>5. /\ (store' = store /\ exec' = exec) \/ failAuditExecution
          /\ called' = called \cup {n} \/ called' = called
      BY <1>7 DEF StartTool
    <2>6. /\ closed' = closed /\ mu' = mu /\ fst' = fst /\ abox' = abox
          /\ succeeded' = succeeded /\ runUnchanged' = runUnchanged
      BY <1>7 DEF StartTool
    <2>7. store' \in ExecutionState /\ exec' \in ExecutionState
      BY <2>2, <2>5, LoggedType
    <2>8. /\ fst' \in ExecutionState \cup {NoState} /\ mu' \in Names \cup {Nobody}
          /\ closed' \in [Names -> Nat] /\ abox' \in Nat
          /\ called' \subseteq Names /\ succeeded' \subseteq Names
      BY <2>5, <2>6 DEF TypeInv, TypeOK
    <2>9. \A m \in Names : node[m].pc \in FailPcs =>
              mu' = m /\ (node[m].pc = "failsave" => fst' \in ExecutionState)
      BY <2>2, <2>6 DEF TypeInv, Mutex
    <2> QED BY <2>2, <2>3, <2>4, <2>6, <2>7, <2>8, <2>9, NodeStep
  <1>8. ASSUME NotStarted(n) PROVE TypeInv'
    <2>1. At(n, "unlogged") /\ mu = Nobody /\ mu' = Nobody
      BY <1>8 DEF NotStarted, Locking
    <2>2. n \in Ids(steps) /\ vpc = "dag"
      BY <2>1, AtOwn
    <2>3. /\ Close(n, "failed") /\ store' = store /\ exec' = exec /\ abox' = abox /\ fst' = fst
          /\ called' = called /\ runUnchanged' = runUnchanged
      BY <1>8 DEF NotStarted
    <2> QED BY <2>1, <2>2, <2>3, CloseKeeps, LoggedType
  <1>9. ASSUME ToolSucceeds(n) \/ AgentFails(n) PROVE TypeInv'
    <2>1. At(n, "calling") /\ mu = Nobody /\ mu' = Nobody
      BY <1>9 DEF ToolSucceeds, AgentFails, Locking
    <2>2. n \in Ids(steps) /\ vpc = "dag"
      BY <2>1, AtOwn
    <2>3. PICK status \in {"success", "failed"} : Close(n, status)
      BY <1>9 DEF ToolSucceeds, AgentFails
    <2>4. LogOutcome /\ abox' = abox /\ fst' = fst /\ called' = called
          /\ runUnchanged' = runUnchanged
      BY <1>9 DEF ToolSucceeds, AgentFails
    <2> QED BY <2>1, <2>2, <2>3, <2>4, CloseKeeps, LoggedType
  <1>10. ASSUME ToolFails(n) PROVE TypeInv'
    <2>1. At(n, "calling") /\ mu = Nobody /\ mu' = n
      BY <1>10 DEF ToolFails
    <2>2. n \in Ids(steps) /\ vpc = "dag"
      BY <2>1, AtOwn
    <2>3. Move(n, "failload", "running") /\ LogOutcome
      BY <1>10 DEF ToolFails
    <2>4. \A m \in Names : node[m].pc \notin FailPcs
      BY <2>1, <2>2, NobodyFails
    <2>5. /\ closed' = closed /\ fst' = fst /\ abox' = abox /\ called' = called
          /\ succeeded' = succeeded /\ runUnchanged' = runUnchanged
      BY <1>10 DEF ToolFails, history
    <2>6. store' \in ExecutionState /\ exec' \in ExecutionState
      BY <2>2, <2>3, LoggedType
    <2>7. /\ fst' \in ExecutionState \cup {NoState} /\ mu' \in Names \cup {Nobody}
          /\ closed' \in [Names -> Nat] /\ abox' \in Nat
          /\ called' \subseteq Names /\ succeeded' \subseteq Names
      BY <2>1, <2>5 DEF TypeInv, TypeOK
    <2> QED BY <2>1, <2>2, <2>3, <2>4, <2>5, <2>6, <2>7, NodeStep
  <1>11. ASSUME LoadFailed(n) PROVE TypeInv'
    <2>1. At(n, "failload")
      BY <1>11 DEF LoadFailed
    <2>2. n \in Ids(steps) /\ vpc = "dag" /\ node[n].pc \in FailPcs
      BY <2>1, AtOwn DEF FailPcs
    <2>3. Move(n, "failsave", "running")
      BY <1>11 DEF LoadFailed
    <2>4. mu = n /\ \A m \in Names \ {n} : node[m].pc \notin FailPcs
      BY <2>2, HolderFails DEF TypeInv, Mutex
    <2>5. /\ store' = store /\ exec' = exec /\ mu' = mu
          /\ closed' = closed /\ abox' = abox /\ called' = called
          /\ succeeded' = succeeded /\ runUnchanged' = runUnchanged
      BY <1>11 DEF LoadFailed, history
    <2>6. store' \in ExecutionState /\ exec' \in ExecutionState
      BY <2>2, <2>5, LoggedType
    <2>7. fst' \in ExecutionState
      BY <1>11, <2>2, LoggedType DEF LoadFailed
    <2>8. /\ mu' \in Names \cup {Nobody}
          /\ closed' \in [Names -> Nat] /\ abox' \in Nat
          /\ called' \subseteq Names /\ succeeded' \subseteq Names
      BY <2>5 DEF TypeInv, TypeOK
    <2> QED BY <2>2, <2>3, <2>4, <2>5, <2>6, <2>7, <2>8, NodeStep
  <1>12. ASSUME SaveFailed(n) PROVE TypeInv'
    <2>1. At(n, "failsave") /\ mu' = Nobody /\ fst' = NoState
      BY <1>12 DEF SaveFailed
    <2>2. n \in Ids(steps) /\ vpc = "dag" /\ node[n].pc \in FailPcs /\ node[n].pc = "failsave"
      BY <2>1, AtOwn DEF FailPcs
    <2>3. Move(n, "done", "failed") /\ "done" \notin FailPcs
      BY <1>12 DEF SaveFailed, Close, FailPcs
    <2>4. \A m \in Names \ {n} : node[m].pc \notin FailPcs
      BY <2>2, HolderFails
    <2>5. exec' = exec /\ abox' = abox /\ called' = called /\ runUnchanged' = runUnchanged
      BY <1>12 DEF SaveFailed
    <2>6. fst \in ExecutionState
      BY <2>2 DEF TypeInv, Mutex
    <2>7. store' \in ExecutionState
      BY <1>12, <2>6 DEF SaveFailed, ExecutionState
    <2>8. closed' \in [Names -> Nat] /\ succeeded' \subseteq Names
      BY <1>12 DEF SaveFailed, Close, TypeInv, TypeOK
    <2>9. /\ fst' \in ExecutionState \cup {NoState} /\ mu' \in Names \cup {Nobody}
          /\ abox' \in Nat /\ called' \subseteq Names
      BY <2>1, <2>5 DEF TypeInv, TypeOK
    <2>10. exec' \in ExecutionState
      BY <2>2, <2>5, LoggedType
    <2> QED BY <2>2, <2>3, <2>4, <2>5, <2>7, <2>8, <2>9, <2>10, NodeStep
  <1> QED BY <1>1, <1>2, <1>3, <1>4, <1>5, <1>6, <1>7, <1>8, <1>9, <1>10, <1>11, <1>12
          DEF Goroutine
-----------------------------------------------------------------------------
(***************************************************************************)
(* The planner, the verifier's messages, and the run's beginning and end.  *)
(***************************************************************************)
LEMMA DispatchKeeps == TypeInv /\ DispatchPipeline => TypeInv'
  <1> SUFFICES ASSUME TypeInv, DispatchPipeline PROVE TypeInv'
    OBVIOUS
  <1>1. /\ Untouched /\ inbox = <<>> /\ store' = Blank /\ submitted' = TRUE
        /\ Send("run_pipeline")
    BY DEF DispatchPipeline, TypeInv, Fresh
  <1>2. /\ inbox' \in Seq({"run_pipeline"} \cup Operations)
        /\ inbox' \in {<<>>, <<"run_pipeline">>}
    BY <1>1, SendType DEF TypeInv, TypeOK
  <1>3. /\ steps' = steps /\ vpc' = vpc /\ vst' = vst /\ exec' = exec /\ node' = node
        /\ closed' = closed /\ mu' = mu /\ fst' = fst /\ analyst' = analyst /\ abox' = abox
        /\ req' = req /\ journal' = journal /\ crashes' = crashes
        /\ called' = called /\ succeeded' = succeeded
    BY DEF DispatchPipeline, dagVars, analystVars, envVars, history
  <1>4. TypeOK'
    BY <1>1, <1>2, <1>3, BlankType DEF TypeInv, TypeOK
  <1>5. Locals' /\ Mutex'
    BY <1>1, <1>3 DEF Locals, Mutex, Untouched
  <1>6. Untouched'
    BY <1>1, <1>3 DEF Untouched
  <1>7. Fresh'
    BY <1>1, <1>2, <1>6 DEF Fresh
  <1> QED BY <1>4, <1>5, <1>7 DEF TypeInv

LEMMA RunPipelineKeeps == TypeInv /\ handleRunPipeline => TypeInv'
  <1> SUFFICES ASSUME TypeInv, handleRunPipeline PROVE TypeInv'
    OBVIOUS
  <1> DEFINE st == [store EXCEPT !.version = steps]
  <1>1. Receive("run_pipeline") /\ vpc = "idle"
    BY DEF handleRunPipeline, Receive
  <1>2. /\ inbox' \in Seq({"run_pipeline"} \cup Operations)
        /\ 1 \in DOMAIN inbox /\ inbox[1] = "run_pipeline"
        /\ Len(inbox') = Len(inbox) - 1
    BY <1>1, ReceiveType DEF TypeInv, TypeOK
  <1>3. inbox = <<"run_pipeline">> /\ store = Blank /\ submitted
    BY <1>2 DEF TypeInv, Fresh
  <1>4. st \in ExecutionState
    BY <1>3, BlankType DEF ExecutionState, TypeInv, TypeOK
  <1>5. /\ (store' = st /\ vpc' = "load") \/ (store' = Failed(st) /\ vpc' = vpc)
    BY DEF handleRunPipeline
  <1>6. /\ steps' = steps /\ vst' = vst /\ exec' = exec /\ node' = node
        /\ closed' = closed /\ mu' = mu /\ fst' = fst /\ analyst' = analyst /\ abox' = abox
        /\ req' = req /\ journal' = journal /\ crashes' = crashes
        /\ called' = called /\ succeeded' = succeeded /\ submitted' = submitted
    BY DEF handleRunPipeline, dagVars, analystVars, envVars, history
  <1> HIDE DEF st
  <1>7. store' \in ExecutionState /\ vpc' \in {"idle", "load"}
    BY <1>1, <1>4, <1>5, FailedType
  <1>8. TypeOK'
    BY <1>2, <1>6, <1>7 DEF TypeInv, TypeOK
  <1>9. Locals' /\ Mutex'
    BY <1>7 DEF Locals, Mutex
  <1>10. Len(inbox) = 1
    BY <1>3
  <1>11. Begun'
    BY <1>2, <1>3, <1>6, <1>10 DEF Begun
  <1> QED BY <1>8, <1>9, <1>11, BegunIsFresh DEF TypeInv

LEMMA HumanDecisionKeeps ==
    ASSUME TypeInv, NEW decision \in Operations, handleHumanDecision(decision)
    PROVE  TypeInv'
  <1>1. Receive(decision) /\ vpc = "idle" /\ decision # "run_pipeline"
    BY DEF handleHumanDecision, Receive, Operations
  <1>2. /\ inbox' \in Seq({"run_pipeline"} \cup Operations)
        /\ \A i \in DOMAIN inbox' : i + 1 \in DOMAIN inbox /\ inbox'[i] = inbox[i + 1]
        /\ 1 \in DOMAIN inbox /\ inbox[1] = decision
    BY <1>1, ReceiveType DEF TypeInv, TypeOK
  <1>3. /\ steps' = steps /\ exec' = exec /\ node' = node /\ store' = store
        /\ closed' = closed /\ mu' = mu /\ fst' = fst /\ analyst' = analyst /\ abox' = abox
        /\ req' = req /\ journal' = journal /\ crashes' = crashes
        /\ called' = called /\ succeeded' = succeeded /\ submitted' = submitted
    BY DEF handleHumanDecision, dagVars, analystVars, envVars, history
  <1>4. \/ vpc' = vpc /\ vst' = vst
        \/ vpc' = decision /\ vst' = store /\ store \in ExecutionState
    BY DEF handleHumanDecision, TypeInv, TypeOK
  <1>5. vpc' \in {"idle", "approved", "rejected"}
    BY <1>1, <1>4 DEF Operations
  <1>6. vst' \in ExecutionState \cup {NoState}
    BY <1>4 DEF TypeInv, TypeOK
  <1>7. TypeOK'
    BY <1>2, <1>3, <1>5, <1>6 DEF TypeInv, TypeOK
  <1>8. Locals' /\ Mutex'
    BY <1>1, <1>4, <1>5 DEF Locals, Mutex
  <1>9. submitted
    BY <1>2 DEF TypeInv, Fresh
  <1>10. \A i \in DOMAIN inbox : inbox[i] # "run_pipeline"
    BY <1>1, <1>2 DEF TypeInv, Fresh
  <1>11. Begun'
    BY <1>2, <1>3, <1>9, <1>10 DEF Begun
  <1> QED BY <1>7, <1>8, <1>11, BegunIsFresh DEF TypeInv

LEMMA SaveDecisionKeeps == TypeInv /\ SaveDecision => TypeInv'
  <1> SUFFICES ASSUME TypeInv, SaveDecision PROVE TypeInv'
    OBVIOUS
  <1>1. vpc \in {"approved", "rejected"} /\ vst \in ExecutionState
    BY DEF SaveDecision, TypeInv, Locals
  <1>2. [vst EXCEPT !.status = "rejected", !.gate = ""] \in ExecutionState
    BY <1>1 DEF ExecutionState
  <1>3. /\ steps' = steps /\ exec' = exec /\ node' = node /\ inbox' = inbox
        /\ closed' = closed /\ mu' = mu /\ fst' = fst /\ analyst' = analyst /\ abox' = abox
        /\ req' = req /\ journal' = journal /\ crashes' = crashes /\ vst' = NoState
        /\ called' = called /\ succeeded' = succeeded /\ submitted' = submitted
    BY DEF SaveDecision, dagVars, analystVars, envVars, history
  <1>4. \/ store' = NoState /\ vpc' = "idle"
        \/ store' \in ExecutionState /\ vpc' \in {"idle", "load"}
    BY <1>1, <1>2, FailedType DEF SaveDecision, resumeFromState
  <1>5. TypeOK'
    BY <1>3, <1>4 DEF TypeInv, TypeOK
  <1>6. Locals' /\ Mutex'
    BY <1>4 DEF Locals, Mutex
  <1>7. Begun
    BY <1>1, TouchedIsBegun DEF TypeInv, Untouched
  <1>8. Begun'
    BY <1>3, <1>7 DEF Begun
  <1> QED BY <1>5, <1>6, <1>8, BegunIsFresh DEF TypeInv

LEMMA LoadStateKeeps == TypeInv /\ LoadState => TypeInv'
  <1> SUFFICES ASSUME TypeInv, LoadState PROVE TypeInv'
    OBVIOUS
  <1> DEFINE Initial(n) == IF n \notin Ids(steps) THEN NoNodes[n]
                           ELSE [pc |-> "wait",
                                 status |-> IF n \in store.done THEN "success" ELSE "pending"]
  <1>1. /\ vpc = "load" /\ vpc' = "dag" /\ exec' = store /\ store' = store
        /\ node' = [n \in Names |-> Initial(n)]
        /\ closed' = [n \in Names |-> IF n \in Ids(steps) \cap store.done THEN 1 ELSE 0]
    BY DEF LoadState
  <1>2. /\ steps' = steps /\ inbox' = inbox /\ vst' = vst
        /\ mu' = mu /\ fst' = fst /\ analyst' = analyst /\ abox' = abox
        /\ req' = req /\ journal' = journal /\ crashes' = crashes
        /\ called' = called /\ succeeded' = succeeded /\ submitted' = submitted
    BY DEF LoadState, analystVars, envVars, history
  <1>3. store \in ExecutionState
    BY <1>1 DEF TypeInv, Locals
  <1>4. \A n \in Names : /\ Initial(n) \in [pc : Places, status : Statuses]
                         /\ Initial(n).pc \in {"wait", "done"}
                         /\ n \notin Ids(steps) => Initial(n).pc = "done"
    BY DEF NoNodes, Places, Statuses
  <1> HIDE DEF Initial
  <1>5. node' \in [Names -> [pc : Places, status : Statuses]]
        /\ \A n \in Names : node'[n] = Initial(n)
    BY <1>1, <1>4
  <1>6. closed' \in [Names -> Nat]
    BY <1>1
  <1>7. TypeOK'
    BY <1>1, <1>2, <1>3, <1>5, <1>6 DEF TypeInv, TypeOK
  <1>8. Locals' /\ Mutex'
    BY <1>1, <1>2, <1>3, <1>4, <1>5 DEF Locals, Mutex, FailPcs
  <1>9. Begun
    BY <1>1, TouchedIsBegun DEF TypeInv, Untouched
  <1>10. Begun'
    BY <1>2, <1>9 DEF Begun
  <1> QED BY <1>7, <1>8, <1>10, BegunIsFresh DEF TypeInv

LEMMA LoadPanicsKeeps == TypeInv /\ LoadPanics => TypeInv'
  <1> SUFFICES ASSUME TypeInv, LoadPanics PROVE TypeInv'
    OBVIOUS
  <1>1. /\ vpc = "load" /\ vpc' = "idle" /\ exec' = exec
        /\ steps' = steps /\ inbox' = inbox /\ vst' = vst /\ store' = store /\ node' = node
        /\ mu' = mu /\ fst' = fst /\ analyst' = analyst /\ abox' = abox
        /\ req' = req /\ journal' = journal /\ crashes' = crashes
        /\ called' = called /\ succeeded' = succeeded /\ submitted' = submitted
    BY DEF LoadPanics, analystVars, envVars, history
  <1>2. closed' \in [Names -> Nat]
    BY DEF LoadPanics
  <1>3. TypeOK'
    BY <1>1, <1>2 DEF TypeInv, TypeOK
  <1>4. Locals' /\ Mutex'
    BY <1>1 DEF Locals, Mutex
  <1>5. Begun
    BY <1>1, TouchedIsBegun DEF TypeInv, Untouched
  <1>6. Begun'
    BY <1>1, <1>5 DEF Begun
  <1> QED BY <1>3, <1>4, <1>6, BegunIsFresh DEF TypeInv

LEMMA FinishKeeps == TypeInv /\ Finish => TypeInv'
  <1> SUFFICES ASSUME TypeInv, Finish PROVE TypeInv'
    OBVIOUS
  <1>1. /\ vpc = "dag" /\ vpc' = "idle" /\ exec' = NoState
        /\ steps' = steps /\ inbox' = inbox /\ vst' = vst /\ store' = store /\ node' = node
        /\ closed' = closed /\ mu' = mu /\ fst' = fst /\ analyst' = analyst
        /\ req' = req /\ journal' = journal /\ crashes' = crashes
        /\ called' = called /\ succeeded' = succeeded /\ submitted' = submitted
    BY DEF Finish, envVars, history
  <1>2. abox' \in Nat
    BY BoundsAssumption DEF Finish, Summarize, TypeInv, TypeOK
  <1>3. TypeOK'
    BY <1>1, <1>2 DEF TypeInv, TypeOK
  <1>4. Locals' /\ Mutex'
    BY <1>1 DEF Locals, Mutex
  <1>5. Begun
    BY <1>1, TouchedIsBegun DEF TypeInv, Untouched
  <1>6. Begun'
    BY <1>1, <1>5 DEF Begun
  <1> QED BY <1>3, <1>4, <1>6, BegunIsFresh DEF TypeInv
-----------------------------------------------------------------------------
(***************************************************************************)
(* The analyst, the API, the journal and a crash.                          *)
(***************************************************************************)
LEMMA AnalystKeeps == TypeInv /\ Analyst => TypeInv'
  <1> SUFFICES ASSUME TypeInv, Analyst PROVE TypeInv'
    OBVIOUS
  <1> DEFINE A == [pc : {"idle", "save"}, st : ExecutionState]
  <1>1. /\ steps' = steps /\ inbox' = inbox /\ vst' = vst /\ vpc' = vpc /\ exec' = exec
        /\ node' = node /\ closed' = closed /\ mu' = mu /\ fst' = fst
        /\ req' = req /\ journal' = journal /\ crashes' = crashes
        /\ called' = called /\ succeeded' = succeeded /\ submitted' = submitted
    BY DEF Analyst, LoadCompletion, SaveCompletion, dagVars, envVars, history
  <1>2. abox' \in Nat
    BY DEF Analyst, LoadCompletion, SaveCompletion, TypeInv, TypeOK
  <1>3. ~Untouched
    BY DEF Analyst, LoadCompletion, SaveCompletion, Untouched
  <1>4. analyst \in A /\ analyst.st \in ExecutionState
    BY DEF TypeInv, TypeOK
  <1>5. store' \in ExecutionState \cup {NoState} /\ (store \in ExecutionState => store' \in ExecutionState)
    BY <1>4, CompleteType DEF Analyst, LoadCompletion, SaveCompletion, TypeInv, TypeOK
  <1>6. analyst' \in A
    BY BlankType DEF Analyst, LoadCompletion, SaveCompletion, TypeInv, TypeOK
  <1>7. TypeOK'
    BY <1>1, <1>2, <1>5, <1>6 DEF TypeInv, TypeOK
  <1>8. Locals' /\ Mutex'
    BY <1>1, <1>5 DEF TypeInv, Locals, Mutex
  <1>9. Begun
    BY <1>3, TouchedIsBegun DEF TypeInv
  <1>10. Begun'
    BY <1>1, <1>9 DEF Begun
  <1> QED BY <1>7, <1>8, <1>10, BegunIsFresh DEF TypeInv

LEMMA ReadDecisionKeeps ==
    ASSUME TypeInv, NEW r \in Requests, NEW op \in Operations, ReadDecision(r, op)
    PROVE  TypeInv'
  <1> DEFINE R == [pc : {"new", "admitted", "sent"}, op : Operations]
             rec == [pc |-> "admitted", op |-> op]
  <1>1. /\ steps' = steps /\ inbox' = inbox /\ vst' = vst /\ vpc' = vpc /\ exec' = exec
        /\ node' = node /\ closed' = closed /\ mu' = mu /\ fst' = fst /\ store' = store
        /\ abox' = abox /\ analyst' = analyst /\ journal' = journal /\ crashes' = crashes
        /\ called' = called /\ succeeded' = succeeded /\ submitted' = submitted
    BY DEF ReadDecision, dagVars, analystVars, envVars, history
  <1>2. rec \in R /\ req \in [Requests -> R]
    BY DEF TypeInv, TypeOK
  <1>3. req' = [req EXCEPT ![r] = rec]
    BY DEF ReadDecision
  <1> HIDE DEF rec, R
  <1>4. req' \in [Requests -> R]
    BY <1>2, <1>3
  <1>5. TypeOK'
    BY <1>1, <1>4 DEF TypeInv, TypeOK, R
  <1>6. Locals' /\ Mutex'
    BY <1>1 DEF TypeInv, Locals, Mutex
  <1>7. store # NoState /\ store # Blank
    <2>1. store # NoState /\ store.gate # ""
      BY DEF ReadDecision
    <2>2. Blank.gate = ""
      BY DEF Blank
    <2> QED BY <2>1, <2>2
  <1>8. Begun
    BY <1>7 DEF TypeInv, Fresh, Begun
  <1>9. Begun'
    BY <1>1, <1>8 DEF Begun
  <1> QED BY <1>5, <1>6, <1>9, BegunIsFresh DEF TypeInv

LEMMA SendDecisionKeeps ==
    ASSUME TypeInv, NEW r \in Requests, SendDecision(r)
    PROVE  TypeInv'
  <1> DEFINE R == [pc : {"new", "admitted", "sent"}, op : Operations]
             rec == [req[r] EXCEPT !.pc = "sent"]
  <1>1. /\ steps' = steps /\ vst' = vst /\ vpc' = vpc /\ exec' = exec
        /\ node' = node /\ closed' = closed /\ mu' = mu /\ fst' = fst /\ store' = store
        /\ abox' = abox /\ analyst' = analyst /\ journal' = journal /\ crashes' = crashes
        /\ called' = called /\ succeeded' = succeeded /\ submitted' = submitted
    BY DEF SendDecision, dagVars, analystVars, envVars, history
  <1>2. req \in [Requests -> R] /\ req[r] \in R
    BY DEF TypeInv, TypeOK
  <1>3. rec \in R /\ req[r].op \in Operations
    BY <1>2
  <1>4. req' = [req EXCEPT ![r] = rec]
    BY DEF SendDecision
  <1> HIDE DEF rec, R
  <1>5. req' \in [Requests -> R]
    BY <1>2, <1>3, <1>4
  <1>6. /\ inbox' \in Seq({"run_pipeline"} \cup Operations)
        /\ \A i \in DOMAIN inbox' : (i \in DOMAIN inbox /\ inbox'[i] = inbox[i])
                                    \/ (i = Len(inbox) + 1 /\ inbox'[i] = req[r].op)
    BY <1>3, SendType DEF TypeInv, TypeOK, SendDecision
  <1>7. TypeOK'
    BY <1>1, <1>5, <1>6 DEF TypeInv, TypeOK, R
  <1>8. Locals' /\ Mutex'
    BY <1>1 DEF TypeInv, Locals, Mutex
  <1>9. Begun
    BY TouchedIsBegun DEF TypeInv, Untouched, SendDecision
  <1>10. req[r].op # "run_pipeline"
    BY <1>3 DEF Operations
  <1>11. Begun'
    BY <1>1, <1>6, <1>9, <1>10 DEF Begun
  <1> QED BY <1>7, <1>8, <1>11, BegunIsFresh DEF TypeInv

LEMMA JournalKeeps == TypeInv /\ BreakJournal => TypeInv'
  <1> SUFFICES ASSUME TypeInv, BreakJournal PROVE TypeInv'
    OBVIOUS
  <1>1. /\ steps' = steps /\ inbox' = inbox /\ vst' = vst /\ vpc' = vpc /\ exec' = exec
        /\ node' = node /\ closed' = closed /\ mu' = mu /\ fst' = fst /\ store' = store
        /\ abox' = abox /\ analyst' = analyst /\ journal' = FALSE /\ crashes' = crashes
        /\ req' = req /\ called' = called /\ succeeded' = succeeded /\ submitted' = submitted
    BY DEF BreakJournal, dagVars, analystVars, history
  <1>2. TypeOK'
    BY <1>1 DEF TypeInv, TypeOK
  <1> QED BY <1>1, <1>2 DEF TypeInv, Locals, Mutex, Fresh, Untouched

LEMMA CrashKeeps == TypeInv /\ Crash => TypeInv'
  <1> SUFFICES ASSUME TypeInv, Crash PROVE TypeInv'
    OBVIOUS
  <1> DEFINE R == [pc : {"new", "admitted", "sent"}, op : Operations]
             Sent(r) == IF req[r].pc = "admitted" THEN [req[r] EXCEPT !.pc = "sent"] ELSE req[r]
             N == [pc : Places, status : Statuses]
             A == [pc : {"idle", "save"}, st : ExecutionState]
             idle == [pc |-> "idle", st |-> Blank]
  <1>1. /\ steps' \in Loadable \cup {Gone} /\ journal' = TRUE /\ inbox' = <<>>
        /\ vpc' = "idle" /\ vst' = NoState /\ exec' = NoState /\ node' = NoNodes
        /\ closed' = [n \in Names |-> 0] /\ mu' = Nobody /\ fst' = NoState
        /\ analyst' = idle /\ abox' = 0 /\ req' = [r \in Requests |-> Sent(r)]
        /\ store' = store /\ submitted' = submitted /\ called' = called
        /\ succeeded' = succeeded /\ crashes' = crashes + 1
    BY DEF Crash, history
  <1>2. \A r \in Requests : /\ Sent(r) \in R
                            /\ req[r].pc = "new" => Sent(r).pc = "new"
    BY DEF TypeInv, TypeOK
  <1>3. idle \in A /\ idle.pc = "idle"
    BY BlankType
  <1>4. NoNodes \in [Names -> N]
    BY DEF NoNodes, Places, Statuses
  <1> HIDE DEF R, Sent, N, A, idle
  <1>5. req' \in [Requests -> R]
    BY <1>1, <1>2
  <1>6. closed' \in [Names -> Nat] /\ inbox' \in Seq({"run_pipeline"} \cup Operations)
    BY <1>1
  <1>7. TypeOK'
    BY <1>1, <1>3, <1>4, <1>5, <1>6 DEF TypeInv, TypeOK, R, N, A
  <1>8. Locals' /\ Mutex'
    BY <1>1 DEF Locals, Mutex
  <1>9. ~submitted => Untouched'
    BY <1>1, <1>2, <1>3 DEF TypeInv, Fresh, Untouched
  <1>10. Fresh'
    BY <1>1, <1>9 DEF TypeInv, Fresh
  <1> QED BY <1>7, <1>8, <1>10 DEF TypeInv

LEMMA NextTypeInv == TypeInv /\ [Next]_vars => TypeInv'
  <1> SUFFICES ASSUME TypeInv, [Next]_vars PROVE TypeInv'
    OBVIOUS
  <1>1. CASE UNCHANGED vars
    BY <1>1 DEF vars, dagVars, analystVars, envVars, history, TypeInv, TypeOK, Locals, Mutex,
                Fresh, Untouched
  <1>2. CASE Verifier
    BY <1>2, RunPipelineKeeps, HumanDecisionKeeps, SaveDecisionKeeps, LoadStateKeeps,
       LoadPanicsKeeps, FinishKeeps DEF Verifier, Operations
  <1>3. ASSUME NEW r \in Requests, \/ ReadDecision(r, "approved") \/ ReadDecision(r, "rejected")
                                   \/ SendDecision(r)
        PROVE  TypeInv'
    BY <1>3, ReadDecisionKeeps, SendDecisionKeeps DEF Operations
  <1> QED BY <1>1, <1>2, <1>3, DispatchKeeps, GoroutineKeeps, AnalystKeeps, JournalKeeps,
             CrashKeeps DEF Next

LEMMA SpecTypeInv == Spec => []TypeInv
  BY InitTypeInv, NextTypeInv, PTL DEF Spec

(***************************************************************************)
(* Every record, node and message is one the code can produce, for any     *)
(* pipelines and any number of decisions and restarts (executeDAG).        *)
(***************************************************************************)
THEOREM DagTypeCorrect == Spec => []TypeOK
  <1>1. TypeInv => TypeOK
    BY DEF TypeInv
  <1> QED BY <1>1, SpecTypeInv, PTL
-----------------------------------------------------------------------------
(***************************************************************************)
(* What a goroutine does, seen from its node: it begins when its           *)
(* dependencies have succeeded, runs, and closes its channel once; a step  *)
(* restored as completed has it closed already; one of whose dependencies  *)
(* halted closes it at once.                                               *)
(***************************************************************************)
Running == {"ready", "calling", "unlogged", "failload", "failsave"}

ClosesNow(n) == closed' = [closed EXCEPT ![n] = @ + 1]

Waited(n) == \A k \in DOMAIN S(n).deps : Succeeded(S(n).deps[k])

Flow(n, pc, status) ==
    \/ /\ node[n].pc = "wait" /\ node[n].status = "success" /\ Waited(n)
       /\ pc = "done" /\ status = "success" /\ closed' = closed
    \/ /\ node[n].pc = "wait" /\ node[n].status # "success" /\ Waited(n)
       /\ pc = "ready" /\ status = "running" /\ closed' = closed
    \/ /\ node[n].pc \in Running
       /\ pc \in Running /\ status = "running" /\ closed' = closed
    \/ /\ node[n].pc \in Running
       /\ pc = "done" /\ status \in Halting \cup {"success"} /\ ClosesNow(n)
    \/ /\ node[n].pc = "wait"
       /\ \E d \in DependsOn(steps, S(n)) : closed[d] > 0 /\ node[d].status \in Halting
       /\ pc = "done" /\ status \in Halting /\ ClosesNow(n)

(***************************************************************************)
(* The records it may leave in the store, in execState and in failTool.    *)
(***************************************************************************)
Saves(n) ==
    \/ store' = store
    \/ store' = Failed(exec)
    \/ S(n).kind = "gate" /\ store' = Paused(n)
    \/ S(n).kind = "gate" /\ store' = Failed(Paused(n))
    \/ /\ node[n].pc = "failsave"
       /\ \E outcome \in {"error", "rejected"} : store' = [fst EXCEPT !.status = outcome]

Keeps(n, pc) ==
    /\ exec' = exec \/ exec' = Failed(exec)
    /\ \/ fst' = fst /\ pc # "failsave"
       \/ fst' = store /\ pc = "failsave" /\ node[n].pc = "failload"
       \/ fst' = NoState /\ pc = "done" /\ node[n].pc = "failsave"

Calls(n, status) ==
    /\ \/ called' = called
       \/ called' = called \cup {n} /\ S(n).kind \in {"tool", "agent"} /\ node[n].pc = "ready"
    /\ \/ succeeded' = succeeded /\ (status # "success" \/ node[n].pc = "wait")
       \/ succeeded' = succeeded \cup {n} /\ status = "success"

Shape(n) ==
    \E pc \in Places, status \in Statuses :
        /\ Move(n, pc, status) /\ Flow(n, pc, status)
        /\ Saves(n) /\ Keeps(n, pc) /\ Calls(n, status)

LEMMA CloseShape ==
    ASSUME NEW n, NEW status, Close(n, status)
    PROVE  /\ Move(n, "done", status) /\ ClosesNow(n)
           /\ \/ succeeded' = succeeded /\ status # "success"
              \/ succeeded' = succeeded \cup {n} /\ status = "success"
  BY DEF Close, ClosesNow

LEMMA EndShape ==
    ASSUME NEW n, node[n].pc \in Running, NEW status \in Halting \cup {"success"},
           Close(n, status), Saves(n), Keeps(n, "done"), called' = called
    PROVE  Shape(n)
  <1>1. "done" \in Places /\ status \in Statuses
    BY DEF Places, Statuses, Halting
  <1>2. Flow(n, "done", status)
    BY CloseShape DEF Flow
  <1> QED BY <1>1, <1>2, CloseShape DEF Shape, Calls

LEMMA GoroutineShape ==
    ASSUME TypeInv, NEW n \in Names, Goroutine(n)
    PROVE  /\ vpc = "dag" /\ n \in Ids(steps) /\ runUnchanged' = runUnchanged
           /\ Shape(n)
  <1> USE DEF Running, Halting
  <1>1. ASSUME NEW pc \in Places \ {"done"}, At(n, pc)
        PROVE  vpc = "dag" /\ n \in Ids(steps) /\ node[n].pc = pc
    BY <1>1, AtOwn
  <1>2. {"wait"} \cup Running \subseteq Places \ {"done"}
    BY DEF Places
  <1>3. ASSUME DependencyFails(n) PROVE vpc = "dag" /\ n \in Ids(steps) /\ Shape(n)
    <2>1. vpc = "dag" /\ n \in Ids(steps) /\ node[n].pc = "wait"
      BY <1>1, <1>2, <1>3 DEF DependencyFails, Locking
    <2>2. PICK k \in DOMAIN S(n).deps, status \in {"cascaded_pause", "cascaded_skip"} :
              /\ S(n).deps[k] \in Ids(steps) /\ closed[S(n).deps[k]] > 0
              /\ node[S(n).deps[k]].status \in Halting
              /\ Close(n, status)
      BY <1>3 DEF DependencyFails
    <2>3. S(n).deps[k] \in DependsOn(steps, S(n))
      BY <2>2 DEF DependsOn, Elements
    <2>4. "done" \in Places /\ status \in Statuses /\ status \in Halting /\ status # "success"
      BY DEF Places, Statuses
    <2>5. Flow(n, "done", status)
      BY <2>1, <2>2, <2>3, <2>4, CloseShape DEF Flow
    <2>6. Saves(n) /\ Keeps(n, "done") /\ Calls(n, status)
      BY <1>3, <2>2, CloseShape DEF DependencyFails, Saves, Keeps, Calls
    <2> QED BY <2>1, <2>2, <2>4, <2>5, <2>6, CloseShape DEF Shape
  <1>4. ASSUME Begin(n) PROVE vpc = "dag" /\ n \in Ids(steps) /\ Shape(n)
    <2>1. vpc = "dag" /\ n \in Ids(steps) /\ node[n].pc = "wait"
      BY <1>1, <1>2, <1>4 DEF Begin, Locking
    <2>2. /\ closed' = closed /\ store' = store /\ exec' = exec /\ fst' = fst
          /\ called' = called /\ succeeded' = succeeded /\ Waited(n)
      BY <1>4 DEF Begin, history, Waited
    <2>3. CASE node[n].status = "success"
      <3>1. Move(n, "done", "success") /\ "done" \in Places /\ "success" \in Statuses
        BY <1>4, <2>3 DEF Begin, Places, Statuses
      <3>2. Flow(n, "done", "success") /\ Saves(n) /\ Keeps(n, "done") /\ Calls(n, "success")
        BY <2>1, <2>2, <2>3 DEF Flow, Saves, Keeps, Calls
      <3> QED BY <2>1, <3>1, <3>2 DEF Shape
    <2>4. CASE node[n].status # "success"
      <3>1. Move(n, "ready", "running") /\ "ready" \in Places /\ "running" \in Statuses
        BY <1>4, <2>4 DEF Begin, Places, Statuses
      <3>2. Flow(n, "ready", "running") /\ Saves(n) /\ Keeps(n, "ready") /\ Calls(n, "running")
        BY <2>1, <2>2, <2>4 DEF Flow, Saves, Keeps, Calls
      <3> QED BY <2>1, <3>1, <3>2 DEF Shape
    <2> QED BY <2>3, <2>4
  <1>5. ASSUME SkipStep(n) PROVE vpc = "dag" /\ n \in Ids(steps) /\ Shape(n)
    <2>1. vpc = "dag" /\ n \in Ids(steps) /\ node[n].pc = "ready"
      BY <1>1, <1>2, <1>5 DEF SkipStep, Locking
    <2>2. PICK status \in {"skipped", "failed"} : Close(n, status)
      BY <1>5 DEF SkipStep
    <2>3. Saves(n) /\ Keeps(n, "done") /\ called' = called
      BY <1>5 DEF SkipStep, failAuditExecution, Saves, Keeps
    <2> QED BY <2>1, <2>2, <2>3, EndShape
  <1>6. ASSUME PassGate(n) \/ InternalTool(n) \/ SendToAnalyst(n)
        PROVE  vpc = "dag" /\ n \in Ids(steps) /\ Shape(n)
    <2>1. vpc = "dag" /\ n \in Ids(steps) /\ node[n].pc = "ready"
      BY <1>1, <1>2, <1>6 DEF PassGate, InternalTool, SendToAnalyst, Locking
    <2>2. Close(n, "success") /\ Saves(n) /\ Keeps(n, "done") /\ called' = called
      BY <1>6 DEF PassGate, InternalTool, SendToAnalyst, Saves, Keeps
    <2> QED BY <2>1, <2>2, EndShape
  <1>7. ASSUME PauseAtGate(n) PROVE vpc = "dag" /\ n \in Ids(steps) /\ Shape(n)
    <2>1. vpc = "dag" /\ n \in Ids(steps) /\ node[n].pc = "ready"
      BY <1>1, <1>2, <1>7 DEF PauseAtGate, Locking
    <2>2. PICK status \in {"paused", "failed"} : Close(n, status)
      BY <1>7 DEF PauseAtGate
    <2>3. Saves(n) /\ Keeps(n, "done") /\ called' = called
      BY <1>7 DEF PauseAtGate, Saves, Keeps
    <2> QED BY <2>1, <2>2, <2>3, EndShape
  <1>8. ASSUME StartTool(n) PROVE vpc = "dag" /\ n \in Ids(steps) /\ Shape(n)
    <2>1. vpc = "dag" /\ n \in Ids(steps) /\ node[n].pc = "ready"
      BY <1>1, <1>2, <1>8 DEF StartTool
    <2>2. PICK pc \in {"calling", "unlogged"} : Move(n, pc, "running")
      BY <1>8 DEF StartTool
    <2>3. pc \in Places /\ pc \in Running /\ "running" \in Statuses
      BY DEF Places, Statuses
    <2>4. Flow(n, pc, "running")
      BY <1>8, <2>1, <2>3 DEF StartTool, Flow
    <2>5. Saves(n) /\ Keeps(n, pc) /\ Calls(n, "running")
      BY <1>8, <2>1 DEF StartTool, failAuditExecution, Saves, Keeps, Calls
    <2> QED BY <2>1, <2>2, <2>3, <2>4, <2>5 DEF Shape
  <1>9. ASSUME NotStarted(n) PROVE vpc = "dag" /\ n \in Ids(steps) /\ Shape(n)
    <2>1. vpc = "dag" /\ n \in Ids(steps) /\ node[n].pc = "unlogged"
      BY <1>1, <1>2, <1>9 DEF NotStarted, Locking
    <2>2. Close(n, "failed") /\ Saves(n) /\ Keeps(n, "done") /\ called' = called
      BY <1>9 DEF NotStarted, Saves, Keeps
    <2> QED BY <2>1, <2>2, EndShape
  <1>10. ASSUME ToolSucceeds(n) \/ AgentFails(n)
         PROVE  vpc = "dag" /\ n \in Ids(steps) /\ Shape(n)
    <2>1. vpc = "dag" /\ n \in Ids(steps) /\ node[n].pc = "calling"
      BY <1>1, <1>2, <1>10 DEF ToolSucceeds, AgentFails, Locking
    <2>2. PICK status \in {"success", "failed"} : Close(n, status)
      BY <1>10 DEF ToolSucceeds, AgentFails
    <2>3. Saves(n) /\ Keeps(n, "done") /\ called' = called
      BY <1>10 DEF ToolSucceeds, AgentFails, LogOutcome, failAuditExecution, Saves, Keeps
    <2> QED BY <2>1, <2>2, <2>3, EndShape
  <1>11. ASSUME ToolFails(n) PROVE vpc = "dag" /\ n \in Ids(steps) /\ Shape(n)
    <2>1. vpc = "dag" /\ n \in Ids(steps) /\ node[n].pc = "calling"
      BY <1>1, <1>2, <1>11 DEF ToolFails
    <2>2. Move(n, "failload", "running") /\ "failload" \in Places /\ "running" \in Statuses
      BY <1>11 DEF ToolFails, Places, Statuses
    <2>3. Flow(n, "failload", "running")
      BY <1>11, <2>1 DEF ToolFails, Flow
    <2>4. Saves(n) /\ Keeps(n, "failload") /\ Calls(n, "running")
      BY <1>11 DEF ToolFails, LogOutcome, failAuditExecution, history, Saves, Keeps, Calls
    <2> QED BY <2>1, <2>2, <2>3, <2>4 DEF Shape
  <1>12. ASSUME LoadFailed(n) PROVE vpc = "dag" /\ n \in Ids(steps) /\ Shape(n)
    <2>1. vpc = "dag" /\ n \in Ids(steps) /\ node[n].pc = "failload"
      BY <1>1, <1>2, <1>12 DEF LoadFailed
    <2>2. Move(n, "failsave", "running") /\ "failsave" \in Places /\ "running" \in Statuses
      BY <1>12 DEF LoadFailed, Places, Statuses
    <2>3. Flow(n, "failsave", "running")
      BY <1>12, <2>1 DEF LoadFailed, Flow
    <2>4. store # NoState
      BY <2>1, LoggedType, ValuesAssumption DEF ValuesAssumption
    <2>5. Saves(n) /\ Keeps(n, "failsave") /\ Calls(n, "running")
      BY <1>12, <2>1, <2>4 DEF LoadFailed, history, Saves, Keeps, Calls
    <2> QED BY <2>1, <2>2, <2>3, <2>5 DEF Shape
  <1>13. ASSUME SaveFailed(n) PROVE vpc = "dag" /\ n \in Ids(steps) /\ Shape(n)
    <2>1. vpc = "dag" /\ n \in Ids(steps) /\ node[n].pc = "failsave"
      BY <1>1, <1>2, <1>13 DEF SaveFailed
    <2>2. Close(n, "failed") /\ Saves(n) /\ Keeps(n, "done") /\ called' = called
      BY <1>13, <2>1 DEF SaveFailed, Saves, Keeps
    <2> QED BY <2>1, <2>2, EndShape
  <1>14. runUnchanged' = runUnchanged
    BY DEF Goroutine, DependencyFails, Begin, SkipStep, PassGate, PauseAtGate, SendToAnalyst,
           InternalTool, StartTool, NotStarted, ToolSucceeds, AgentFails, ToolFails, LoadFailed,
           SaveFailed
  <1> QED BY <1>3, <1>4, <1>5, <1>6, <1>7, <1>8, <1>9, <1>10, <1>11, <1>12, <1>13, <1>14
          DEF Goroutine
-----------------------------------------------------------------------------
(***************************************************************************)
(* While a run is under way, or its summary is, the records in hand are of *)
(* the definition AOS has loaded: a definition changes only in a restart,  *)
(* and resumeFromState turns a record of another one away.                 *)
(***************************************************************************)
Summarizing == abox > 0 \/ analyst.pc = "save"
Deciding == vpc \in {"approved", "rejected"}

VersionsOfRun ==
    /\ vpc \in {"load", "dag"} \/ Summarizing =>
          steps # Gone /\ store \in ExecutionState /\ store.version = steps
    /\ vpc = "dag" => exec.version = steps
    /\ vpc = "dag" => \A n \in Names : node[n].pc = "failsave" => fst.version = steps

VersionsInHand ==
    /\ Summarizing /\ Deciding => vst.version = steps
    /\ analyst.pc = "save" => analyst.st.version = steps
    /\ \A i \in DOMAIN inbox : inbox[i] = "run_pipeline" => steps # Gone

Versions == VersionsOfRun /\ VersionsInHand

(***************************************************************************)
(* The records in hand, and how a step makes new ones: from one of them,   *)
(* from what has succeeded when a gate pauses, from what the analyst       *)
(* reports, or empty, before any tool is called.                           *)
(***************************************************************************)
Held ==
    {st \in ExecutionState :
        \/ st = store
        \/ Deciding /\ st = vst
        \/ analyst.pc = "save" /\ st = analyst.st
        \/ vpc = "dag" /\ st = exec
        \/ vpc = "dag" /\ st = fst /\ \E n \in Names : node[n].pc = "failsave"}

Copied(st) ==
    \E s \in Held : st.done = s.done /\ st.repeated = s.repeated /\ st.version = s.version

PausedNow(st) == vpc = "dag" /\ st.done = Completed /\ st.repeated = {} /\ st.version = steps

ReportedNow(st) ==
    /\ Summarizing /\ st.version = steps
    /\ st.done = Reported(st.version) /\ st.repeated = Repeated(st.version)
    /\ \E s \in Held : st.version = s.version

FreshNow(st) == Untouched /\ st.done = {} /\ st.repeated = {}

LEMMA InitVersions == Init => Versions
  BY DEF Init, Versions, VersionsOfRun, VersionsInHand, Summarizing, Deciding

(***************************************************************************)
(* The records a step's goroutine leaves.                                  *)
(***************************************************************************)
LEMMA GoroutineRecords ==
    ASSUME TypeInv, Versions, NEW n \in Names, Goroutine(n), NEW st,
           st = store' \/ st = exec' \/ (st = fst' /\ \E m \in Names : node'[m].pc = "failsave")
    PROVE  st \in ExecutionState /\ st.version = steps /\ (Copied(st) \/ PausedNow(st))
  <1>1. vpc = "dag" /\ n \in Ids(steps) /\ Shape(n)
    BY GoroutineShape
  <1>2. PICK pc \in Places, status \in Statuses : Move(n, pc, status) /\ Saves(n) /\ Keeps(n, pc)
    BY <1>1 DEF Shape
  <1>3. /\ store \in ExecutionState /\ store.version = steps
        /\ exec \in ExecutionState /\ exec.version = steps
        /\ \A m \in Names : node[m].pc = "failsave" => fst \in ExecutionState /\ fst.version = steps
    BY <1>1, LoggedType DEF Versions, VersionsOfRun, TypeInv, Mutex
  <1>4. /\ store \in Held /\ exec \in Held
        /\ \A m \in Names : node[m].pc = "failsave" => fst \in Held
    BY <1>1, <1>3 DEF Held
  <1>5. ASSUME st = store \/ st = exec
        PROVE  st \in ExecutionState /\ st.version = steps /\ Copied(st)
    BY <1>3, <1>4, <1>5 DEF Copied
  <1>6. ASSUME st = Failed(exec) PROVE st \in ExecutionState /\ st.version = steps /\ Copied(st)
    BY <1>3, <1>4, <1>6, FailedType DEF Copied
  <1>7. ASSUME S(n).kind = "gate", st = Paused(n) \/ st = Failed(Paused(n))
        PROVE  st \in ExecutionState /\ st.version = steps /\ PausedNow(st)
    <2>1. /\ Paused(n) \in ExecutionState
          /\ Paused(n).done = Completed /\ Paused(n).repeated = {} /\ Paused(n).version = steps
      BY <1>1, <1>3, <1>7, PausedType DEF TypeInv
    <2> QED BY <1>1, <1>7, <2>1, FailedType DEF PausedNow
  <1>8. ASSUME NEW m \in Names, node[m].pc = "failsave",
               st = fst \/ \E outcome \in {"error", "rejected"} : st = [fst EXCEPT !.status = outcome]
        PROVE  st \in ExecutionState /\ st.version = steps /\ Copied(st)
    <2>1. fst \in ExecutionState /\ fst.version = steps /\ fst \in Held
      BY <1>3, <1>4, <1>8
    <2>2. /\ st \in ExecutionState /\ st.version = fst.version
          /\ st.done = fst.done /\ st.repeated = fst.repeated
      BY <1>8, <2>1 DEF ExecutionState
    <2> QED BY <2>1, <2>2 DEF Copied
  <1>9. CASE st = store'
    BY <1>2, <1>5, <1>6, <1>7, <1>8, <1>9 DEF Saves
  <1>10. CASE st = exec'
    BY <1>2, <1>5, <1>6, <1>10 DEF Keeps
  <1>11. CASE st = fst' /\ \E m \in Names : node'[m].pc = "failsave"
    <2> PICK m \in Names : node'[m].pc = "failsave"
      BY <1>11
    <2>1. node \in [Names -> [pc : Places, status : Statuses]]
      BY DEF TypeInv, TypeOK
    <2>2. m # n => node[m].pc = "failsave"
      BY <1>2, <2>1 DEF Move
    <2>3. m = n => pc = "failsave"
      BY <1>2, <2>1 DEF Move
    <2>4. CASE pc = "failsave"
      BY <1>2, <1>5, <1>11, <2>4 DEF Keeps
    <2>5. CASE m # n
      <3>1. node[n].pc # "failsave"
        BY <1>1, <2>2, <2>5, HolderFails DEF FailPcs
      <3>2. st = fst \/ st = store
        BY <1>2, <1>11, <3>1 DEF Keeps
      <3> QED BY <1>5, <1>8, <2>2, <2>5, <3>2
    <2> QED BY <2>3, <2>4, <2>5
  <1> QED BY <1>9, <1>10, <1>11

LEMMA GoroutineVersions ==
    ASSUME TypeInv, Versions, NEW n \in Names, Goroutine(n)
    PROVE  /\ Versions'
           /\ \A st \in Held' : st.version = steps /\ (Copied(st) \/ PausedNow(st))
  <1>1. vpc = "dag" /\ n \in Ids(steps) /\ runUnchanged' = runUnchanged
    BY GoroutineShape
  <1>2. /\ steps' = steps /\ vpc' = vpc /\ inbox' = inbox /\ vst' = vst /\ analyst' = analyst
    BY <1>1 DEF runUnchanged, envVars
  <1>3. /\ store' \in ExecutionState /\ store'.version = steps /\ exec'.version = steps
        /\ \A m \in Names : node'[m].pc = "failsave" => fst'.version = steps
    BY GoroutineRecords
  <1>4. steps # Gone
    BY <1>1 DEF Ids, Gone
  <1>5. Versions'
    BY <1>1, <1>2, <1>3, <1>4 DEF Versions, VersionsOfRun, VersionsInHand, Summarizing, Deciding
  <1>6. ASSUME NEW st \in Held' PROVE st.version = steps /\ (Copied(st) \/ PausedNow(st))
    <2>1. ~Deciding'
      BY <1>1, <1>2 DEF Deciding
    <2>2. CASE analyst'.pc = "save" /\ st = analyst'.st
      BY <1>2, <1>6, <2>2 DEF Held, Copied, Versions, VersionsInHand
    <2> QED BY <1>6, <2>1, <2>2, GoroutineRecords DEF Held
  <1> QED BY <1>5, <1>6

(***************************************************************************)
(* The same of every other action.                                         *)
(***************************************************************************)
Derived == \A st \in Held' : Copied(st) \/ ReportedNow(st)

Known == Derived \/ \A st \in Held' : FreshNow(st)

LEMMA SameRecords ==
    ASSUME Held' \subseteq Held
    PROVE  Derived
  BY DEF Derived, Copied

LEMMA PlannerVersions ==
    ASSUME TypeInv, Versions, DispatchPipeline \/ handleRunPipeline
    PROVE  Versions' /\ Known
  <1>1. Untouched /\ steps # Gone
    <2>1. CASE DispatchPipeline
      BY <2>1 DEF DispatchPipeline, TypeInv, Fresh
    <2>2. CASE handleRunPipeline
      <3>1. 1 \in DOMAIN inbox /\ inbox[1] = "run_pipeline"
        BY <2>2 DEF handleRunPipeline, Receive, TypeInv, TypeOK
      <3> QED BY <3>1 DEF TypeInv, Fresh, Versions, VersionsInHand
    <2> QED BY <2>1, <2>2
  <1>2. /\ steps' = steps /\ abox' = 0 /\ analyst'.pc = "idle" /\ vpc' \in {"idle", "load"}
        /\ store' \in ExecutionState /\ store'.done = {} /\ store'.repeated = {}
        /\ vpc' = "load" => store'.version = steps
    <2>1. CASE DispatchPipeline
      BY <1>1, <2>1, BlankType DEF DispatchPipeline, Blank, analystVars, envVars, Untouched
    <2>2. CASE handleRunPipeline
      <3> DEFINE st == [store EXCEPT !.version = steps]
      <3>1. 1 \in DOMAIN inbox /\ inbox[1] = "run_pipeline"
        BY <2>2 DEF handleRunPipeline, Receive, TypeInv, TypeOK
      <3>2. store = Blank
        BY <3>1 DEF TypeInv, Fresh
      <3>3. st \in ExecutionState /\ st.done = {} /\ st.repeated = {} /\ st.version = steps
        BY <3>2 DEF TypeInv, TypeOK, Blank, ExecutionState
      <3> HIDE DEF st
      <3>4. (store' = st /\ vpc' = "load") \/ (store' = Failed(st) /\ vpc' = vpc)
        BY <2>2 DEF handleRunPipeline, st
      <3>5. steps' = steps /\ abox' = abox /\ analyst' = analyst
        BY <2>2 DEF handleRunPipeline, analystVars, envVars
      <3> QED BY <1>1, <3>3, <3>4, <3>5, FailedType DEF Untouched
    <2> QED BY <2>1, <2>2
  <1>3. \A i \in DOMAIN inbox' : inbox'[i] = "run_pipeline" => steps' # Gone
    BY <1>1, <1>2
  <1>4. Versions'
    BY <1>1, <1>2, <1>3 DEF Versions, VersionsOfRun, VersionsInHand, Summarizing, Deciding
  <1>5. \A st \in Held' : st = store'
    BY <1>2 DEF Held, Deciding
  <1>6. Known
    BY <1>1, <1>2, <1>5 DEF Known, FreshNow
  <1> QED BY <1>4, <1>6

LEMMA DecisionVersions ==
    ASSUME TypeInv, Versions,
           \/ \E decision \in Operations : handleHumanDecision(decision)
           \/ SaveDecision
    PROVE  Versions' /\ Derived
  <1>1. steps' = steps /\ analyst' = analyst /\ abox' = abox /\ vpc \notin {"load", "dag"}
    BY DEF handleHumanDecision, Receive, SaveDecision, analystVars, envVars
  <1>2. CASE \E decision \in Operations : handleHumanDecision(decision)
    <2>1. /\ store' = store /\ (vpc' = "idle" \/ (Deciding' /\ vst' = store /\ store # NoState))
          /\ \A i \in DOMAIN inbox' : i + 1 \in DOMAIN inbox /\ inbox'[i] = inbox[i + 1]
      BY <1>2 DEF handleHumanDecision, Receive, Operations, Deciding, TypeInv, TypeOK
    <2>2. Versions'
      BY <1>1, <2>1 DEF Versions, VersionsOfRun, VersionsInHand, Summarizing, Deciding
    <2>3. Held' \subseteq Held
      BY <1>1, <2>1 DEF Held, Deciding
    <2> QED BY <2>2, <2>3, SameRecords
  <1>3. CASE SaveDecision
    <2>1. vst \in ExecutionState /\ vst \in Held /\ Deciding /\ inbox' = inbox
      BY <1>3 DEF SaveDecision, TypeInv, Locals, Held, Deciding
    <2>2. \/ steps = Gone /\ store' = NoState /\ vpc' = "idle"
          \/ /\ store' \in ExecutionState /\ store'.version = vst.version
             /\ store'.done = vst.done /\ store'.repeated = vst.repeated
             /\ vpc' = "idle" \/ (vpc' = "load" /\ vst.version = steps /\ steps # Gone)
      <3> DEFINE st == [vst EXCEPT !.status = "rejected", !.gate = ""]
      <3>1. /\ st \in ExecutionState /\ st.version = vst.version
            /\ st.done = vst.done /\ st.repeated = vst.repeated
        BY <2>1 DEF ExecutionState
      <3> HIDE DEF st
      <3>2. \/ resumeFromState
            \/ store' = st /\ vpc' = "idle"
        BY <1>3 DEF SaveDecision, st
      <3> QED BY <2>1, <3>1, <3>2, FailedType DEF resumeFromState
    <2>3. Versions'
      BY <1>1, <2>1, <2>2 DEF Versions, VersionsOfRun, VersionsInHand, Summarizing, Deciding
    <2>4. ASSUME NEW st \in Held' PROVE Copied(st)
      <3>1. CASE st = store'
        BY <2>1, <2>2, <2>4, <3>1, ValuesAssumption DEF ValuesAssumption, Held, Copied
      <3>2. CASE analyst.pc = "save" /\ st = analyst.st
        BY <2>4, <3>2 DEF Held, Copied
      <3> QED BY <1>1, <2>2, <2>4, <3>1, <3>2 DEF Held, Deciding
    <2> QED BY <2>3, <2>4 DEF Derived
  <1> QED BY <1>2, <1>3

LEMMA RunVersions ==
    ASSUME TypeInv, Versions, LoadState \/ LoadPanics \/ Finish
    PROVE  Versions' /\ Derived
  <1>1. /\ steps' = steps /\ analyst' = analyst /\ store' = store /\ inbox' = inbox
        /\ vpc \in {"load", "dag"}
    BY DEF LoadState, LoadPanics, Finish, analystVars, envVars
  <1>2. CASE LoadState
    <2>1. /\ vpc' = "dag" /\ exec' = store /\ abox' = abox
          /\ \A n \in Names : node'[n].pc # "failsave"
      BY <1>2 DEF LoadState, analystVars, NoNodes
    <2>2. Versions'
      BY <1>1, <2>1 DEF Versions, VersionsOfRun, VersionsInHand, Summarizing, Deciding
    <2>3. Held' \subseteq Held
      BY <1>1, <2>1 DEF Held, Deciding
    <2> QED BY <2>2, <2>3, SameRecords
  <1>3. CASE LoadPanics \/ Finish
    <2>1. vpc' = "idle" /\ (abox' = abox \/ vpc = "dag")
      BY <1>3 DEF LoadPanics, Finish, analystVars
    <2>2. Versions'
      BY <1>1, <2>1 DEF Versions, VersionsOfRun, VersionsInHand, Summarizing, Deciding
    <2>3. Held' \subseteq Held
      BY <1>1, <2>1 DEF Held, Deciding
    <2> QED BY <2>2, <2>3, SameRecords
  <1> QED BY <1>2, <1>3

LEMMA AnalystVersions ==
    ASSUME TypeInv, Versions, Analyst
    PROVE  Versions' /\ Derived
  <1>1. /\ steps' = steps /\ vpc' = vpc /\ vst' = vst /\ exec' = exec /\ fst' = fst
        /\ node' = node /\ inbox' = inbox
    BY DEF Analyst, LoadCompletion, SaveCompletion, dagVars, envVars
  <1>2. CASE LoadCompletion
    <2>1. Summarizing /\ store' = store
      BY <1>2 DEF LoadCompletion, Summarizing, TypeInv, TypeOK
    <2>2. store \in ExecutionState /\ store.version = steps /\ store # NoState /\ steps # Gone
      BY <2>1, ValuesAssumption DEF ValuesAssumption, Versions, VersionsOfRun
    <2>3. analyst'.st = store
      BY <1>2, <2>2 DEF LoadCompletion
    <2>4. Versions'
      BY <1>1, <2>1, <2>2, <2>3
         DEF Versions, VersionsOfRun, VersionsInHand, Summarizing, Deciding
    <2>5. Held' \subseteq Held
      BY <1>1, <2>1, <2>2, <2>3 DEF Held, Deciding
    <2> QED BY <2>4, <2>5, SameRecords
  <1>3. CASE SaveCompletion
    <2>1. /\ analyst.pc = "save" /\ Summarizing /\ store' = Complete(analyst.st)
          /\ analyst'.pc = "idle" /\ abox' = abox
      BY <1>3 DEF SaveCompletion, Summarizing
    <2>2. analyst.st \in ExecutionState /\ analyst.st.version = steps /\ analyst.st \in Held
      BY <2>1 DEF TypeInv, TypeOK, Versions, VersionsInHand, Held
    <2>3. store' \in ExecutionState /\ store'.version = steps
      BY <2>1, <2>2, CompleteType
    <2>4. Versions'
      BY <1>1, <2>1, <2>3 DEF Versions, VersionsOfRun, VersionsInHand, Summarizing, Deciding
    <2>5. Copied(store') \/ ReportedNow(store')
      BY <2>1, <2>2, CompleteType DEF Copied, ReportedNow
    <2>6. \A st \in Held' : st = store' \/ st \in Held
      BY <1>1, <2>1 DEF Held, Deciding
    <2> QED BY <2>4, <2>5, <2>6 DEF Derived, Copied
  <1> QED BY <1>2, <1>3 DEF Analyst

LEMMA RequestVersions ==
    ASSUME TypeInv, Versions,
           \/ \E r \in Requests : \/ ReadDecision(r, "approved") \/ ReadDecision(r, "rejected")
                                  \/ SendDecision(r)
           \/ BreakJournal \/ UNCHANGED vars
    PROVE  Versions' /\ Derived
  <1>1. /\ steps' = steps /\ store' = store /\ vpc' = vpc /\ vst' = vst /\ exec' = exec
        /\ fst' = fst /\ node' = node /\ analyst' = analyst /\ abox' = abox
    BY DEF ReadDecision, SendDecision, BreakJournal, vars, dagVars, analystVars, envVars
  <1>2. \A i \in DOMAIN inbox' : inbox'[i] = "run_pipeline" => steps # Gone
    <2>1. ASSUME NEW r \in Requests, SendDecision(r)
          PROVE  \A i \in DOMAIN inbox' : inbox'[i] = "run_pipeline" => steps # Gone
      <3>1. inbox \in Seq({"run_pipeline"} \cup Operations) /\ req[r].op \in Operations
        BY DEF TypeInv, TypeOK
      <3>2. Send(req[r].op)
        BY <2>1 DEF SendDecision
      <3> QED BY <3>1, <3>2, SendType DEF Versions, VersionsInHand, Operations
    <2>2. inbox' = inbox \/ \E r \in Requests : SendDecision(r)
      BY DEF ReadDecision, BreakJournal, vars
    <2> QED BY <2>1, <2>2 DEF Versions, VersionsInHand
  <1>3. Versions'
    BY <1>1, <1>2 DEF Versions, VersionsOfRun, VersionsInHand, Summarizing, Deciding
  <1>4. Held' \subseteq Held
    BY <1>1 DEF Held, Deciding
  <1> QED BY <1>3, <1>4, SameRecords

LEMMA CrashVersions ==
    ASSUME TypeInv, Versions, Crash
    PROVE  Versions' /\ Derived
  <1>1. store' = store /\ vpc' = "idle" /\ abox' = 0 /\ analyst'.pc = "idle" /\ inbox' = <<>>
    BY DEF Crash
  <1>2. Versions'
    BY <1>1 DEF Versions, VersionsOfRun, VersionsInHand, Summarizing, Deciding
  <1>3. Held' \subseteq Held
    BY <1>1 DEF Held, Deciding
  <1> QED BY <1>2, <1>3, SameRecords
-----------------------------------------------------------------------------
(***************************************************************************)
(* executeDAG's channels.  A step that has succeeded, in this run or in an *)
(* earlier one, or that runs, depends on steps that have all succeeded;    *)
(* its channel is open exactly until it has an outcome.                    *)
(***************************************************************************)
DepsSucceeded(n) == \A d \in DependsOn(steps, S(n)) : node[d].status = "success"

Restored(n) == node[n].status = "success" /\ closed[n] = 1
Pending(n) == node[n].status = "pending" /\ closed[n] = 0

NodeOk(n) ==
    /\ node[n].pc = "wait" => Restored(n) \/ Pending(n)
    /\ node[n].pc \in Running => node[n].status = "running" /\ closed[n] = 0
    /\ node[n].pc = "done" => node[n].status \in Halting \cup {"success"} /\ closed[n] = 1
    /\ node[n].status \in {"success", "running"} => DepsSucceeded(n)

Channels ==
    vpc = "dag" => \A n \in Names : IF n \in Ids(steps) THEN NodeOk(n) ELSE closed[n] = 0

LEMMA WaitedForAll ==
    ASSUME TypeInv, Channels, vpc = "dag", NEW n \in Ids(steps), Waited(n)
    PROVE  DepsSucceeded(n)
  <1> SUFFICES ASSUME NEW d \in DependsOn(steps, S(n)) PROVE node[d].status = "success"
    BY DEF DepsSucceeded
  <1>1. d \in Ids(steps) /\ d \in Names
    BY OwnStep DEF DependsOn, TypeInv, TypeOK
  <1>2. closed[d] > 0 /\ node[d].status \notin Halting
    <2>1. PICK k \in DOMAIN S(n).deps : d = S(n).deps[k]
      BY DEF DependsOn, Elements
    <2> QED BY <1>1, <2>1 DEF Waited, Succeeded
  <1>3. NodeOk(d)
    BY <1>1 DEF Channels
  <1>4. node[d].pc \in Places
    BY <1>1 DEF TypeInv, TypeOK
  <1>5. node[d].pc \in {"wait", "done"} \cup Running
    BY <1>4 DEF Places, Running
  <1> QED BY <1>2, <1>3, <1>5 DEF NodeOk, Restored, Pending

LEMMA GoroutineChannels ==
    ASSUME TypeInv, Channels, NEW n \in Names, Goroutine(n)
    PROVE  Channels'
  <1>1. /\ vpc = "dag" /\ vpc' = vpc /\ steps' = steps /\ n \in Ids(steps)
        /\ \E pc \in Places, status \in Statuses : Move(n, pc, status) /\ Flow(n, pc, status)
    BY GoroutineShape DEF runUnchanged, envVars, Shape
  <1>2. PICK pc \in Places, status \in Statuses : Move(n, pc, status) /\ Flow(n, pc, status)
    BY <1>1
  <1>3. NodeOk(n) /\ closed \in [Names -> Nat]
    BY <1>1 DEF Channels, TypeInv, TypeOK
  <1>4. /\ node'[n].pc = pc /\ node'[n].status = status
        /\ \A m \in Names \ {n} : node'[m] = node[m]
    BY <1>2 DEF Move, TypeInv, TypeOK
  <1>5. \A m \in Names \ {n} : closed'[m] = closed[m]
    BY <1>2, <1>3 DEF Flow, ClosesNow
  <1>6. \/ /\ node[n].pc = "wait" /\ Restored(n) /\ DepsSucceeded(n)
           /\ pc = "done" /\ status = "success" /\ closed'[n] = 1
        \/ /\ node[n].status # "success" /\ DepsSucceeded(n)
           /\ pc \in Running /\ status = "running" /\ closed'[n] = 0
        \/ /\ node[n].status # "success" /\ DepsSucceeded(n)
           /\ pc = "done" /\ status \in Halting \cup {"success"} /\ closed'[n] = 1
        \/ /\ node[n].status # "success"
           /\ pc = "done" /\ status \in Halting /\ closed'[n] = 1
    <2>1. CASE node[n].pc \in Running
      <3>1. node[n].status = "running" /\ closed[n] = 0 /\ DepsSucceeded(n)
        BY <1>3, <2>1 DEF NodeOk
      <3>2. \/ pc \in Running /\ status = "running" /\ closed' = closed
            \/ pc = "done" /\ status \in Halting \cup {"success"} /\ ClosesNow(n)
        BY <1>2, <2>1 DEF Flow, Running
      <3>3. ClosesNow(n) => closed'[n] = 1
        BY <1>3, <3>1 DEF ClosesNow
      <3> QED BY <3>1, <3>2, <3>3
    <2>2. CASE node[n].pc = "wait" /\ Waited(n) /\ closed' = closed
      <3>1. DepsSucceeded(n)
        BY <1>1, <2>2, WaitedForAll
      <3>2. \/ node[n].status = "success" /\ pc = "done" /\ status = "success"
            \/ node[n].status # "success" /\ pc \in Running /\ status = "running"
        <4>1. ~ClosesNow(n)
          BY <1>3, <2>2 DEF ClosesNow
        <4> QED BY <1>2, <2>2, <4>1 DEF Flow, Running
      <3> QED BY <1>3, <2>2, <3>1, <3>2 DEF NodeOk, Restored, Pending
    <2>3. CASE /\ node[n].pc = "wait"
               /\ \E d \in DependsOn(steps, S(n)) : closed[d] > 0 /\ node[d].status \in Halting
               /\ pc = "done" /\ status \in Halting /\ ClosesNow(n)
      <3>1. ~DepsSucceeded(n)
        BY <2>3 DEF DepsSucceeded, Halting
      <3>2. Pending(n)
        BY <1>3, <2>3, <3>1 DEF NodeOk, Restored
      <3> QED BY <1>3, <2>3, <3>2 DEF ClosesNow, Pending
    <2> QED BY <1>2, <2>1, <2>2, <2>3 DEF Flow
  <1>7. ASSUME NEW d \in Names, node[d].status = "success" PROVE node'[d].status = "success"
    BY <1>4, <1>6, <1>7
  <1>8. ASSUME NEW m \in Ids(steps), m # n PROVE NodeOk(m)'
    <2>1. m \in Names /\ NodeOk(m)
      BY <1>1, <1>8, OwnStep DEF Channels, TypeInv, TypeOK
    <2>2. DepsSucceeded(m) => DepsSucceeded(m)'
      <3>1. DependsOn(steps, S(m)) \subseteq Names
        BY OwnStep DEF DependsOn, TypeInv, TypeOK
      <3> QED BY <1>1, <1>7, <3>1 DEF DepsSucceeded, S
    <2> QED BY <1>4, <1>5, <1>8, <2>1, <2>2 DEF NodeOk, Restored, Pending
  <1>9. NodeOk(n)'
    <2>1. DepsSucceeded(n) => DepsSucceeded(n)'
      <3>1. DependsOn(steps, S(n)) \subseteq Names
        BY <1>1, OwnStep DEF DependsOn, TypeInv, TypeOK
      <3> QED BY <1>1, <1>7, <3>1 DEF DepsSucceeded, S
    <2> QED BY <1>4, <1>6, <2>1 DEF NodeOk, Restored, Pending, Running, Halting
  <1>10. \A m \in Names \ Ids(steps) : closed'[m] = 0
    BY <1>1, <1>5 DEF Channels
  <1> QED BY <1>1, <1>8, <1>9, <1>10 DEF Channels
-----------------------------------------------------------------------------
(***************************************************************************)
(* The analyst reports as completed the steps listed before its own        *)
(* (snapshotSteps), whatever depends on what.  The shipped definitions     *)
(* list it after every step it depends on and after every tool and agent;  *)
(* what follows needs that, and fails without it.                          *)
(***************************************************************************)
SummaryLast(p) ==
    \A n \in Ids(p) :
        IF n \in Reported(p) THEN DependsOn(p, StepOf(p, n)) \subseteq Reported(p)
                             ELSE StepOf(p, n).kind \notin {"tool", "agent"}

SummariesLast == \A p \in Loadable : SummaryLast(p)

LEMMA SummaryLastOf ==
    ASSUME SummariesLast, NEW p \in Loadable \cup {Gone}
    PROVE  SummaryLast(p)
  BY DEF SummariesLast, SummaryLast, Ids, Gone

(***************************************************************************)
(* What a record in hand says is completed contains what that depends on,  *)
(* and has succeeded or been reported; it repeats only ids its definition  *)
(* repeats; and the calls made so far came after what they depend on.      *)
(***************************************************************************)
Restorable(st) ==
    \A m \in st.done \cap Ids(st.version) :
        DependsOn(st.version, StepOf(st.version, m)) \subseteq st.done

Achieved(st) ==
    \/ st.done \cap Ids(st.version) \subseteq succeeded
    \/ Reported(st.version) \subseteq st.done

RepeatsItsOwn(st) == st.repeated \subseteq Repeated(st.version)

Justified(p) == \A m \in called \cap Ids(p) : DependsOn(p, StepOf(p, m)) \subseteq succeeded

Records ==
    \A st \in Held :
        Restorable(st) /\ Achieved(st) /\ RepeatsItsOwn(st) /\ Justified(st.version)

Doing == vpc = "dag" => Completed \subseteq succeeded \/ Reported(steps) \subseteq Completed

RunInv ==
    /\ SummariesLast
    /\ TypeInv
    /\ Versions
    /\ Channels
    /\ Records
    /\ Doing

LEMMA HeldType == \A st \in Held : st \in ExecutionState /\ st.version \in Loadable \cup {Gone}
  BY DEF Held, ExecutionState

LEMMA InitRunInv == SummariesLast /\ Init => RunInv
  <1> SUFFICES ASSUME SummariesLast, Init PROVE RunInv
    OBVIOUS
  <1>1. Channels /\ Doing
    BY DEF Init, Channels, Doing
  <1>2. Held = {}
    BY ValuesAssumption DEF ValuesAssumption, Init, Held, Deciding
  <1>3. Records
    BY <1>2 DEF Records
  <1> QED BY <1>1, <1>3, InitTypeInv, InitVersions DEF RunInv

(***************************************************************************)
(* Every action but a step's goroutine calls nothing; the records it makes *)
(* keep what the ones they come from have.                                 *)
(***************************************************************************)
LEMMA KnownRecords ==
    ASSUME RunInv, Known, called' = called, succeeded' = succeeded
    PROVE  Records'
  <1> SUFFICES ASSUME NEW st \in Held'
               PROVE  /\ Restorable(st) /\ Achieved(st) /\ RepeatsItsOwn(st)
                      /\ Justified(st.version)
    BY DEF Records, Restorable, Achieved, RepeatsItsOwn, Justified
  <1>1. CASE Copied(st)
    BY <1>1 DEF RunInv, Copied, Records, Restorable, Achieved, RepeatsItsOwn
  <1>2. CASE ReportedNow(st)
    <2>1. PICK s \in Held : s.version = st.version
      BY <1>2 DEF ReportedNow
    <2>2. SummaryLast(st.version)
      BY <2>1, HeldType, SummaryLastOf DEF RunInv
    <2>3. Restorable(st)
      BY <1>2, <2>2 DEF ReportedNow, SummaryLast, Restorable
    <2>4. Achieved(st) /\ RepeatsItsOwn(st)
      BY <1>2 DEF ReportedNow, Achieved, RepeatsItsOwn
    <2>5. Justified(st.version)
      BY <2>1 DEF RunInv, Records
    <2> QED BY <2>3, <2>4, <2>5
  <1>3. CASE FreshNow(st)
    BY <1>3 DEF FreshNow, Untouched, Restorable, Achieved, RepeatsItsOwn, Justified
  <1> QED BY <1>1, <1>2, <1>3 DEF Known, Derived

LEMMA SameChannels ==
    ASSUME Channels,
           \/ vpc' # "dag"
           \/ vpc' = vpc /\ steps' = steps /\ node' = node /\ closed' = closed
    PROVE  Channels'
  BY DEF Channels, NodeOk, DepsSucceeded, S, Restored, Pending

LEMMA SameDoing ==
    ASSUME Doing, succeeded' = succeeded,
           vpc' # "dag" \/ (vpc' = vpc /\ steps' = steps /\ node' = node)
    PROVE  Doing'
  BY DEF Doing, Completed

(***************************************************************************)
(* executeDAG starts from the stored record.                               *)
(***************************************************************************)
LEMMA LoadStateRun ==
    ASSUME RunInv, LoadState
    PROVE  Channels' /\ Doing'
  <1>1. /\ vpc = "load" /\ steps' = steps /\ succeeded' = succeeded /\ store \in ExecutionState
        /\ steps \in Loadable \cup {Gone}
    BY DEF LoadState, envVars, history, RunInv, TypeInv, TypeOK, Locals
  <1>2. store.version = steps /\ store \in Held
    BY <1>1 DEF RunInv, Versions, VersionsOfRun, Held
  <1>3. \A n \in Names : closed'[n] = IF n \in Ids(steps) \cap store.done THEN 1 ELSE 0
    BY DEF LoadState
  <1>4. \A n \in Ids(steps) : /\ n \in Names
                              /\ node'[n].pc = "wait"
                              /\ node'[n].status = IF n \in store.done THEN "success" ELSE "pending"
    BY <1>1, LoadableType DEF LoadState
  <1>5. ASSUME NEW n \in Ids(steps) PROVE NodeOk(n)'
    <2>1. n \in store.done => DependsOn(steps, S(n)) \subseteq store.done
      BY <1>2 DEF RunInv, Records, Restorable, S
    <2>2. n \in store.done => DepsSucceeded(n)'
      BY <1>1, <1>4, <2>1 DEF DepsSucceeded, DependsOn, S
    <2> QED BY <1>3, <1>4, <2>2 DEF NodeOk, Restored, Pending, Running
  <1>6. Channels'
    BY <1>1, <1>3, <1>5 DEF Channels
  <1>7. Completed' = store.done \cap Ids(steps)
    BY <1>1, <1>4 DEF Completed
  <1>8. Reported(steps) \subseteq Ids(steps)
    BY <1>1, ReportedNames
  <1>9. Doing'
    BY <1>1, <1>2, <1>7, <1>8 DEF RunInv, Records, Achieved, Doing
  <1> QED BY <1>6, <1>9

(***************************************************************************)
(* A tool or an agent runs only when what it depends on has succeeded: in  *)
(* a run whose restored steps were only reported, none is left to run.     *)
(***************************************************************************)
LEMMA CallIsJustified ==
    ASSUME RunInv, vpc = "dag", NEW n \in Ids(steps), node[n].pc = "ready",
           S(n).kind \in {"tool", "agent"}
    PROVE  DependsOn(steps, S(n)) \subseteq succeeded
  <1>1. n \in Names /\ steps \in Loadable \cup {Gone}
    BY OwnStep DEF RunInv, TypeInv, TypeOK
  <1>2. node[n].status = "running" /\ DepsSucceeded(n)
    BY <1>1 DEF RunInv, Channels, NodeOk, Running
  <1>3. n \in Reported(steps)
    BY <1>1, SummaryLastOf DEF RunInv, SummaryLast, S
  <1>4. n \notin Completed
    BY <1>2 DEF Completed
  <1>5. Completed \subseteq succeeded
    BY <1>3, <1>4 DEF RunInv, Doing
  <1>6. DependsOn(steps, S(n)) \subseteq Completed
    BY <1>2 DEF DepsSucceeded, DependsOn, Completed
  <1> QED BY <1>5, <1>6

LEMMA GoroutineRun ==
    ASSUME RunInv, NEW n \in Names, Goroutine(n)
    PROVE  Records' /\ Doing'
  <1>1. /\ vpc = "dag" /\ vpc' = vpc /\ steps' = steps /\ n \in Ids(steps)
        /\ \E pc \in Places, status \in Statuses :
              Move(n, pc, status) /\ Flow(n, pc, status) /\ Calls(n, status)
    BY GoroutineShape DEF RunInv, runUnchanged, envVars, Shape
  <1>2. PICK pc \in Places, status \in Statuses :
            Move(n, pc, status) /\ Flow(n, pc, status) /\ Calls(n, status)
    BY <1>1
  <1>3. store.version = steps /\ store \in Held /\ steps \in Loadable \cup {Gone}
    BY <1>1 DEF RunInv, Versions, VersionsOfRun, Held, TypeInv, TypeOK
  <1>4. NodeOk(n)
    BY <1>1 DEF RunInv, Channels
  <1>5. /\ node'[n].status = status
        /\ \A m \in Names \ {n} : node'[m] = node[m]
    BY <1>2 DEF Move, RunInv, TypeInv, TypeOK
  <1>6. succeeded \subseteq succeeded'
    BY <1>2 DEF Calls
  <1>7. Completed \subseteq Completed' /\ Completed' \subseteq Completed \cup {n}
    <2>1. node[n].status = "success" => status = "success"
      <3>1. node[n].pc \in Running => node[n].status = "running"
        BY <1>4 DEF NodeOk
      <3>2. (\E d \in DependsOn(steps, S(n)) : closed[d] > 0 /\ node[d].status \in Halting)
               => node[n].status # "success"
        BY <1>4 DEF NodeOk, DepsSucceeded, Halting
      <3> QED BY <1>2, <3>1, <3>2 DEF Flow
    <2>2. Ids(steps) \subseteq Names
      BY <1>3, LoadableType
    <2> QED BY <1>1, <1>5, <2>1, <2>2 DEF Completed
  <1>8. Doing'
    <2>1. CASE Reported(steps) \subseteq Completed
      BY <1>1, <1>7, <2>1 DEF Doing
    <2>2. CASE Completed \subseteq succeeded
      <3>1. n \in Completed' => n \in Completed \/ n \in succeeded'
        <4>1. CASE status # "success"
          BY <1>1, <1>5, <4>1 DEF Completed
        <4>2. CASE status = "success" /\ node[n].pc = "wait" /\ succeeded' = succeeded
          <5>1. node[n].status = "success"
            BY <1>2, <4>2 DEF Flow, Running, Halting
          <5> QED BY <1>1, <5>1 DEF Completed
        <4>3. CASE succeeded' = succeeded \cup {n}
          BY <4>3
        <4> QED BY <1>2, <4>1, <4>2, <4>3 DEF Calls
      <3> QED BY <1>1, <1>6, <1>7, <2>2, <3>1 DEF Doing
    <2> QED BY <1>1, <2>1, <2>2 DEF RunInv, Doing
  <1>9. Justified(steps)'
    <2>1. Justified(steps)
      BY <1>3 DEF RunInv, Records
    <2>2. CASE called' = called
      BY <1>1, <1>6, <2>1, <2>2 DEF Justified
    <2>3. CASE /\ called' = called \cup {n} /\ S(n).kind \in {"tool", "agent"}
               /\ node[n].pc = "ready"
      <3>1. DependsOn(steps, S(n)) \subseteq succeeded
        BY <1>1, <2>3, CallIsJustified
      <3> QED BY <1>1, <1>6, <2>1, <2>3, <3>1 DEF Justified, S
    <2> QED BY <1>2, <2>2, <2>3 DEF Calls
  <1>10. ASSUME NEW st \in Held'
         PROVE  (/\ Restorable(st) /\ Achieved(st) /\ RepeatsItsOwn(st)
                 /\ Justified(st.version))'
    <2>1. st.version = steps /\ (Copied(st) \/ PausedNow(st))
      BY GoroutineVersions DEF RunInv
    <2>2. Justified(st.version)'
      BY <1>1, <1>9, <2>1 DEF Justified
    <2>3. CASE Copied(st)
      <3>1. PICK s \in Held :
                st.done = s.done /\ st.repeated = s.repeated /\ st.version = s.version
        BY <2>3 DEF Copied
      <3>2. Restorable(s) /\ Achieved(s) /\ RepeatsItsOwn(s)
        BY <3>1 DEF RunInv, Records
      <3>3. Restorable(st)' /\ Achieved(st)' /\ RepeatsItsOwn(st)'
        BY <1>6, <3>1, <3>2 DEF Restorable, Achieved, RepeatsItsOwn
      <3> QED BY <2>2, <3>3
    <2>4. CASE PausedNow(st)
      <3>1. st.done = Completed /\ st.version = steps
        BY <2>4 DEF PausedNow
      <3>2. Completed \subseteq succeeded \/ Reported(steps) \subseteq Completed
        BY <1>1 DEF RunInv, Doing
      <3>3. Achieved(st)' /\ RepeatsItsOwn(st)'
        BY <1>6, <2>4, <3>1, <3>2 DEF Achieved, PausedNow, RepeatsItsOwn
      <3>4. \A m \in Completed : DependsOn(steps, StepOf(steps, m)) \subseteq Completed
        <4> SUFFICES ASSUME NEW m \in Completed
                     PROVE  DependsOn(steps, S(m)) \subseteq Completed
          BY DEF S
        <4>1. m \in Ids(steps) /\ node[m].status = "success" /\ m \in Names
          BY <1>3, LoadableType DEF Completed
        <4>2. DepsSucceeded(m)
          BY <1>1, <4>1 DEF RunInv, Channels, NodeOk
        <4> QED BY <4>2 DEF DepsSucceeded, DependsOn, Completed
      <3>5. Restorable(st)'
        BY <3>1, <3>4 DEF Restorable
      <3> QED BY <2>2, <3>3, <3>5
    <2> QED BY <2>1, <2>3, <2>4
  <1> QED BY <1>8, <1>10 DEF Records

LEMMA NextRunInv == RunInv /\ [Next]_vars => RunInv'
  <1> SUFFICES ASSUME RunInv, [Next]_vars PROVE RunInv'
    OBVIOUS
  <1>1. SummariesLast' /\ TypeInv'
    BY NextTypeInv DEF RunInv, SummariesLast
  <1>2. ASSUME NEW n \in Names, Goroutine(n) PROVE RunInv'
    BY <1>1, <1>2, GoroutineVersions, GoroutineChannels, GoroutineRun DEF RunInv
  <1>3. CASE LoadState
    <2>1. called' = called /\ succeeded' = succeeded
      BY <1>3 DEF LoadState, history
    <2> QED BY <1>1, <1>3, <2>1, RunVersions, LoadStateRun, KnownRecords DEF RunInv, Known
  <1>4. CASE Crash
    <2>1. called' = called /\ succeeded' = succeeded /\ vpc' # "dag"
      BY <1>4 DEF Crash, history
    <2>2. Channels' /\ Doing'
      BY <2>1 DEF Channels, Doing
    <2> QED BY <1>1, <1>4, <2>1, <2>2, CrashVersions, KnownRecords DEF RunInv, Known
  <1>5. ASSUME Versions', Known, called' = called, succeeded' = succeeded,
               \/ vpc' # "dag"
               \/ vpc' = vpc /\ steps' = steps /\ node' = node /\ closed' = closed
        PROVE  RunInv'
    BY <1>1, <1>5, KnownRecords, SameChannels, SameDoing DEF RunInv
  <1>6. CASE DispatchPipeline \/ handleRunPipeline
    <2>1. /\ called' = called /\ succeeded' = succeeded /\ closed' = closed
          /\ vpc' # "dag" \/ (vpc' = vpc /\ steps' = steps /\ node' = node)
      BY <1>6 DEF DispatchPipeline, handleRunPipeline, history, dagVars, envVars
    <2> QED BY <1>5, <1>6, <2>1, PlannerVersions DEF RunInv
  <1>7. CASE (\E decision \in Operations : handleHumanDecision(decision)) \/ SaveDecision
    <2>1. /\ called' = called /\ succeeded' = succeeded /\ closed' = closed
          /\ vpc' # "dag"
      BY <1>7 DEF handleHumanDecision, Receive, SaveDecision, resumeFromState, history, dagVars,
                  Operations
    <2> QED BY <1>5, <1>7, <2>1, DecisionVersions DEF RunInv, Known
  <1>8. CASE LoadPanics \/ Finish
    <2>1. called' = called /\ succeeded' = succeeded /\ vpc' # "dag"
      BY <1>8 DEF LoadPanics, Finish, history
    <2> QED BY <1>5, <1>8, <2>1, RunVersions DEF RunInv, Known
  <1>9. CASE Analyst
    <2>1. /\ called' = called /\ succeeded' = succeeded /\ closed' = closed
          /\ vpc' = vpc /\ steps' = steps /\ node' = node
      BY <1>9 DEF Analyst, LoadCompletion, SaveCompletion, history, dagVars, envVars
    <2> QED BY <1>5, <1>9, <2>1, AnalystVersions DEF RunInv, Known
  <1>10. CASE \/ \E r \in Requests : \/ ReadDecision(r, "approved") \/ ReadDecision(r, "rejected")
                                     \/ SendDecision(r)
              \/ BreakJournal \/ UNCHANGED vars
    <2>1. /\ called' = called /\ succeeded' = succeeded /\ closed' = closed
          /\ vpc' = vpc /\ steps' = steps /\ node' = node
      BY <1>10 DEF ReadDecision, SendDecision, BreakJournal, vars, history, dagVars, envVars
    <2> QED BY <1>5, <1>10, <2>1, RequestVersions DEF RunInv, Known
  <1> QED BY <1>2, <1>3, <1>4, <1>6, <1>7, <1>8, <1>9, <1>10 DEF Next, Verifier, Operations

LEMMA SpecRunInv == SummariesLast /\ Spec => []RunInv
  <1>1. SummariesLast /\ Init => RunInv
    BY InitRunInv
  <1>2. RunInv /\ [Next]_vars => RunInv'
    BY NextRunInv
  <1> QED BY <1>1, <1>2, PTL DEF Spec

(***************************************************************************)
(* While the goroutines run every channel is open or closed once; outside  *)
(* a run, one is closed twice only by the loop over CompletedSteps.        *)
(***************************************************************************)
LEMMA RunClosesOnce == RunInv /\ vpc = "dag" => \A n \in Names : closed[n] <= 1
  <1> SUFFICES ASSUME RunInv, vpc = "dag", NEW n \in Names PROVE closed[n] <= 1
    OBVIOUS
  <1>1. CASE n \in Ids(steps)
    <2>1. NodeOk(n) /\ node[n].pc \in Places
      BY <1>1 DEF RunInv, Channels, TypeInv, TypeOK
    <2> QED BY <2>1 DEF NodeOk, Restored, Pending, Running, Places
  <1>2. CASE n \notin Ids(steps)
    BY <1>2 DEF RunInv, Channels
  <1> QED BY <1>1, <1>2

LEMMA NextClosesOnce ==
    ASSUME RunInv, RunInv', ChannelsCloseOnce, [Next]_vars
    PROVE  ChannelsCloseOnce'
  <1>1. CASE vpc' = "dag"
    <2>1. (RunInv /\ vpc = "dag" => \A n \in Names : closed[n] <= 1)'
      BY RunClosesOnce, PTL
    <2> QED BY <1>1, <2>1, NextTypeInv DEF RunInv, TypeInv, TypeOK, ChannelsCloseOnce
  <1>2. CASE vpc' # "dag" /\ closed' = closed /\ steps' = steps
    BY <1>2 DEF ChannelsCloseOnce
  <1>3. CASE LoadPanics
    <2>1. PICK twice \in ClosedTwice : closed' = [n \in Names |-> IF n = twice THEN 2 ELSE 0]
      BY <1>3 DEF LoadPanics
    <2>2. vpc = "load" /\ vpc' = "idle" /\ steps' = steps
      BY <1>3 DEF LoadPanics, envVars
    <2>3. store.version = steps /\ store \in Held
      BY <2>2 DEF RunInv, Versions, VersionsOfRun, Held
    <2>4. twice \in Repeated(steps)
      BY <2>3 DEF ClosedTwice, RunInv, Records, RepeatsItsOwn
    <2> QED BY <2>1, <2>2, <2>4 DEF ChannelsCloseOnce
  <1>4. CASE Crash
    BY <1>4 DEF Crash, ChannelsCloseOnce
  <1>5. ASSUME NEW n \in Names, Goroutine(n) PROVE vpc' = "dag"
    BY <1>5, GoroutineShape DEF RunInv, runUnchanged
  <1>6. CASE \/ DispatchPipeline \/ handleRunPipeline \/ SaveDecision \/ LoadState \/ Finish
             \/ \E decision \in Operations : handleHumanDecision(decision)
             \/ Analyst \/ BreakJournal \/ UNCHANGED vars
             \/ \E r \in Requests : \/ ReadDecision(r, "approved") \/ ReadDecision(r, "rejected")
                                    \/ SendDecision(r)
    <2>1. vpc' = "dag" \/ (closed' = closed /\ steps' = steps)
      BY <1>6 DEF DispatchPipeline, handleRunPipeline, handleHumanDecision, SaveDecision, LoadState,
                  Finish, Analyst, LoadCompletion, SaveCompletion, BreakJournal, ReadDecision,
                  SendDecision, vars, dagVars, envVars
    <2> QED BY <1>1, <1>2, <2>1
  <1> QED BY <1>1, <1>3, <1>4, <1>5, <1>6 DEF Next, Verifier, Operations

(***************************************************************************)
(* No goroutine of executeDAG closes a channel that is closed, which would *)
(* panic, in the first run or in one that is resumed from a pause, a       *)
(* completion or a failure: what CompletedSteps holds is never a step      *)
(* without those it depends on.  Ids may be repeated: then, and only then, *)
(* restoring a completed run may close a channel twice, before there is a  *)
(* goroutine.  SummariesLast is what the shipped pipelines keep and the    *)
(* loader does not check.                                                  *)
(***************************************************************************)
THEOREM ChannelsAreClosedOnce == SummariesLast /\ Spec => []ChannelsCloseOnce
  <1>1. Init => ChannelsCloseOnce
    BY DEF Init, ChannelsCloseOnce
  <1>2. RunInv /\ RunInv' /\ ChannelsCloseOnce /\ [Next]_vars => ChannelsCloseOnce'
    BY NextClosesOnce
  <1> QED BY <1>1, <1>2, SpecRunInv, PTL DEF Spec

(***************************************************************************)
(* executeDAG calls a tool or an agent only after every step it depends on *)
(* has succeeded, in this run or in an earlier one, across any number of   *)
(* pauses, approvals, failures and restarts with other definitions.        *)
(***************************************************************************)
THEOREM DependenciesComeFirst == SummariesLast /\ Spec => []DependenciesFirst
  <1>1. RunInv => DependenciesFirst
    <2> SUFFICES ASSUME RunInv PROVE DependenciesFirst
      OBVIOUS
    <2>1. CASE store = NoState
      BY <2>1 DEF DependenciesFirst, Recorded, Ids, Gone
    <2>2. CASE store # NoState
      <3>1. store \in Held
        BY <2>2 DEF RunInv, TypeInv, TypeOK, Held
      <3> QED BY <2>2, <3>1 DEF RunInv, Records, Justified, DependenciesFirst, Recorded
    <2> QED BY <2>1, <2>2
  <1> QED BY <1>1, SpecRunInv, PTL
-----------------------------------------------------------------------------
(***************************************************************************)
(* Before anybody has approved, a run starts once, with an empty record,   *)
(* and passes no gate: what has succeeded contains what it depends on and  *)
(* no gate, so that nothing behind a gate can have been called.            *)
(***************************************************************************)
Ungated(p) ==
    /\ \A m \in succeeded \cap Ids(p) : StepOf(p, m).kind # "gate"
    /\ \A m \in (called \cup succeeded) \cap Ids(p) :
          DependsOn(p, StepOf(p, m)) \subseteq succeeded

UngatedRun ==
    /\ vpc = "load" => store.done = {} /\ store.gate = "" /\ ~Summarizing
    /\ vpc = "dag" => exec.gate = "" /\ Completed \subseteq succeeded
    /\ vpc = "dag" => \A n \in Ids(steps) : node[n].pc = "calling" => S(n).kind # "gate"

Unapproved ==
    /\ vpc # "approved" /\ \A i \in DOMAIN inbox : inbox[i] # "approved"
    /\ UngatedRun
    /\ Channels
    /\ \A st \in Held : Ungated(st.version)

NotBegun == ~submitted \/ \E i \in DOMAIN inbox : inbox[i] = "run_pipeline"

ApprovalInv ==
    /\ TypeInv
    /\ Versions
    /\ NotBegun => succeeded = {}
    /\ Approvals = {} => Unapproved

LEMMA AncestorsWithin ==
    ASSUME NEW p, NEW step, NEW c \in SUBSET Ids(p), DependsOn(p, step) \subseteq c,
           \A a \in c : DependsOn(p, StepOf(p, a)) \subseteq c
    PROVE  Ancestors(p, step) \subseteq c
  BY DEF Ancestors

(***************************************************************************)
(* An admitted approval stays one.                                         *)
(***************************************************************************)
LEMMA ApprovalsStay ==
    ASSUME TypeOK, [Next]_vars
    PROVE  Approvals' = {} => Approvals = {}
  <1> SUFFICES ASSUME NEW r \in Requests, req[r].pc # "new", req[r].op = "approved"
               PROVE  req'[r].pc # "new" /\ req'[r].op = "approved"
    BY DEF Approvals
  <1>1. req \in [Requests -> [pc : {"new", "admitted", "sent"}, op : Operations]]
    BY DEF TypeOK
  <1>2. CASE req' = req
    BY <1>2
  <1>3. ASSUME NEW q \in Requests, ReadDecision(q, "approved") \/ ReadDecision(q, "rejected")
        PROVE  req'[r] = req[r]
    BY <1>1, <1>3 DEF ReadDecision
  <1>4. ASSUME NEW q \in Requests, SendDecision(q)
        PROVE  req'[r].pc # "new" /\ req'[r].op = req[r].op
    BY <1>1, <1>4 DEF SendDecision
  <1>5. CASE Crash
    BY <1>1, <1>5 DEF Crash
  <1>6. ASSUME NEW n \in Names, Goroutine(n) PROVE req' = req
    BY <1>6 DEF Goroutine, DependencyFails, Begin, SkipStep, PassGate, PauseAtGate, SendToAnalyst,
                InternalTool, StartTool, NotStarted, ToolSucceeds, AgentFails, ToolFails, LoadFailed,
                SaveFailed, runUnchanged
  <1>7. CASE DispatchPipeline \/ Verifier \/ Analyst \/ BreakJournal \/ UNCHANGED vars
    BY <1>7 DEF DispatchPipeline, Verifier, handleRunPipeline, handleHumanDecision, SaveDecision,
                LoadState, LoadPanics, Finish, Analyst, LoadCompletion, SaveCompletion,
                BreakJournal, vars
  <1> QED BY <1>2, <1>3, <1>4, <1>5, <1>6, <1>7 DEF Next

(***************************************************************************)
(* A gate's goroutine succeeds only in PassGate, when the run resumes from *)
(* a gate.                                                                 *)
(***************************************************************************)
LEMMA GateHolds ==
    ASSUME TypeInv, UngatedRun, NEW n \in Names, Goroutine(n)
    PROVE  /\ S(n).kind = "gate" => succeeded' = succeeded
           /\ node'[n].pc = "calling" => S(n).kind # "gate"
  <1>1. vpc = "dag" /\ n \in Ids(steps)
    BY GoroutineShape
  <1>2. node \in [Names -> [pc : Places, status : Statuses]]
    BY DEF TypeInv, TypeOK
  <1>3. exec.gate = "" /\ (node[n].pc = "calling" => S(n).kind # "gate")
    BY <1>1 DEF UngatedRun
  <1>4. S(n).kind = "gate" => S(n).gate # ""
    <2>1. steps \in Pipelines /\ steps \in Seq(Step)
      BY <1>1, LoadableType DEF TypeInv, TypeOK, Loadable, Ids, Gone
    <2>2. PICK i \in DOMAIN steps : S(n) = steps[i]
      BY <1>1, <2>1, StepOfType DEF S
    <2> QED BY <2>1, <2>2, PipelinesAssumption DEF PipelinesAssumption
  <1>5. ~PassGate(n)
    BY <1>3, <1>4 DEF PassGate
  <1>6. ASSUME NEW status, Close(n, status)
        PROVE  node'[n].pc = "done" /\ (status # "success" => succeeded' = succeeded)
    BY <1>2, <1>6 DEF Close, Move
  <1>7. ASSUME NEW pc, NEW status, Move(n, pc, status) PROVE node'[n].pc = pc
    BY <1>2, <1>7 DEF Move
  <1>8. CASE DependencyFails(n) \/ SkipStep(n) \/ PauseAtGate(n) \/ NotStarted(n) \/ AgentFails(n)
             \/ SaveFailed(n)
    BY <1>6, <1>8 DEF DependencyFails, SkipStep, PauseAtGate, NotStarted, AgentFails, SaveFailed
  <1>9. CASE SendToAnalyst(n) \/ InternalTool(n)
    BY <1>6, <1>9 DEF SendToAnalyst, InternalTool
  <1>10. CASE ToolSucceeds(n)
    BY <1>3, <1>6, <1>10 DEF ToolSucceeds, Locking, At
  <1>11. CASE Begin(n) \/ ToolFails(n) \/ LoadFailed(n)
    BY <1>7, <1>11 DEF Begin, ToolFails, LoadFailed, history
  <1>12. CASE StartTool(n)
    BY <1>7, <1>12 DEF StartTool
  <1> QED BY <1>5, <1>8, <1>9, <1>10, <1>11, <1>12 DEF Goroutine

LEMMA GoroutineUnapproved ==
    ASSUME TypeInv, Versions, Unapproved, NEW n \in Names, Goroutine(n)
    PROVE  Unapproved'
  <1>1. /\ vpc = "dag" /\ vpc' = vpc /\ steps' = steps /\ inbox' = inbox /\ n \in Ids(steps)
        /\ Shape(n)
    BY GoroutineShape DEF runUnchanged, envVars
  <1>2. PICK pc \in Places, status \in Statuses :
            Move(n, pc, status) /\ Flow(n, pc, status) /\ Keeps(n, pc) /\ Calls(n, status)
    BY <1>1 DEF Shape
  <1>3. store.version = steps /\ store \in Held /\ steps \in Loadable \cup {Gone}
    BY <1>1 DEF Versions, VersionsOfRun, Held, TypeInv, TypeOK, Locals
  <1>4. /\ node'[n].status = status
        /\ \A m \in Names \ {n} : node'[m] = node[m]
    BY <1>2 DEF Move, TypeInv, TypeOK
  <1>5. /\ exec.gate = "" /\ exec \in ExecutionState /\ Completed \subseteq succeeded
        /\ \A m \in Ids(steps) : node[m].pc = "calling" => S(m).kind # "gate"
    BY <1>1 DEF Unapproved, UngatedRun, TypeInv, Locals
  <1>6. NodeOk(n)
    BY <1>1 DEF Unapproved, Channels
  <1>7. exec'.gate = ""
    BY <1>2, <1>5 DEF Keeps, Failed, ExecutionState
  <1>8. Ids(steps) \subseteq Names
    BY <1>3, LoadableType
  <1>9. Completed' \subseteq succeeded'
    <2>1. succeeded \subseteq succeeded'
      BY <1>2 DEF Calls
    <2>2. status = "success" => n \in succeeded'
      <3>1. CASE succeeded' = succeeded \cup {n}
        BY <3>1
      <3>2. CASE status = "success" /\ node[n].pc = "wait"
        <4>1. node[n].status = "success"
          BY <1>2, <3>2 DEF Flow, Running, Halting
        <4> QED BY <1>1, <1>5, <2>1, <4>1 DEF Completed
      <3> QED BY <1>2, <3>1, <3>2 DEF Calls
    <2>3. \A m \in Completed' : m \in Completed \/ (m = n /\ status = "success")
      BY <1>1, <1>4, <1>8 DEF Completed
    <2> QED BY <1>5, <2>1, <2>2, <2>3
  <1>10. UngatedRun'
    <2>1. \A m \in Ids(steps) : node'[m].pc = "calling" => S(m).kind # "gate"
      BY <1>4, <1>5, <1>8, GateHolds DEF Unapproved
    <2> QED BY <1>1, <1>7, <1>9, <2>1 DEF UngatedRun, S
  <1>11. Ungated(steps)'
    <2>1. Ungated(steps)
      BY <1>3 DEF Unapproved
    <2>2. succeeded \subseteq succeeded' /\ succeeded' \subseteq succeeded \cup {n}
          /\ called' \subseteq called \cup {n}
      BY <1>2 DEF Calls
    <2>3. n \in called' \ called \/ n \in succeeded' \ succeeded
             => node[n].status \in {"success", "running"}
      <3>1. n \in called' \ called => node[n].pc = "ready"
        BY <1>2 DEF Calls
      <3>2. n \in succeeded' \ succeeded => status = "success"
        BY <1>2 DEF Calls
      <3>3. status = "success" => node[n].pc \in Running \/ node[n].status = "success"
        BY <1>2 DEF Flow, Halting
      <3> QED BY <1>6, <3>1, <3>2, <3>3 DEF NodeOk, Running
    <2>4. n \in called' \ called \/ n \in succeeded' \ succeeded
             => DependsOn(steps, StepOf(steps, n)) \subseteq succeeded
      <3>1. DepsSucceeded(n) => DependsOn(steps, S(n)) \subseteq Completed
        BY DEF DepsSucceeded, DependsOn, Completed
      <3> QED BY <1>5, <1>6, <2>3, <3>1 DEF NodeOk, S
    <2>5. n \in succeeded' \ succeeded => StepOf(steps, n).kind # "gate"
      BY GateHolds DEF Unapproved, S
    <2> QED BY <1>1, <2>1, <2>2, <2>4, <2>5 DEF Ungated
  <1>12. \A st \in Held' : Ungated(st.version)'
    BY <1>1, <1>11, GoroutineVersions DEF Ungated
  <1>13. Channels'
    BY GoroutineChannels DEF Unapproved
  <1> QED BY <1>1, <1>10, <1>12, <1>13 DEF Unapproved

(***************************************************************************)
(* The planner's dispatch and run_pipeline find a task nothing has been    *)
(* done for.                                                               *)
(***************************************************************************)
LEMMA PlannerUnapproved ==
    ASSUME ApprovalInv, Unapproved, DispatchPipeline \/ handleRunPipeline
    PROVE  Unapproved'
  <1>1. NotBegun /\ Untouched
    <2>1. CASE DispatchPipeline
      BY <2>1 DEF DispatchPipeline, ApprovalInv, TypeInv, Fresh, NotBegun
    <2>2. CASE handleRunPipeline
      <3>1. 1 \in DOMAIN inbox /\ inbox[1] = "run_pipeline"
        BY <2>2 DEF handleRunPipeline, Receive, ApprovalInv, TypeInv, TypeOK
      <3> QED BY <3>1 DEF ApprovalInv, TypeInv, Fresh, NotBegun
    <2> QED BY <2>1, <2>2
  <1>2. called = {} /\ succeeded = {} /\ vpc = "idle" /\ ~Summarizing
    BY <1>1 DEF ApprovalInv, Untouched, Summarizing
  <1>3. /\ called' = called /\ succeeded' = succeeded /\ closed' = closed
        /\ abox' = abox /\ analyst' = analyst /\ vpc' \in {"idle", "load"}
    BY <1>2 DEF DispatchPipeline, handleRunPipeline, history, dagVars, analystVars
  <1>4. \A i \in DOMAIN inbox' : inbox'[i] # "approved"
    <2>1. inbox \in Seq({"run_pipeline"} \cup Operations)
      BY DEF ApprovalInv, TypeInv, TypeOK
    <2>2. CASE DispatchPipeline
      BY <2>1, <2>2, SendType DEF DispatchPipeline, Unapproved
    <2>3. CASE handleRunPipeline
      BY <2>1, <2>3, ReceiveType DEF handleRunPipeline, Unapproved
    <2> QED BY <2>2, <2>3
  <1>5. vpc' = "load" => store'.done = {} /\ store'.gate = ""
    <2> SUFFICES ASSUME vpc' = "load"
                 PROVE  store'.done = {} /\ store'.gate = ""
      OBVIOUS
    <2>1. handleRunPipeline
      BY <1>2 DEF DispatchPipeline
    <2>2. 1 \in DOMAIN inbox /\ inbox[1] = "run_pipeline"
      BY <2>1 DEF handleRunPipeline, Receive, ApprovalInv, TypeInv, TypeOK
    <2>3. store = Blank
      BY <2>2 DEF ApprovalInv, TypeInv, Fresh
    <2>4. store' = [store EXCEPT !.version = steps]
      BY <1>2, <2>1 DEF handleRunPipeline
    <2> QED BY <2>3, <2>4 DEF Blank
  <1>6. UngatedRun'
    BY <1>2, <1>3, <1>5 DEF UngatedRun, Summarizing
  <1>7. Channels'
    BY <1>3, SameChannels DEF Unapproved
  <1>8. \A st \in Held' : Ungated(st.version)'
    BY <1>2, <1>3 DEF Ungated
  <1> QED BY <1>3, <1>4, <1>6, <1>7, <1>8 DEF Unapproved

(***************************************************************************)
(* The other actions call nothing and take their records from others.      *)
(***************************************************************************)
LEMMA DerivedUngated ==
    ASSUME Unapproved, called' = called, succeeded' = succeeded, Derived
    PROVE  \A st \in Held' : Ungated(st.version)'
  <1> SUFFICES ASSUME NEW st \in Held' PROVE Ungated(st.version)'
    OBVIOUS
  <1>1. PICK s \in Held : st.version = s.version
    BY DEF Derived, Copied, ReportedNow
  <1> QED BY <1>1 DEF Unapproved, Ungated

LEMMA LoadStateUnapproved ==
    ASSUME TypeInv, Versions, Unapproved, LoadState
    PROVE  Unapproved'
  <1>1. /\ vpc = "load" /\ vpc' = "dag" /\ steps' = steps /\ inbox' = inbox /\ store' = store
        /\ exec' = store /\ analyst' = analyst /\ called' = called /\ succeeded' = succeeded
        /\ steps \in Loadable \cup {Gone}
    BY DEF LoadState, analystVars, envVars, history, TypeInv, TypeOK
  <1>2. store.done = {} /\ store.gate = ""
    BY <1>1 DEF Unapproved, UngatedRun
  <1>3. \A n \in Names : closed'[n] = 0
    BY <1>2 DEF LoadState
  <1>4. \A n \in Ids(steps) : node'[n].pc = "wait" /\ node'[n].status = "pending"
    BY <1>1, <1>2, LoadableType DEF LoadState
  <1>5. Channels'
    BY <1>1, <1>3, <1>4, LoadableType
       DEF Channels, NodeOk, Pending, Running
  <1>6. UngatedRun'
    BY <1>1, <1>2, <1>4 DEF UngatedRun, Completed
  <1>7. \A st \in Held' : Ungated(st.version)'
    BY <1>1, RunVersions, DerivedUngated
  <1> QED BY <1>1, <1>5, <1>6, <1>7 DEF Unapproved

LEMMA RestUnapproved ==
    ASSUME ApprovalInv, Unapproved, Approvals = {},
           \/ \E decision \in Operations : handleHumanDecision(decision)
           \/ SaveDecision \/ LoadPanics \/ Finish \/ Analyst
           \/ \E r \in Requests : ReadDecision(r, "rejected") \/ SendDecision(r)
           \/ BreakJournal \/ Crash \/ UNCHANGED vars
    PROVE  Unapproved'
  <1>1. called' = called /\ succeeded' = succeeded
    BY DEF handleHumanDecision, SaveDecision, LoadPanics, Finish, Analyst, LoadCompletion,
           SaveCompletion, ReadDecision, SendDecision, BreakJournal, Crash, vars, history
  <1>2. Derived
    BY DecisionVersions, RunVersions, AnalystVersions, RequestVersions, CrashVersions
       DEF ApprovalInv
  <1>3. \A st \in Held' : Ungated(st.version)'
    BY <1>1, <1>2, DerivedUngated
  <1>4. inbox \in Seq({"run_pipeline"} \cup Operations) /\ \A i \in DOMAIN inbox : inbox[i] # "approved"
    BY DEF ApprovalInv, TypeInv, TypeOK, Unapproved
  <1>5. ASSUME vpc' \in {"idle", "rejected"},
               \A i \in DOMAIN inbox' : inbox'[i] # "approved"
        PROVE  Unapproved'
    <2>1. Channels'
      BY <1>5 DEF Channels
    <2>2. UngatedRun'
      BY <1>5 DEF UngatedRun
    <2> QED BY <1>3, <1>5, <2>1, <2>2 DEF Unapproved
  <1>6. ASSUME vpc' = vpc, closed' = closed, steps' = steps, node' = node, exec' = exec,
               \/ store' = store /\ abox' = abox /\ analyst' = analyst
               \/ Summarizing,
               \A i \in DOMAIN inbox' : inbox'[i] # "approved"
        PROVE  Unapproved'
    <2>1. Channels'
      BY <1>6, SameChannels DEF Unapproved
    <2>2. UngatedRun'
      BY <1>1, <1>6 DEF Unapproved, UngatedRun, Completed, S, Summarizing
    <2> QED BY <1>3, <1>6, <2>1, <2>2 DEF Unapproved
  <1>7. ASSUME NEW decision \in Operations, handleHumanDecision(decision) PROVE Unapproved'
    <2>1. /\ 1 \in DOMAIN inbox /\ inbox[1] = decision /\ vpc = "idle"
          /\ \A i \in DOMAIN inbox' : i + 1 \in DOMAIN inbox /\ inbox'[i] = inbox[i + 1]
      BY <1>4, <1>7, ReceiveType DEF handleHumanDecision, Receive, Operations
    <2>2. decision = "rejected"
      BY <1>4, <2>1 DEF Operations
    <2>3. vpc' \in {"idle", "rejected"}
      BY <1>7, <2>1, <2>2 DEF handleHumanDecision
    <2> QED BY <1>4, <1>5, <2>1, <2>3
  <1>8. CASE SaveDecision
    <2>1. vpc' = "idle" /\ inbox' = inbox
      BY <1>8 DEF SaveDecision, Unapproved
    <2> QED BY <1>4, <1>5, <2>1
  <1>9. CASE LoadPanics \/ Finish
    BY <1>4, <1>5, <1>9 DEF LoadPanics, Finish
  <1>10. CASE Analyst
    <2>1. Summarizing
      BY <1>10 DEF Analyst, LoadCompletion, SaveCompletion, Summarizing
    <2>2. /\ vpc' = vpc /\ closed' = closed /\ steps' = steps /\ node' = node /\ exec' = exec
          /\ inbox' = inbox
      BY <1>10 DEF Analyst, LoadCompletion, SaveCompletion, dagVars, envVars
    <2> QED BY <1>4, <1>6, <2>1, <2>2
  <1>11. CASE (\E r \in Requests : ReadDecision(r, "rejected")) \/ BreakJournal \/ UNCHANGED vars
    <2>1. /\ vpc' = vpc /\ closed' = closed /\ steps' = steps /\ node' = node /\ exec' = exec
          /\ inbox' = inbox /\ store' = store /\ abox' = abox /\ analyst' = analyst
      BY <1>11 DEF ReadDecision, BreakJournal, vars, dagVars, envVars, analystVars
    <2> QED BY <1>4, <1>6, <2>1
  <1>12. ASSUME NEW r \in Requests, SendDecision(r) PROVE Unapproved'
    <2>1. /\ vpc' = vpc /\ closed' = closed /\ steps' = steps /\ node' = node /\ exec' = exec
          /\ store' = store /\ abox' = abox /\ analyst' = analyst
          /\ Send(req[r].op) /\ req[r].pc = "admitted"
      BY <1>12 DEF SendDecision, dagVars, envVars, analystVars
    <2>2. req[r].op \in Operations /\ req[r].op # "approved"
      BY <2>1 DEF Approvals, ApprovalInv, TypeInv, TypeOK
    <2>3. \A i \in DOMAIN inbox' : inbox'[i] # "approved"
      BY <1>4, <2>1, <2>2, SendType
    <2> QED BY <1>6, <2>1, <2>3
  <1>13. CASE Crash
    BY <1>5, <1>13 DEF Crash
  <1> QED BY <1>7, <1>8, <1>9, <1>10, <1>11, <1>12, <1>13

LEMMA BegunStays ==
    ASSUME ApprovalInv, [Next]_vars
    PROVE  NotBegun' => succeeded' = {}
  <1>1. inbox \in Seq({"run_pipeline"} \cup Operations)
    BY DEF ApprovalInv, TypeInv, TypeOK
  <1>2. NotBegun => Untouched /\ succeeded = {}
    BY DEF NotBegun, ApprovalInv, TypeInv, Fresh
  <1>3. ASSUME NEW n \in Names, Goroutine(n) PROVE ~NotBegun'
    <2>1. vpc = "dag" /\ submitted' = submitted /\ inbox' = inbox
      BY <1>3, GoroutineShape DEF ApprovalInv, runUnchanged
    <2>2. ~NotBegun
      BY <1>2, <2>1 DEF Untouched
    <2> QED BY <2>1, <2>2 DEF NotBegun
  <1>4. CASE ~\E n \in Names : Goroutine(n)
    <2>1. succeeded' = succeeded
      BY <1>4 DEF Next, DispatchPipeline, Verifier, handleRunPipeline, handleHumanDecision,
                  SaveDecision, LoadState, LoadPanics, Finish, Analyst, LoadCompletion,
                  SaveCompletion, ReadDecision, SendDecision, BreakJournal, Crash, vars, history
    <2>2. NotBegun' => NotBegun
      <3>1. CASE DispatchPipeline
        BY <3>1 DEF DispatchPipeline, NotBegun
      <3>2. ASSUME NEW type \in {"run_pipeline"} \cup Operations, Receive(type),
                   submitted' = submitted
            PROVE  NotBegun' => NotBegun
        BY <1>1, <3>2, ReceiveType DEF NotBegun
      <3>3. ASSUME NEW r \in Requests, SendDecision(r) PROVE NotBegun' => NotBegun
        <4>1. req[r].op \in Operations /\ Send(req[r].op) /\ submitted' = submitted
          BY <3>3 DEF SendDecision, ApprovalInv, TypeInv, TypeOK
        <4> QED BY <1>1, <4>1, SendType DEF NotBegun, Operations
      <3>4. CASE Crash
        BY <3>4 DEF Crash, NotBegun
      <3>5. CASE \/ SaveDecision \/ LoadState \/ LoadPanics \/ Finish \/ Analyst
                 \/ BreakJournal \/ UNCHANGED vars
                 \/ \E r \in Requests : ReadDecision(r, "approved") \/ ReadDecision(r, "rejected")
        BY <3>5 DEF SaveDecision, LoadState, LoadPanics, Finish, Analyst, LoadCompletion,
                    SaveCompletion, ReadDecision, BreakJournal, vars, NotBegun
      <3> QED BY <1>4, <3>1, <3>2, <3>3, <3>4, <3>5
              DEF Next, Verifier, handleRunPipeline, handleHumanDecision, Operations
    <2> QED BY <1>2, <2>1, <2>2
  <1> QED BY <1>3, <1>4

LEMMA NextApprovalInv == ApprovalInv /\ [Next]_vars => ApprovalInv'
  <1> SUFFICES ASSUME ApprovalInv, [Next]_vars PROVE ApprovalInv'
    OBVIOUS
  <1>1. TypeInv' /\ (NotBegun' => succeeded' = {})
    BY NextTypeInv, BegunStays DEF ApprovalInv
  <1>2. Versions'
    BY GoroutineVersions, PlannerVersions, DecisionVersions, RunVersions, AnalystVersions,
       RequestVersions, CrashVersions
       DEF ApprovalInv, Next, Verifier, Operations
  <1>3. ASSUME Approvals' = {} PROVE Unapproved'
    <2>1. Approvals = {} /\ Unapproved
      BY <1>3, ApprovalsStay DEF ApprovalInv, TypeInv
    <2>2. ASSUME NEW r \in Requests, ReadDecision(r, "approved") PROVE FALSE
      <3>1. req \in [Requests -> [pc : {"new", "admitted", "sent"}, op : Operations]]
        BY DEF ApprovalInv, TypeInv, TypeOK
      <3>2. req'[r] = [pc |-> "admitted", op |-> "approved"]
        BY <2>2, <3>1 DEF ReadDecision
      <3> QED BY <1>3, <3>2 DEF Approvals
    <2> QED BY <2>1, <2>2, GoroutineUnapproved, PlannerUnapproved, LoadStateUnapproved,
               RestUnapproved DEF ApprovalInv, Next, Verifier, Operations
  <1> QED BY <1>1, <1>2, <1>3 DEF ApprovalInv

LEMMA InitApprovalInv == Init => ApprovalInv
  <1> SUFFICES ASSUME Init PROVE ApprovalInv
    OBVIOUS
  <1>1. Channels
    BY DEF Init, Channels
  <1>2. Held = {}
    BY ValuesAssumption DEF ValuesAssumption, Init, Held, Deciding
  <1>3. Unapproved
    BY <1>1, <1>2 DEF Init, Unapproved, UngatedRun
  <1> QED BY <1>3, InitTypeInv, InitVersions DEF Init, ApprovalInv

LEMMA SpecApprovalInv == Spec => []ApprovalInv
  BY InitApprovalInv, NextApprovalInv, PTL DEF Spec

(***************************************************************************)
(* executeDAG calls no dangerous tool, and nothing else that depends on a  *)
(* gate, directly or not, before somebody has approved: in any definition  *)
(* validatePipelineSafety lets pass, whatever runs, pauses or fails beside *)
(* it, and across restarts with other definitions.                         *)
(***************************************************************************)
THEOREM NothingDangerousUnapproved == Spec => []ApprovedBeforeDangerous
  <1>1. ApprovalInv => ApprovedBeforeDangerous
    <2> SUFFICES ASSUME ApprovalInv, NEW n \in called \cap Ids(Recorded), Approvals = {}
                 PROVE  ~StepOf(Recorded, n).dangerous /\ GatesBefore(Recorded, n) = {}
      BY DEF ApprovedBeforeDangerous
    <2> DEFINE p == Recorded
               step == StepOf(p, n)
               c == succeeded \cap Ids(p)
    <2>1. store \in ExecutionState /\ p = store.version /\ p \in Loadable
      <3>1. Recorded # Gone
        BY DEF Ids, Gone
      <3>2. store # NoState /\ Recorded = store.version
        BY <3>1 DEF Recorded
      <3>3. store \in ExecutionState
        BY <3>2 DEF ApprovalInv, TypeInv, TypeOK
      <3>4. store.version \in Loadable \cup {Gone}
        BY <3>3 DEF ExecutionState
      <3> QED BY <3>1, <3>2, <3>3, <3>4
    <2>2. Ungated(p)
      BY <2>1 DEF ApprovalInv, Unapproved, Held
    <2>3. DependsOn(p, step) \subseteq c /\ \A a \in c : DependsOn(p, StepOf(p, a)) \subseteq c
      BY <2>2 DEF Ungated, DependsOn
    <2>4. Ancestors(p, step) \subseteq c
      <3> HIDE DEF p, step, c
      <3>1. c \in SUBSET Ids(p)
        BY DEF c
      <3> QED BY <2>3, <3>1, AncestorsWithin
    <2>5. \A a \in Ancestors(p, step) : StepOf(p, a).kind # "gate"
      BY <2>2, <2>4 DEF Ungated
    <2>6. PICK i \in DOMAIN p : step = p[i]
      BY <2>1, LoadableType, StepOfType
    <2>7. ~step.dangerous
      BY <2>1, <2>5, <2>6 DEF Loadable, validatePipelineSafety, approvedBefore
    <2> QED BY <2>5, <2>7 DEF GatesBefore
  <1> QED BY <1>1, SpecApprovalInv, PTL
-----------------------------------------------------------------------------
(***************************************************************************)
(* What depends, directly or not, on a step that may be skipped may be     *)
(* skipped.                                                                *)
(***************************************************************************)
LEMMA AncestorsClosed ==
    ASSUME NEW p, NEW step
    PROVE  /\ Ancestors(p, step) \subseteq Ids(p)
           /\ DependsOn(p, step) \subseteq Ancestors(p, step)
           /\ \A a \in Ancestors(p, step) : DependsOn(p, StepOf(p, a)) \subseteq Ancestors(p, step)
  BY DEF Ancestors, DependsOn

LEMMA SkipSpreads ==
    ASSUME NEW p, NEW n, NEW d \in DependsOn(p, StepOf(p, n)), MaySkip(p, d)
    PROVE  MaySkip(p, n)
  <1> DEFINE c == Ancestors(p, StepOf(p, n))
  <1>1. d \in c /\ c \subseteq Ids(p)
        /\ \A a \in c : DependsOn(p, StepOf(p, a)) \subseteq c
    BY AncestorsClosed
  <1> HIDE DEF c
  <1>2. DependsOn(p, StepOf(p, d)) \subseteq c
    BY <1>1
  <1>3. Ancestors(p, StepOf(p, d)) \subseteq c
    BY <1>1, <1>2, AncestorsWithin
  <1> QED BY <1>1, <1>3 DEF MaySkip, c

(***************************************************************************)
(* In the shipped definitions an analyst's step comes after every other    *)
(* step; the loader does not check it, and an analyst beside other steps   *)
(* reports a run completed that is still under way.                        *)
(***************************************************************************)
AnalystsLast ==
    \A p \in Loadable : \A n \in Ids(p) :
        StepOf(p, n).kind = "analyst" => Ids(p) \subseteq Ancestors(p, StepOf(p, n)) \cup {n}

AllDone(p) == \A n \in Ids(p) : n \in succeeded \/ MaySkip(p, n)

(***************************************************************************)
(* What a record or a run says is completed has succeeded, unless the      *)
(* whole pipeline has been done.                                           *)
(***************************************************************************)
Backed(done, p) == done \cap Ids(p) \subseteq succeeded \/ AllDone(p)

RecordsBacked ==
    \A st \in Held :
        /\ Backed(st.done, st.version)
        /\ st.status = "completed" => AllDone(st.version)

Skipped == {"skipped", "cascaded_skip"}

(***************************************************************************)
(* A step is skipped for its condition, for that of a step it depends on,  *)
(* or for a failure, which the end of the run will find.                   *)
(***************************************************************************)
RunBacked ==
    vpc = "dag" =>
        /\ Backed(Completed, steps)
        /\ \A n \in Ids(steps) : node[n].status \in Skipped =>
               MaySkip(steps, n) \/ \E m \in Ids(steps) : node[m].status = "failed"

DoneInv ==
    /\ Summarizing => AllDone(steps)
    /\ RecordsBacked
    /\ RunBacked

LEMMA BackedStays ==
    ASSUME succeeded \subseteq succeeded', NEW done, NEW p
    PROVE  /\ AllDone(p) => AllDone(p)'
           /\ Backed(done, p) => Backed(done, p)'
  BY DEF AllDone, Backed

(***************************************************************************)
(* Only the analyst writes "completed".                                    *)
(***************************************************************************)
CompletedBefore(st) ==
    \/ \E s \in Held : s.status = "completed" /\ s.version = st.version
    \/ Summarizing /\ st.version = steps

LEMMA GoroutineStatus ==
    ASSUME TypeInv, Versions, NEW n \in Names, Goroutine(n), NEW st \in Held',
           st.status = "completed"
    PROVE  CompletedBefore(st)
  <1>1. vpc = "dag" /\ n \in Ids(steps) /\ Shape(n) /\ runUnchanged' = runUnchanged
    BY GoroutineShape
  <1>2. PICK pc \in Places, status \in Statuses : Move(n, pc, status) /\ Saves(n) /\ Keeps(n, pc)
    BY <1>1 DEF Shape
  <1>3. store \in ExecutionState /\ exec \in ExecutionState
    BY <1>1, LoggedType
  <1>4. store \in Held /\ exec \in Held
    BY <1>1, <1>3 DEF Held
  <1>5. Failed(exec).status # "completed"
    BY <1>3 DEF Failed, ExecutionState
  <1>6. S(n).kind = "gate" => Paused(n).status # "completed" /\ Failed(Paused(n)).status # "completed"
    BY DEF Paused, nextState, Failed
  <1>7. ASSUME NEW m \in Names, node[m].pc = "failsave", NEW outcome \in {"error", "rejected"}
        PROVE  [fst EXCEPT !.status = outcome].status # "completed"
    BY <1>1, <1>7 DEF TypeInv, Mutex, ExecutionState
  <1>8. st = store' => st = store
    BY <1>2, <1>5, <1>6, <1>7 DEF Saves
  <1>9. st = exec' => st = exec
    BY <1>2, <1>5 DEF Keeps
  <1>10. CASE st = fst' /\ \E m \in Names : node'[m].pc = "failsave"
    <2> PICK m \in Names : node'[m].pc = "failsave"
      BY <1>10
    <2>1. node \in [Names -> [pc : Places, status : Statuses]]
      BY DEF TypeInv, TypeOK
    <2>2. m # n => node[m].pc = "failsave"
      BY <1>2, <2>1 DEF Move
    <2>3. m = n => pc = "failsave"
      BY <1>2, <2>1 DEF Move
    <2>4. CASE pc = "failsave"
      BY <1>2, <1>4, <1>10, <2>4 DEF Keeps, CompletedBefore
    <2>5. CASE m # n
      <3>1. node[n].pc # "failsave"
        BY <1>1, <2>2, <2>5, HolderFails DEF FailPcs
      <3>2. st = fst \/ st = store
        BY <1>2, <1>10, <3>1 DEF Keeps
      <3>3. fst \in ExecutionState
        BY <1>1, <2>2, <2>5 DEF TypeInv, Mutex
      <3>4. fst \in Held
        BY <1>1, <2>2, <2>5, <3>3 DEF Held
      <3> QED BY <1>4, <3>2, <3>4 DEF CompletedBefore
    <2> QED BY <2>3, <2>4, <2>5
  <1>11. CASE Deciding' /\ st = vst'
    BY <1>1, <1>11 DEF Deciding, runUnchanged
  <1>12. CASE analyst'.pc = "save" /\ st = analyst'.st
    <2>1. analyst' = analyst
      BY <1>1 DEF runUnchanged
    <2>2. st \in Held
      BY <1>12, <2>1 DEF Held
    <2> QED BY <2>2 DEF CompletedBefore
  <1> QED BY <1>4, <1>8, <1>9, <1>10, <1>11, <1>12 DEF Held, CompletedBefore

LEMMA OtherStatus ==
    ASSUME TypeInv, Versions, [Next]_vars, ~ \E n \in Names : Goroutine(n), NEW st \in Held',
           st.status = "completed"
    PROVE  CompletedBefore(st)
  <1>1. CASE Held' \subseteq Held
    BY <1>1 DEF CompletedBefore
  <1>2. CASE DispatchPipeline
    <2>1. Untouched /\ store' = Blank
      BY <1>2 DEF DispatchPipeline, TypeInv, Fresh
    <2>2. st = store'
      BY <1>2, <2>1 DEF DispatchPipeline, Untouched, Held, Deciding, analystVars
    <2> QED BY <2>1, <2>2 DEF Blank
  <1>3. CASE handleRunPipeline
    <2> DEFINE r == [store EXCEPT !.version = steps]
    <2>1. 1 \in DOMAIN inbox /\ inbox[1] = "run_pipeline"
      BY <1>3 DEF handleRunPipeline, Receive, TypeInv, TypeOK
    <2>2. store = Blank /\ Untouched
      BY <2>1 DEF TypeInv, Fresh
    <2>3. r.status = "" /\ Failed(r).status = "error"
      BY <2>2 DEF Blank, Failed
    <2> HIDE DEF r
    <2>4. (store' = r /\ vpc' = "load") \/ (store' = Failed(r) /\ vpc' = vpc)
      BY <1>3 DEF handleRunPipeline, r
    <2>5. analyst' = analyst
      BY <1>3 DEF handleRunPipeline, analystVars
    <2>6. st = store'
      BY <2>2, <2>4, <2>5 DEF Untouched, Held, Deciding
    <2> QED BY <2>3, <2>4, <2>6
  <1>4. CASE \E decision \in Operations : handleHumanDecision(decision)
    <2>1. /\ store' = store /\ (vpc' = "idle" \/ (Deciding' /\ vst' = store /\ store # NoState))
          /\ analyst' = analyst
      BY <1>4 DEF handleHumanDecision, Receive, Operations, Deciding, analystVars
    <2>2. Held' \subseteq Held
      BY <2>1 DEF Held, Deciding
    <2> QED BY <1>1, <2>2
  <1>5. CASE SaveDecision
    <2> DEFINE r == [vst EXCEPT !.status = "rejected", !.gate = ""]
    <2>1. vst \in ExecutionState /\ vst \in Held /\ analyst' = analyst
      BY <1>5 DEF SaveDecision, TypeInv, Locals, Held, Deciding, analystVars
    <2>2. r.status = "rejected" /\ Failed(vst).status = "error"
      BY <2>1 DEF ExecutionState, Failed
    <2> HIDE DEF r
    <2>3. store' \in {NoState, r, Failed(vst), vst} /\ vpc' \in {"idle", "load"}
      BY <1>5 DEF SaveDecision, resumeFromState, r
    <2>4. CASE analyst.pc = "save" /\ st = analyst.st
      BY <2>4 DEF Held, CompletedBefore
    <2>5. CASE st = store'
      BY <2>1, <2>2, <2>3, <2>5, ValuesAssumption
         DEF ValuesAssumption, Held, CompletedBefore
    <2> QED BY <2>1, <2>3, <2>4, <2>5 DEF Held, Deciding
  <1>6. CASE LoadState
    <2>1. /\ vpc = "load" /\ vpc' = "dag" /\ exec' = store /\ store' = store /\ analyst' = analyst
          /\ \A n \in Names : node'[n].pc # "failsave"
      BY <1>6 DEF LoadState, analystVars, NoNodes
    <2>2. Held' \subseteq Held
      BY <2>1 DEF Held, Deciding
    <2> QED BY <1>1, <2>2
  <1>7. CASE LoadPanics \/ Finish
    <2>1. vpc' = "idle" /\ store' = store /\ analyst' = analyst
      BY <1>7 DEF LoadPanics, Finish, analystVars
    <2>2. Held' \subseteq Held
      BY <2>1 DEF Held, Deciding
    <2> QED BY <1>1, <2>2
  <1>8. CASE LoadCompletion
    <2>1. Summarizing /\ store' = store
      BY <1>8 DEF LoadCompletion, Summarizing, TypeInv, TypeOK
    <2>2. store \in ExecutionState /\ store # NoState
      BY <2>1, ValuesAssumption DEF ValuesAssumption, Versions, VersionsOfRun
    <2>3. analyst'.st = store
      BY <1>8, <2>2 DEF LoadCompletion
    <2>4. Held' \subseteq Held
      BY <1>8, <2>1, <2>2, <2>3 DEF LoadCompletion, dagVars, Held, Deciding
    <2> QED BY <1>1, <2>4
  <1>9. CASE SaveCompletion
    <2>1. /\ analyst.pc = "save" /\ store' = Complete(analyst.st) /\ analyst'.pc = "idle"
          /\ vpc' = vpc /\ vst' = vst /\ exec' = exec /\ fst' = fst /\ node' = node
      BY <1>9 DEF SaveCompletion, dagVars
    <2>2. analyst.st \in ExecutionState /\ analyst.st.version = steps /\ Summarizing
      BY <2>1 DEF TypeInv, TypeOK, Versions, VersionsInHand, Summarizing
    <2>3. store'.version = steps
      BY <2>1, <2>2, CompleteType
    <2>4. st = store' \/ st \in Held
      BY <2>1 DEF Held, Deciding
    <2> QED BY <2>2, <2>3, <2>4 DEF CompletedBefore
  <1>10. CASE \/ \E r \in Requests : \/ ReadDecision(r, "approved") \/ ReadDecision(r, "rejected")
                                     \/ SendDecision(r)
              \/ BreakJournal \/ UNCHANGED vars
    <2>1. /\ store' = store /\ vpc' = vpc /\ vst' = vst /\ exec' = exec
          /\ fst' = fst /\ node' = node /\ analyst' = analyst
      BY <1>10 DEF ReadDecision, SendDecision, BreakJournal, vars, dagVars, analystVars
    <2>2. Held' \subseteq Held
      BY <2>1 DEF Held, Deciding
    <2> QED BY <1>1, <2>2
  <1>11. CASE Crash
    <2>1. store' = store /\ vpc' = "idle" /\ analyst'.pc = "idle"
      BY <1>11 DEF Crash
    <2>2. Held' \subseteq Held
      BY <2>1 DEF Held, Deciding
    <2> QED BY <1>1, <2>2
  <1> QED BY <1>2, <1>3, <1>4, <1>5, <1>6, <1>7, <1>8, <1>9, <1>10, <1>11
          DEF Next, Verifier, Analyst, Operations

(***************************************************************************)
(* A step that has succeeded now has done so for good.                     *)
(***************************************************************************)
LEMMA CompletedGrows ==
    ASSUME TypeInv, Channels, NEW n \in Names, Goroutine(n), Completed \subseteq succeeded
    PROVE  Completed' \subseteq succeeded'
  <1>1. vpc = "dag" /\ steps' = steps /\ n \in Ids(steps) /\ Shape(n)
        /\ steps \in Loadable \cup {Gone}
    BY GoroutineShape DEF runUnchanged, envVars, TypeInv, TypeOK
  <1>2. PICK pc \in Places, status \in Statuses :
            Move(n, pc, status) /\ Flow(n, pc, status) /\ Calls(n, status)
    BY <1>1 DEF Shape
  <1>3. /\ node'[n].status = status
        /\ \A m \in Names \ {n} : node'[m] = node[m]
    BY <1>2 DEF Move, TypeInv, TypeOK
  <1>4. succeeded \subseteq succeeded'
    BY <1>2 DEF Calls
  <1>5. status = "success" => n \in succeeded'
    <2>1. CASE succeeded' = succeeded \cup {n}
      BY <2>1
    <2>2. CASE status = "success" /\ node[n].pc = "wait"
      <3>1. node[n].status = "success"
        BY <1>2, <2>2 DEF Flow, Running, Halting
      <3> QED BY <1>1, <1>4, <3>1 DEF Completed
    <2> QED BY <1>2, <2>1, <2>2 DEF Calls
  <1>6. Ids(steps) \subseteq Names
    BY <1>1, LoadableType
  <1>7. \A m \in Completed' : m \in Completed \/ (m = n /\ status = "success")
    BY <1>1, <1>3, <1>6 DEF Completed
  <1> QED BY <1>4, <1>5, <1>7

(***************************************************************************)
(* Why a step is skipped.                                                  *)
(***************************************************************************)
LEMMA SkipCause ==
    ASSUME TypeInv, NEW n \in Names, Goroutine(n), node'[n].status \in Skipped
    PROVE  \/ S(n).cond
           \/ \E d \in DependsOn(steps, S(n)) : node[d].status \in Skipped \cup {"failed"}
  <1>1. node \in [Names -> [pc : Places, status : Statuses]]
    BY DEF TypeInv, TypeOK
  <1>2. ASSUME NEW pc, NEW status, Move(n, pc, status) PROVE node'[n].status = status
    BY <1>1, <1>2 DEF Move
  <1>3. ASSUME NEW status \in {"success", "failed", "paused"}, Close(n, status) PROVE FALSE
    BY <1>2, <1>3 DEF Close, Skipped
  <1>4. ASSUME NEW pc, NEW status \in {"running", "success"}, Move(n, pc, status) PROVE FALSE
    BY <1>2, <1>4 DEF Skipped
  <1>5. CASE SkipStep(n)
    BY <1>5 DEF SkipStep
  <1>6. CASE DependencyFails(n)
    <2>1. PICK k \in DOMAIN S(n).deps :
              /\ S(n).deps[k] \in Ids(steps) /\ node[S(n).deps[k]].status \in Halting
              /\ Close(n, IF node[S(n).deps[k]].status \in {"paused", "cascaded_pause"}
                          THEN "cascaded_pause" ELSE "cascaded_skip")
      BY <1>6 DEF DependencyFails
    <2>2. S(n).deps[k] \in DependsOn(steps, S(n))
      BY <2>1 DEF DependsOn, Elements
    <2>3. node[S(n).deps[k]].status \notin {"paused", "cascaded_pause"}
      BY <1>2, <2>1 DEF Close, Skipped
    <2> QED BY <2>1, <2>2, <2>3 DEF Halting, Skipped
  <1>7. CASE PassGate(n) \/ SendToAnalyst(n) \/ InternalTool(n)
    BY <1>3, <1>7 DEF PassGate, SendToAnalyst, InternalTool
  <1>8. CASE PauseAtGate(n) \/ NotStarted(n) \/ AgentFails(n) \/ SaveFailed(n)
    BY <1>3, <1>8 DEF PauseAtGate, NotStarted, AgentFails, SaveFailed
  <1>9. CASE ToolSucceeds(n)
    BY <1>3, <1>9 DEF ToolSucceeds
  <1>10. CASE Begin(n) \/ StartTool(n) \/ ToolFails(n) \/ LoadFailed(n)
    BY <1>4, <1>10 DEF Begin, StartTool, ToolFails, LoadFailed
  <1> QED BY <1>5, <1>6, <1>7, <1>8, <1>9, <1>10 DEF Goroutine

(***************************************************************************)
(* What has succeeded contains what it depends on.                         *)
(***************************************************************************)
LEMMA CompletedClosed ==
    ASSUME TypeInv, Channels, vpc = "dag"
    PROVE  \A m \in Completed : DependsOn(steps, S(m)) \subseteq Completed
  <1> SUFFICES ASSUME NEW m \in Completed PROVE DependsOn(steps, S(m)) \subseteq Completed
    OBVIOUS
  <1>1. m \in Ids(steps) /\ node[m].status = "success" /\ m \in Names
    BY LoadableType DEF Completed, TypeInv, TypeOK
  <1>2. DepsSucceeded(m)
    BY <1>1 DEF Channels, NodeOk
  <1> QED BY <1>2 DEF DepsSucceeded, DependsOn, Completed

LEMMA AnalystComesLast ==
    ASSUME RunInv, AnalystsLast, vpc = "dag", NEW n \in Ids(steps), node[n].pc = "ready",
           S(n).kind = "analyst"
    PROVE  Ids(steps) \subseteq Completed \cup {n}
  <1>1. n \in Names /\ steps \in Loadable
    BY OwnStep DEF RunInv, TypeInv, TypeOK, Ids, Gone
  <1>2. DepsSucceeded(n)
    BY <1>1 DEF RunInv, Channels, NodeOk, Running
  <1>3. DependsOn(steps, S(n)) \subseteq Completed /\ Completed \in SUBSET Ids(steps)
    BY <1>2 DEF DepsSucceeded, DependsOn, Completed
  <1>4. Ancestors(steps, S(n)) \subseteq Completed
    BY <1>3, CompletedClosed, AncestorsWithin DEF RunInv, S
  <1> QED BY <1>1, <1>4 DEF AnalystsLast, S

LEMMA GoroutineDone ==
    ASSUME RunInv, AnalystsLast, DoneInv, NEW n \in Names, Goroutine(n)
    PROVE  DoneInv'
  <1>1. /\ vpc = "dag" /\ vpc' = vpc /\ steps' = steps /\ analyst' = analyst /\ n \in Ids(steps)
        /\ Shape(n)
    BY GoroutineShape DEF RunInv, runUnchanged, envVars
  <1>2. PICK pc \in Places, status \in Statuses :
            Move(n, pc, status) /\ Flow(n, pc, status) /\ Calls(n, status)
    BY <1>1 DEF Shape
  <1>3. succeeded \subseteq succeeded' /\ Completed \subseteq Ids(steps)
    BY <1>2 DEF Calls, Completed
  <1>4. Backed(Completed, steps)
    BY <1>1 DEF DoneInv, RunBacked
  <1>5. (Backed(Completed, steps))'
    <2>1. CASE AllDone(steps)
      BY <1>1, <1>3, <2>1, BackedStays DEF Backed
    <2>2. CASE Completed \subseteq succeeded
      BY <2>2, CompletedGrows DEF RunInv, Backed
    <2> QED BY <1>3, <1>4, <2>1, <2>2 DEF Backed
  <1>6. \A m \in Ids(steps) : node'[m].status \in Skipped =>
            MaySkip(steps, m) \/ \E f \in Ids(steps) : node'[f].status = "failed"
    <2>1. Ids(steps) \subseteq Names
      BY LoadableType DEF RunInv, TypeInv, TypeOK
    <2>2. \A m \in Names \ {n} : node'[m] = node[m]
      BY <1>2 DEF Move, RunInv, TypeInv, TypeOK
    <2>3. node[n].status # "failed"
      <3>1. NodeOk(n) /\ node[n].pc \in {"wait"} \cup Running
        BY <1>1, <1>2 DEF Flow, RunInv, Channels
      <3> QED BY <3>1 DEF NodeOk, Restored, Pending
    <2>4. \A f \in Ids(steps) : node[f].status = "failed" => node'[f].status = "failed"
      BY <2>1, <2>2, <2>3
    <2> SUFFICES ASSUME NEW m \in Ids(steps), node'[m].status \in Skipped,
                        ~ \E f \in Ids(steps) : node'[f].status = "failed"
                 PROVE  MaySkip(steps, m)
      OBVIOUS
    <2>5. \A d \in Ids(steps) : node[d].status \in Skipped \cup {"failed"} => MaySkip(steps, d)
      BY <1>1, <2>4 DEF DoneInv, RunBacked
    <2>6. CASE m # n
      BY <2>1, <2>2, <2>5, <2>6
    <2>7. CASE m = n
      <3>1. CASE S(n).cond
        BY <2>7, <3>1 DEF MaySkip, S
      <3>2. CASE \E d \in DependsOn(steps, S(n)) : node[d].status \in Skipped \cup {"failed"}
        BY <2>5, <2>7, <3>2, SkipSpreads DEF DependsOn, S
      <3> QED BY <2>7, <3>1, <3>2, SkipCause DEF RunInv
    <2> QED BY <2>6, <2>7
  <1>7. RunBacked'
    BY <1>1, <1>5, <1>6 DEF RunBacked
  <1>8. Summarizing' => AllDone(steps)'
    <2>1. CASE Summarizing
      BY <1>1, <1>3, <2>1, BackedStays DEF DoneInv
    <2>2. CASE ~Summarizing /\ Summarizing'
      <3>1. abox' # abox
        BY <1>1, <2>2 DEF Summarizing
      <3>2. SendToAnalyst(n)
        BY <3>1 DEF Goroutine, DependencyFails, Begin, SkipStep, PassGate, PauseAtGate,
                    InternalTool, StartTool, NotStarted, ToolSucceeds, AgentFails, ToolFails,
                    LoadFailed, SaveFailed
      <3>3. node[n].pc = "ready" /\ S(n).kind = "analyst" /\ n \in succeeded'
        BY <3>2 DEF SendToAnalyst, Locking, At, Close
      <3>4. Ids(steps) \subseteq Completed \cup {n}
        BY <1>1, <3>3, AnalystComesLast
      <3>5. CASE AllDone(steps)
        BY <1>1, <1>3, <3>5, BackedStays
      <3>6. CASE Completed \subseteq succeeded
        BY <1>1, <1>3, <3>3, <3>4, <3>6 DEF AllDone
      <3> QED BY <1>3, <1>4, <3>5, <3>6 DEF Backed
    <2> QED BY <2>1, <2>2
  <1>9. ASSUME NEW st \in Held'
        PROVE  (Backed(st.done, st.version) /\ (st.status = "completed" => AllDone(st.version)))'
    <2>1. st.version = steps /\ (Copied(st) \/ PausedNow(st))
      BY GoroutineVersions DEF RunInv
    <2>2. Backed(st.done, st.version)
      BY <1>4, <2>1 DEF DoneInv, RecordsBacked, Copied, PausedNow
    <2>3. st.status = "completed" => AllDone(st.version)
      BY GoroutineStatus DEF RunInv, DoneInv, RecordsBacked, CompletedBefore
    <2> QED BY <1>3, <2>2, <2>3, BackedStays
  <1> QED BY <1>7, <1>8, <1>9 DEF DoneInv, RecordsBacked

LEMMA FinishDone ==
    ASSUME RunInv, DoneInv, Finish, ~Unfinished
    PROVE  AllDone(steps)
  <1> SUFFICES ASSUME NEW n \in Ids(steps), ~AllDone(steps)
               PROVE  n \in succeeded \/ MaySkip(steps, n)
    BY DEF AllDone
  <1>1. vpc = "dag" /\ node[n].pc = "done" /\ n \in Names
    BY LoadableType DEF Finish, RunInv, TypeInv, TypeOK
  <1>2. node[n].status \in Halting \cup {"success"}
    BY <1>1 DEF RunInv, Channels, NodeOk
  <1>3. \A m \in Ids(steps) : node[m].status \notin {"paused", "cascaded_pause", "failed"}
    BY DEF Unfinished
  <1>4. CASE node[n].status = "success"
    <2>1. Completed \cap Ids(steps) \subseteq succeeded
      BY <1>1 DEF DoneInv, RunBacked, Backed
    <2> QED BY <1>4, <2>1 DEF Completed
  <1>5. CASE node[n].status \in Skipped
    BY <1>1, <1>3, <1>5 DEF DoneInv, RunBacked
  <1> QED BY <1>2, <1>3, <1>4, <1>5 DEF Halting, Skipped

LEMMA LoadStateDone ==
    ASSUME RunInv, DoneInv, LoadState
    PROVE  RunBacked'
  <1>1. /\ vpc = "load" /\ steps' = steps /\ succeeded' = succeeded /\ store \in ExecutionState
        /\ steps \in Loadable \cup {Gone}
    BY DEF LoadState, envVars, history, RunInv, TypeInv, TypeOK, Locals
  <1>2. store.version = steps /\ store \in Held
    BY <1>1 DEF RunInv, Versions, VersionsOfRun, Held
  <1>3. \A n \in Ids(steps) :
            node'[n].status = IF n \in store.done THEN "success" ELSE "pending"
    BY <1>1, LoadableType DEF LoadState
  <1>4. Completed' = store.done \cap Ids(steps)
    BY <1>1, <1>3 DEF Completed
  <1>5. Backed(store.done, steps)
    BY <1>2 DEF DoneInv, RecordsBacked
  <1>6. (Backed(Completed, steps))'
    BY <1>1, <1>4, <1>5 DEF Backed, AllDone
  <1> QED BY <1>1, <1>3, <1>6 DEF RunBacked, Skipped

LEMMA OtherDone ==
    ASSUME RunInv, DoneInv, [Next]_vars, ~ \E n \in Names : Goroutine(n)
    PROVE  DoneInv'
  <1>1. succeeded' = succeeded
    BY DEF Next, DispatchPipeline, Verifier, handleRunPipeline, handleHumanDecision,
           SaveDecision, LoadState, LoadPanics, Finish, Analyst, LoadCompletion,
           SaveCompletion, ReadDecision, SendDecision, BreakJournal, Crash, vars, history
  <1>2. Known
    BY PlannerVersions, DecisionVersions, RunVersions, AnalystVersions, RequestVersions,
       CrashVersions DEF RunInv, Next, Verifier, Operations, Known
  <1>3. \A p : AllDone(p)' <=> AllDone(p)
    BY <1>1 DEF AllDone
  <1>4. ASSUME NEW st \in Held'
        PROVE  (Backed(st.done, st.version) /\ (st.status = "completed" => AllDone(st.version)))'
    <2>1. CASE Copied(st)
      <3>1. Backed(st.done, st.version)
        BY <2>1 DEF Copied, DoneInv, RecordsBacked
      <3>2. st.status = "completed" => AllDone(st.version)
        BY <1>4, OtherStatus DEF RunInv, DoneInv, RecordsBacked, CompletedBefore
      <3> QED BY <1>1, <3>1, <3>2, BackedStays
    <2>2. CASE ReportedNow(st)
      BY <1>1, <2>2, BackedStays DEF ReportedNow, DoneInv, Backed
    <2>3. CASE FreshNow(st)
      <3>1. st.status = "completed" => AllDone(st.version)
        BY <1>4, OtherStatus DEF RunInv, DoneInv, RecordsBacked, CompletedBefore
      <3> QED BY <1>1, <2>3, <3>1, BackedStays DEF FreshNow, Backed
    <2> QED BY <1>2, <2>1, <2>2, <2>3 DEF Known, Derived
  <1>5. RecordsBacked'
    BY <1>4 DEF RecordsBacked
  <1>6. CASE Finish
    <2>1. vpc' = "idle" /\ steps' = steps /\ analyst' = analyst
      BY <1>6 DEF Finish, envVars
    <2>2. abox' # abox => AllDone(steps)
      BY <1>6, FinishDone DEF Finish
    <2>3. Summarizing' => AllDone(steps)'
      BY <1>1, <2>1, <2>2 DEF Summarizing, DoneInv, AllDone
    <2> QED BY <1>5, <2>1, <2>3 DEF DoneInv, RunBacked
  <1>7. CASE LoadState
    <2>1. abox' = abox /\ analyst' = analyst /\ steps' = steps
      BY <1>7 DEF LoadState, analystVars, envVars
    <2>2. Summarizing' => AllDone(steps)'
      BY <1>1, <2>1 DEF Summarizing, DoneInv, AllDone
    <2> QED BY <1>5, <1>7, <2>2, LoadStateDone DEF DoneInv
  <1>8. CASE Crash
    BY <1>5, <1>8 DEF Crash, DoneInv, Summarizing, RunBacked
  <1>9. ASSUME steps' = steps, Summarizing' => Summarizing,
               vpc' # "dag" \/ (vpc' = vpc /\ node' = node)
        PROVE  DoneInv'
    <2>1. Summarizing' => AllDone(steps)'
      BY <1>3, <1>9 DEF DoneInv
    <2>2. RunBacked'
      BY <1>1, <1>9 DEF DoneInv, RunBacked, Backed, Completed, AllDone
    <2> QED BY <1>5, <2>1, <2>2 DEF DoneInv
  <1>10. CASE DispatchPipeline \/ handleRunPipeline \/ SaveDecision \/ LoadPanics
              \/ \E decision \in Operations : handleHumanDecision(decision)
    <2>1. steps' = steps /\ analyst' = analyst /\ abox' = abox
      BY <1>10 DEF DispatchPipeline, handleRunPipeline, SaveDecision, LoadPanics,
                   handleHumanDecision, analystVars, envVars
    <2>2. vpc' # "dag" \/ (vpc' = vpc /\ node' = node)
      BY <1>10 DEF DispatchPipeline, handleRunPipeline, SaveDecision, LoadPanics,
                   handleHumanDecision, resumeFromState, dagVars, Operations
    <2> QED BY <1>9, <2>1, <2>2 DEF Summarizing
  <1>11. CASE Analyst
    <2>1. steps' = steps /\ vpc' = vpc /\ node' = node
      BY <1>11 DEF Analyst, LoadCompletion, SaveCompletion, dagVars, envVars
    <2>2. Summarizing
      BY <1>11 DEF Analyst, LoadCompletion, SaveCompletion, Summarizing
    <2> QED BY <1>9, <2>1, <2>2
  <1>12. CASE \/ \E r \in Requests : \/ ReadDecision(r, "approved") \/ ReadDecision(r, "rejected")
                                     \/ SendDecision(r)
              \/ BreakJournal \/ UNCHANGED vars
    <2>1. /\ steps' = steps /\ vpc' = vpc /\ node' = node /\ analyst' = analyst /\ abox' = abox
      BY <1>12 DEF ReadDecision, SendDecision, BreakJournal, vars, dagVars, envVars, analystVars
    <2> QED BY <1>9, <2>1 DEF Summarizing
  <1> QED BY <1>6, <1>7, <1>8, <1>10, <1>11, <1>12 DEF Next, Verifier, Operations

LEMMA SpecDoneInv == SummariesLast /\ AnalystsLast /\ Spec => [](RunInv /\ DoneInv)
  <1>1. Init => DoneInv
    <2> SUFFICES ASSUME Init PROVE DoneInv
      OBVIOUS
    <2>1. Held = {}
      BY ValuesAssumption DEF ValuesAssumption, Init, Held, Deciding
    <2> QED BY <2>1 DEF Init, DoneInv, RecordsBacked, RunBacked, Summarizing
  <1>2. AnalystsLast /\ RunInv /\ DoneInv /\ [Next]_vars => DoneInv'
    BY GoroutineDone, OtherDone
  <1>3. AnalystsLast => AnalystsLast'
    BY DEF AnalystsLast
  <1> QED BY <1>1, <1>2, <1>3, SpecRunInv, PTL DEF Spec

(***************************************************************************)
(* A DAG run the analyst reports completed (persistCompletion) has done,   *)
(* across its pauses, approvals, failures and restarts, every step that no *)
(* condition may have skipped: the analyst is told when its own step is    *)
(* reached or when executeDAG's goroutines have all ended and none has     *)
(* paused or failed.                                                       *)
(***************************************************************************)
THEOREM CompletedRunsAreDone ==
    SummariesLast /\ AnalystsLast /\ Spec => []CompletedMeansDone
  <1>1. RunInv /\ DoneInv => CompletedMeansDone
    <2> SUFFICES ASSUME RunInv, DoneInv, store # NoState, store.status = "completed"
                 PROVE  AllDone(store.version)
      BY DEF CompletedMeansDone, AllDone
    <2>1. store \in Held
      BY DEF RunInv, TypeInv, TypeOK, Held
    <2> QED BY <2>1 DEF DoneInv, RecordsBacked
  <1> QED BY <1>1, SpecDoneInv, PTL
-----------------------------------------------------------------------------
(***************************************************************************)
(* The approvals that have left the API, and what is left of them once     *)
(* those are taken away that executeDAG has not resumed on: the ones in    *)
(* the verifier's inbox and the one it is handling.                        *)
(***************************************************************************)
Answered == {r \in Requests : req[r].pc # "new"}

Decided == {r \in Requests : req[r].pc = "sent" /\ req[r].op = "approved"}

Spent ==
    Cardinality(Decided) - Copies(inbox, "approved") - (IF vpc = "approved" THEN 1 ELSE 0)

LEMMA NextRequests ==
    ASSUME TypeInv, [Next]_vars
    PROVE  /\ \A r \in Requests :
                 req[r].pc = "sent" => req'[r].pc = "sent" /\ req'[r].op = req[r].op
           /\ \E r : Answered' \subseteq Answered \cup {r}
           /\ req' = req \/ Crash
              \/ \E r \in Requests : \/ ReadDecision(r, "approved") \/ ReadDecision(r, "rejected")
                                     \/ SendDecision(r)
  <1>1. req \in [Requests -> [pc : {"new", "admitted", "sent"}, op : Operations]]
    BY DEF TypeInv, TypeOK
  <1>2. CASE req' = req
    BY <1>2 DEF Answered
  <1>3. ASSUME NEW r \in Requests, \/ ReadDecision(r, "approved") \/ ReadDecision(r, "rejected")
                                   \/ SendDecision(r)
        PROVE  /\ \A q \in Requests :
                     req[q].pc = "sent" => req'[q].pc = "sent" /\ req'[q].op = req[q].op
               /\ Answered' \subseteq Answered \cup {r}
    <2>1. req[r].pc # "sent" /\ \A q \in Requests \ {r} : req'[q] = req[q]
      BY <1>1, <1>3 DEF ReadDecision, SendDecision
    <2> QED BY <2>1 DEF Answered
  <1>4. CASE Crash
    <2>1. \A r \in Requests : /\ req[r].pc = "new" => req'[r] = req[r]
                              /\ req[r].pc = "sent" => req'[r] = req[r]
      BY <1>4 DEF Crash
    <2> QED BY <1>4, <2>1 DEF Answered
  <1>5. \/ req' = req \/ Crash
        \/ \E r \in Requests : \/ ReadDecision(r, "approved") \/ ReadDecision(r, "rejected")
                               \/ SendDecision(r)
    <2>1. ASSUME NEW n \in Names, Goroutine(n) PROVE req' = req
      BY <2>1, GoroutineShape DEF runUnchanged
    <2>2. CASE DispatchPipeline \/ Verifier \/ Analyst \/ BreakJournal \/ UNCHANGED vars
      BY <2>2 DEF DispatchPipeline, Verifier, handleRunPipeline, handleHumanDecision, SaveDecision,
                  LoadState, LoadPanics, Finish, Analyst, LoadCompletion, SaveCompletion,
                  BreakJournal, vars
    <2> QED BY <2>1, <2>2 DEF Next
  <1> QED BY <1>2, <1>3, <1>4, <1>5

LEMMA InitAnswered == Init => IsFiniteSet(Answered)
  <1> SUFFICES ASSUME Init PROVE IsFiniteSet(Answered)
    OBVIOUS
  <1>1. Answered = {}
    BY DEF Init, Answered
  <1> QED BY <1>1, FS_EmptySet

LEMMA NextAnswered == TypeInv /\ IsFiniteSet(Answered) /\ [Next]_vars => IsFiniteSet(Answered)'
  <1> SUFFICES ASSUME TypeInv, IsFiniteSet(Answered), [Next]_vars PROVE IsFiniteSet(Answered')
    OBVIOUS
  <1>1. PICK r : Answered' \subseteq Answered \cup {r}
    BY NextRequests
  <1>2. IsFiniteSet(Answered \cup {r})
    BY FS_AddElement
  <1> HIDE DEF Answered
  <1> QED BY <1>1, <1>2, FS_Subset

LEMMA DecidedGrows ==
    ASSUME TypeInv, IsFiniteSet(Answered), [Next]_vars
    PROVE  /\ Cardinality(Decided) \in Nat /\ Cardinality(Decided') \in Nat
           /\ Cardinality(Decided') >= Cardinality(Decided)
           /\ Decided' # Decided => Cardinality(Decided') >= Cardinality(Decided) + 1
  <1>1. IsFiniteSet(Answered')
    BY NextAnswered
  <1>2. Decided' \subseteq Answered' /\ Decided \subseteq Decided'
    BY NextRequests DEF Decided, Answered
  <1> HIDE DEF Decided, Answered
  <1>3. IsFiniteSet(Decided')
    BY <1>1, <1>2, FS_Subset
  <1> QED BY <1>2, <1>3, SetGrows

LEMMA SendCopies ==
    ASSUME TypeInv, NEW type \in {"run_pipeline"} \cup Operations, Send(type), NEW m
    PROVE  /\ Copies(inbox, m) \in Nat /\ Copies(inbox', m) \in Nat
           /\ Copies(inbox', m) <= Copies(inbox, m) + 1
           /\ type # m => Copies(inbox', m) = Copies(inbox, m)
  <1>1. inbox \in Seq({"run_pipeline"} \cup Operations)
    BY DEF TypeInv, TypeOK
  <1>2. Copies(inbox, m) \in Nat
    BY <1>1, CopiesType
  <1>3. CASE inbox' = inbox
    BY <1>2, <1>3
  <1>4. CASE inbox' = Append(inbox, type)
    <2>1. Copies(inbox', m) = Copies(inbox, m) + (IF type = m THEN 1 ELSE 0)
      BY <1>1, <1>4, CopiesAppend
    <2> QED BY <1>2, <2>1
  <1> QED BY <1>3, <1>4 DEF Send

LEMMA ReceiveCopies ==
    ASSUME TypeInv, NEW type, Receive(type), NEW m
    PROVE  /\ Copies(inbox, m) \in Nat /\ Copies(inbox', m) \in Nat
           /\ Copies(inbox, m) = Copies(inbox', m) + (IF type = m THEN 1 ELSE 0)
  <1> DEFINE M == {"run_pipeline"} \cup Operations
  <1>1. inbox \in Seq(M) /\ inbox # <<>> /\ inbox' = Tail(inbox) /\ Head(inbox) = type
    BY DEF Receive, TypeInv, TypeOK
  <1> HIDE DEF M
  <1>2. inbox' \in Seq(M)
    BY <1>1, HeadTailProperties
  <1>3. Copies(inbox, m) = Copies(inbox', m) + (IF Head(inbox) = m THEN 1 ELSE 0)
    BY <1>1, CopiesTail
  <1> QED BY <1>1, <1>2, <1>3, CopiesType

LEMMA SpentType ==
    ASSUME TypeInv, IsFiniteSet(Answered)
    PROVE  /\ Spent \in Int /\ Copies(inbox, "approved") \in Nat
           /\ Cardinality(Approvals) \in Nat /\ Spent <= Cardinality(Approvals)
  <1>1. inbox \in Seq({"run_pipeline"} \cup Operations)
    BY DEF TypeInv, TypeOK
  <1>2. Copies(inbox, "approved") \in Nat
    BY <1>1, CopiesType
  <1>3. Approvals \subseteq Answered /\ Decided \subseteq Approvals
    BY DEF Approvals, Answered, Decided
  <1>4. IsFiniteSet(Approvals)
    BY <1>3, FS_Subset
  <1>5. /\ Cardinality(Decided) \in Nat /\ Cardinality(Approvals) \in Nat
        /\ Cardinality(Decided) <= Cardinality(Approvals)
    BY <1>3, <1>4, SetGrows
  <1> QED BY <1>2, <1>5 DEF Spent

LEMMA SpentKept ==
    ASSUME TypeInv, IsFiniteSet(Answered), [Next]_vars,
           Copies(inbox', "approved") \in Nat,
           Copies(inbox', "approved") <= Copies(inbox, "approved"),
           vpc' = "approved" => vpc = "approved"
    PROVE  Spent' >= Spent
  <1> DEFINE c == Copies(inbox, "approved")
             d == Copies(inbox', "approved")
             e == Cardinality(Decided)
             f == Cardinality(Decided')
  <1>1. e \in Nat /\ f \in Nat /\ f >= e
    BY DecidedGrows
  <1>2. c \in Nat /\ d \in Nat /\ d <= c
    BY SpentType
  <1>3. /\ Spent = e - c - (IF vpc = "approved" THEN 1 ELSE 0)
        /\ Spent' = f - d - (IF vpc' = "approved" THEN 1 ELSE 0)
    BY DEF Spent
  <1> HIDE DEF c, d, e, f
  <1> QED BY <1>1, <1>2, <1>3

(***************************************************************************)
(* Approvals are only added, and one is spent when the run resumes on it:  *)
(* Spent never goes back, whatever is dropped or lost.                     *)
(***************************************************************************)
LEMMA SpentGrows ==
    ASSUME TypeInv, IsFiniteSet(Answered), [Next]_vars
    PROVE  /\ Spent \in Int /\ Spent' \in Int
           /\ Spent' >= Spent
           /\ SaveDecision /\ vpc = "approved" => Spent' >= Spent + 1
  <1> DEFINE c == Copies(inbox, "approved")
             d == Copies(inbox', "approved")
             e == Cardinality(Decided)
             f == Cardinality(Decided')
  <1>1. Spent \in Int /\ Spent' \in Int
    <2>1. (TypeInv /\ IsFiniteSet(Answered))'
      BY NextTypeInv, NextAnswered
    <2>2. (TypeInv /\ IsFiniteSet(Answered) => Spent \in Int)'
      BY SpentType, PTL
    <2> QED BY <2>1, <2>2, SpentType
  <1>2. /\ e \in Nat /\ f \in Nat /\ f >= e /\ (Decided' # Decided => f >= e + 1)
        /\ c \in Nat
    BY DecidedGrows, SpentType
  <1>3. /\ Spent = e - c - (IF vpc = "approved" THEN 1 ELSE 0)
        /\ Spent' = f - d - (IF vpc' = "approved" THEN 1 ELSE 0)
    BY DEF Spent
  <1>4. ASSUME inbox' = inbox, vpc' = "approved" => vpc = "approved"
        PROVE  Spent' >= Spent
    BY <1>2, <1>4, SpentKept
  <1>5. CASE SaveDecision
    <2>1. inbox' = inbox /\ vpc' # "approved" /\ d = c
      BY <1>5 DEF SaveDecision, resumeFromState
    <2>2. SaveDecision /\ vpc = "approved" => Spent' >= Spent + 1
      <3> HIDE DEF c, d, e, f
      <3> QED BY <1>2, <1>3, <2>1
    <2> QED BY <1>1, <1>4, <2>1, <2>2
  <1>6. ASSUME ~SaveDecision PROVE Spent' >= Spent
    <2>1. ASSUME NEW n \in Names, Goroutine(n) PROVE Spent' >= Spent
      BY <1>4, <2>1, GoroutineShape DEF runUnchanged
    <2>2. CASE LoadState \/ LoadPanics \/ Finish \/ Analyst \/ BreakJournal \/ UNCHANGED vars
               \/ \E r \in Requests : ReadDecision(r, "approved") \/ ReadDecision(r, "rejected")
      BY <1>4, <2>2 DEF LoadState, LoadPanics, Finish, Analyst, LoadCompletion, SaveCompletion,
                        BreakJournal, vars, ReadDecision
    <2>3. CASE DispatchPipeline
      <3>1. Send("run_pipeline") /\ vpc' = vpc
        BY <2>3 DEF DispatchPipeline
      <3>2. d \in Nat /\ d = c
        BY <3>1, SendCopies
      <3> QED BY <1>2, <3>1, <3>2, SpentKept
    <2>4. CASE handleRunPipeline \/ handleHumanDecision("rejected")
      <3>1. Receive("run_pipeline") \/ Receive("rejected")
        BY <2>4 DEF handleRunPipeline, handleHumanDecision
      <3>2. d \in Nat /\ c = d + 0
        BY <3>1, ReceiveCopies
      <3>3. vpc' # "approved"
        BY <2>4 DEF handleRunPipeline, handleHumanDecision, Receive
      <3> HIDE DEF c, d
      <3>4. d <= c
        BY <3>2
      <3> QED BY <3>2, <3>3, <3>4, SpentKept DEF c, d
    <2>5. CASE handleHumanDecision("approved")
      <3>1. Receive("approved") /\ vpc = "idle"
        BY <2>5 DEF handleHumanDecision, Receive
      <3>2. d \in Nat /\ c = d + 1
        BY <3>1, ReceiveCopies
      <3> HIDE DEF c, d, e, f
      <3> QED BY <1>2, <1>3, <3>1, <3>2
    <2>6. ASSUME NEW r \in Requests, SendDecision(r) PROVE Spent' >= Spent
      <3>1. /\ req[r].pc = "admitted" /\ Send(req[r].op) /\ vpc' = vpc
            /\ req[r].op \in Operations /\ req'[r].pc = "sent" /\ req'[r].op = req[r].op
        BY <2>6 DEF SendDecision, TypeInv, TypeOK
      <3>2. d \in Nat /\ d <= c + 1 /\ (req[r].op # "approved" => d = c)
        BY <3>1, SendCopies
      <3>3. CASE req[r].op # "approved"
        BY <1>2, <3>1, <3>2, <3>3, SpentKept
      <3>4. CASE req[r].op = "approved"
        <4>1. Decided' # Decided
          BY <3>1, <3>4 DEF Decided
        <4> HIDE DEF c, d, e, f
        <4> QED BY <1>2, <1>3, <3>1, <3>2, <4>1
      <3> QED BY <3>3, <3>4
    <2>7. CASE Crash
      <3>1. d = 0 /\ vpc' # "approved"
        BY <2>7, CopiesEmpty DEF Crash
      <3> QED BY <1>2, <3>1, SpentKept
    <2> QED BY <1>6, <2>1, <2>2, <2>3, <2>4, <2>5, <2>6, <2>7 DEF Next, Verifier
  <1> QED BY <1>1, <1>5, <1>6

LEMMA InitSpent == Init => Spent = 0
  <1> SUFFICES ASSUME Init PROVE Spent = 0
    OBVIOUS
  <1>1. Decided = {} /\ inbox = <<>> /\ vpc = "idle"
    BY DEF Init, Decided
  <1> QED BY <1>1, CopiesEmpty, FS_EmptySet DEF Spent

-----------------------------------------------------------------------------
(***************************************************************************)
(* A gate is passed by the run resumed from the gate of that name; were    *)
(* there two of one name (the loader does not check), one approval would   *)
(* pass both.                                                              *)
(***************************************************************************)
GateNamesDistinct ==
    \A p \in Loadable : \A m, n \in Ids(p) :
        /\ StepOf(p, m).kind = "gate" /\ StepOf(p, n).kind = "gate"
        /\ StepOf(p, m).gate = StepOf(p, n).gate
        => m = n

Passed(p) == {a \in succeeded \cap Ids(p) : StepOf(p, a).kind = "gate"}

Named(p, g) == {a \in Ids(p) : StepOf(p, a).kind = "gate" /\ StepOf(p, a).gate = g}

Reach(p, g) == Passed(p) \cup Named(p, g)

(***************************************************************************)
(* What was called is a tool or an agent, and what has succeeded of what   *)
(* the analyst may report came after what it depends on.                   *)
(***************************************************************************)
Founded(p) ==
    /\ \A m \in called \cap Ids(p) : StepOf(p, m).kind \in {"tool", "agent"}
    /\ \A m \in succeeded \cap Reported(p) : DependsOn(p, StepOf(p, m)) \subseteq succeeded

CallsTools == vpc = "dag" => \A n \in Ids(steps) : node[n].pc = "calling" => S(n).kind # "gate"

(***************************************************************************)
(* Every gate passed, and the one the run has resumed from, has been paid  *)
(* for.                                                                    *)
(***************************************************************************)
PaidInv ==
    /\ Spent >= 0
    /\ \A st \in Held : Founded(st.version) /\ Cardinality(Passed(st.version)) <= Spent
    /\ vpc = "load" => Cardinality(Reach(steps, store.gate)) <= Spent
    /\ vpc = "dag" => Cardinality(Reach(steps, exec.gate)) <= Spent
    /\ CallsTools

LEMMA IdsFinite ==
    ASSUME NEW p \in Seq(Step)
    PROVE  IsFiniteSet(Ids(p))
  <1> DEFINE f == [i \in 1..Len(p) |-> p[i].id]
  <1>1. Len(p) \in Nat /\ DOMAIN p = 1..Len(p)
    OBVIOUS
  <1>2. IsFiniteSet(1..Len(p))
    BY <1>1, FS_Interval
  <1>3. f \in Surjection(1..Len(p), Ids(p))
    BY <1>1 DEF Surjection, Ids
  <1> QED BY <1>2, <1>3, FS_Surjection

LEMMA ReachType ==
    ASSUME NEW p \in Loadable \cup {Gone}, NEW g
    PROVE  /\ IsFiniteSet(Reach(p, g)) /\ IsFiniteSet(Passed(p))
           /\ Cardinality(Reach(p, g)) \in Nat /\ Cardinality(Passed(p)) \in Nat
           /\ Cardinality(Passed(p)) <= Cardinality(Reach(p, g))
  <1>1. IsFiniteSet(Ids(p))
    BY LoadableType, IdsFinite
  <1>2. Reach(p, g) \subseteq Ids(p) /\ Passed(p) \subseteq Reach(p, g)
    BY DEF Reach, Passed, Named
  <1>3. IsFiniteSet(Reach(p, g))
    BY <1>1, <1>2, FS_Subset
  <1> QED BY <1>2, <1>3, SetGrows

LEMMA OneGateMore ==
    ASSUME GateNamesDistinct, NEW p \in Loadable \cup {Gone}, NEW g
    PROVE  Cardinality(Reach(p, g)) <= Cardinality(Passed(p)) + 1
  <1>1. IsFiniteSet(Passed(p)) /\ Cardinality(Passed(p)) \in Nat
    BY ReachType
  <1>2. CASE Named(p, g) = {}
    <2>1. Reach(p, g) = Passed(p)
      BY <1>2 DEF Reach
    <2> QED BY <1>1, <2>1
  <1>3. CASE Named(p, g) # {}
    <2>1. PICK a : a \in Named(p, g)
      BY <1>3
    <2>2. p \in Loadable
      BY <2>1 DEF Named, Ids, Gone
    <2>3. Named(p, g) = {a}
      BY <2>1, <2>2 DEF GateNamesDistinct, Named
    <2>4. Reach(p, g) = Passed(p) \cup {a}
      BY <2>3 DEF Reach
    <2>5. Cardinality(Passed(p) \cup {a}) <= Cardinality(Passed(p)) + 1
      BY <1>1, FS_AddElement
    <2> QED BY <2>4, <2>5
  <1> QED BY <1>2, <1>3

LEMMA GoneHasNoSteps == Ids(Gone) = {}
  BY DEF Ids, Gone

(***************************************************************************)
(* No step of a loaded definition has a gate without a name.               *)
(***************************************************************************)
LEMMA GatesHaveNames ==
    ASSUME NEW p \in Loadable \cup {Gone}
    PROVE  Named(p, "") = {}
  <1> SUFFICES ASSUME NEW a \in Named(p, "") PROVE FALSE
    OBVIOUS
  <1>1. a \in Ids(p) /\ StepOf(p, a).kind = "gate" /\ StepOf(p, a).gate = ""
    BY DEF Named
  <1>2. p # Gone
    BY <1>1, GoneHasNoSteps
  <1>3. p \in Pipelines /\ p \in Seq(Step)
    BY <1>1, <1>2, LoadableType DEF Loadable
  <1>4. PICK i \in DOMAIN p : StepOf(p, a) = p[i]
    BY <1>1, <1>3, StepOfType
  <1> QED BY <1>1, <1>3, <1>4, PipelinesAssumption DEF PipelinesAssumption

(***************************************************************************)
(* A gate's goroutine succeeds in PassGate only.                           *)
(***************************************************************************)
LEMMA GatePasses ==
    ASSUME TypeInv, CallsTools, NEW n \in Names, Goroutine(n)
    PROVE  /\ S(n).kind = "gate" => succeeded' = succeeded \/ exec.gate = S(n).gate
           /\ node'[n].pc = "calling" => S(n).kind # "gate"
  <1>1. vpc = "dag" /\ n \in Ids(steps)
    BY GoroutineShape
  <1>2. node \in [Names -> [pc : Places, status : Statuses]]
    BY DEF TypeInv, TypeOK
  <1>3. node[n].pc = "calling" => S(n).kind # "gate"
    BY <1>1 DEF CallsTools
  <1>4. ASSUME NEW status, Close(n, status)
        PROVE  node'[n].pc = "done" /\ (status # "success" => succeeded' = succeeded)
    BY <1>2, <1>4 DEF Close, Move
  <1>5. ASSUME NEW pc, NEW status, Move(n, pc, status) PROVE node'[n].pc = pc
    BY <1>2, <1>5 DEF Move
  <1>6. CASE DependencyFails(n) \/ SkipStep(n) \/ PauseAtGate(n) \/ NotStarted(n) \/ AgentFails(n)
             \/ SaveFailed(n)
    BY <1>4, <1>6 DEF DependencyFails, SkipStep, PauseAtGate, NotStarted, AgentFails, SaveFailed
  <1>7. CASE SendToAnalyst(n) \/ InternalTool(n)
    BY <1>4, <1>7 DEF SendToAnalyst, InternalTool
  <1>8. CASE ToolSucceeds(n)
    BY <1>3, <1>4, <1>8 DEF ToolSucceeds, Locking, At
  <1>9. CASE Begin(n) \/ ToolFails(n) \/ LoadFailed(n)
    BY <1>5, <1>9 DEF Begin, ToolFails, LoadFailed, history
  <1>10. CASE StartTool(n)
    BY <1>5, <1>10 DEF StartTool
  <1>11. CASE PassGate(n)
    BY <1>4, <1>11 DEF PassGate
  <1> QED BY <1>6, <1>7, <1>8, <1>9, <1>10, <1>11 DEF Goroutine

(***************************************************************************)
(* A step the analyst may report succeeds after what it depends on.        *)
(***************************************************************************)
LEMMA ReportedRun ==
    ASSUME RunInv, vpc = "dag", NEW n \in Reported(steps), node[n].pc \in Running
    PROVE  DependsOn(steps, S(n)) \subseteq succeeded
  <1>1. n \in Ids(steps) /\ steps \in Loadable \cup {Gone}
    BY ReportedNames DEF RunInv, TypeInv, TypeOK
  <1>2. node[n].status = "running" /\ DepsSucceeded(n)
    BY <1>1, LoadableType DEF RunInv, Channels, NodeOk
  <1>3. n \notin Completed
    BY <1>2 DEF Completed
  <1>4. Completed \subseteq succeeded
    BY <1>3 DEF RunInv, Doing
  <1>5. DependsOn(steps, S(n)) \subseteq Completed
    BY <1>2 DEF DepsSucceeded, DependsOn, Completed
  <1> QED BY <1>4, <1>5

LEMMA WaitingAddsNothing ==
    ASSUME TypeInv, NEW n \in Names, Goroutine(n), node[n].pc = "wait"
    PROVE  succeeded' = succeeded
  <1>1. DependencyFails(n) \/ Begin(n)
    BY DEF Goroutine, SkipStep, PassGate, PauseAtGate, SendToAnalyst, InternalTool, StartTool,
           NotStarted, ToolSucceeds, AgentFails, ToolFails, LoadFailed, SaveFailed, Locking, At
  <1> QED BY <1>1 DEF DependencyFails, Begin, Close, history

LEMMA GoroutinePaid ==
    ASSUME RunInv, PaidInv, Spent \in Int, Spent' \in Int, Spent' >= Spent,
           NEW n \in Names, Goroutine(n)
    PROVE  PaidInv'
  <1>1. /\ vpc = "dag" /\ vpc' = vpc /\ steps' = steps /\ n \in Ids(steps)
        /\ Shape(n)
    BY GoroutineShape DEF RunInv, runUnchanged, envVars
  <1>2. PICK pc \in Places, status \in Statuses :
            Move(n, pc, status) /\ Flow(n, pc, status) /\ Calls(n, status) /\ Keeps(n, pc)
    BY <1>1 DEF Shape
  <1>3. /\ steps \in Loadable \cup {Gone} /\ exec \in ExecutionState
        /\ exec.version = steps /\ exec \in Held
    BY <1>1 DEF RunInv, Versions, VersionsOfRun, Held, TypeInv, TypeOK, Locals
  <1>4. /\ node'[n].status = status
        /\ \A m \in Names \ {n} : node'[m] = node[m]
    BY <1>2 DEF Move, RunInv, TypeInv, TypeOK
  <1>5. succeeded' = succeeded \/ succeeded' = succeeded \cup {n}
    BY <1>2 DEF Calls
  <1>6. exec'.gate = exec.gate \/ exec'.gate = ""
    BY <1>2, <1>3 DEF Keeps, Failed, ExecutionState
  <1>7. Named(steps, exec'.gate) \subseteq Named(steps, exec.gate)
    BY <1>3, <1>6, GatesHaveNames
  <1>8. Passed(steps)' \subseteq Reach(steps, exec.gate)
    <2>1. S(n).kind = "gate" => succeeded' = succeeded \/ n \in Named(steps, exec.gate)
      BY <1>1, GatePasses DEF RunInv, PaidInv, Named, S
    <2> QED BY <1>1, <1>5, <2>1 DEF Passed, Reach, S
  <1>9. (Reach(steps, exec.gate))' \subseteq Reach(steps, exec.gate)
    BY <1>1, <1>7, <1>8 DEF Reach, Named
  <1>10. /\ Cardinality(Reach(steps, exec.gate)) \in Nat
         /\ Cardinality(Reach(steps, exec.gate)) <= Spent
         /\ IsFiniteSet(Reach(steps, exec.gate))
    BY <1>1, <1>3, ReachType DEF PaidInv
  <1>11. /\ Cardinality(Passed(steps)') <= Spent' /\ Cardinality((Reach(steps, exec.gate))') <= Spent'
    <2>1. /\ Cardinality(Passed(steps)') <= Cardinality(Reach(steps, exec.gate))
          /\ Cardinality(Passed(steps)') \in Nat
      BY <1>8, <1>10, SetGrows
    <2>2. /\ Cardinality((Reach(steps, exec.gate))') <= Cardinality(Reach(steps, exec.gate))
          /\ Cardinality((Reach(steps, exec.gate))') \in Nat
      BY <1>1, <1>9, <1>10, SetGrows
    <2> QED BY <1>10, <2>1, <2>2
  <1>12. Founded(steps)'
    <2>1. Founded(steps)
      BY <1>3 DEF PaidInv
    <2>2. \A m \in called' \cap Ids(steps) : StepOf(steps, m).kind \in {"tool", "agent"}
      BY <1>2, <2>1 DEF Calls, Founded, S
    <2>3. ASSUME n \in succeeded' \ succeeded, n \in Reported(steps)
          PROVE  DependsOn(steps, StepOf(steps, n)) \subseteq succeeded
      <3>1. status = "success" /\ succeeded' # succeeded
        BY <1>2, <2>3 DEF Calls
      <3>2. node[n].pc \in Running
        BY <1>2, <3>1, WaitingAddsNothing DEF Flow, RunInv
      <3> QED BY <1>1, <2>3, <3>2, ReportedRun DEF S
    <2> QED BY <1>1, <1>5, <2>1, <2>2, <2>3 DEF Founded
  <1>13. CallsTools'
    <2>1. Ids(steps) \subseteq Names
      BY <1>3, LoadableType
    <2> QED BY <1>1, <1>4, <2>1, GatePasses DEF RunInv, PaidInv, CallsTools, S
  <1>14. ASSUME NEW st \in Held'
         PROVE  (Founded(st.version) /\ Cardinality(Passed(st.version)) <= Spent)'
    <2>1. st.version = steps
      BY <1>14, GoroutineVersions DEF RunInv
    <2> QED BY <1>1, <1>11, <1>12, <2>1 DEF Founded, Passed
  <1> QED BY <1>1, <1>11, <1>13, <1>14 DEF PaidInv


(***************************************************************************)
(* The planner's dispatch and run_pipeline: nothing has succeeded yet.     *)
(***************************************************************************)
LEMMA PlannerPaid ==
    ASSUME RunInv, PaidInv, NotBegun => succeeded = {}, Spent \in Int, Spent' \in Int,
           Spent' >= Spent, DispatchPipeline \/ handleRunPipeline
    PROVE  PaidInv'
  <1>1. NotBegun /\ Untouched
    <2>1. CASE DispatchPipeline
      BY <2>1 DEF DispatchPipeline, RunInv, TypeInv, Fresh, NotBegun
    <2>2. CASE handleRunPipeline
      <3>1. 1 \in DOMAIN inbox /\ inbox[1] = "run_pipeline"
        BY <2>2 DEF handleRunPipeline, Receive, RunInv, TypeInv, TypeOK
      <3> QED BY <3>1 DEF RunInv, TypeInv, Fresh, NotBegun
    <2> QED BY <2>1, <2>2
  <1>2. /\ called' = {} /\ succeeded' = {} /\ steps' = steps /\ vpc' \in {"idle", "load"}
        /\ Spent' >= 0
    BY <1>1 DEF Untouched, DispatchPipeline, handleRunPipeline, history, envVars, PaidInv
  <1>3. \A p : Founded(p)' /\ Passed(p)' = {}
    BY <1>2 DEF Founded, Passed
  <1>4. \A p : Cardinality(Passed(p)') <= Spent'
    BY <1>2, <1>3, FS_EmptySet
  <1>5. ASSUME vpc' = "load" PROVE Cardinality((Reach(steps, store.gate))') <= Spent'
    <2>1. handleRunPipeline
      BY <1>1, <1>5 DEF DispatchPipeline, Untouched
    <2>2. 1 \in DOMAIN inbox /\ inbox[1] = "run_pipeline" /\ vpc = "idle"
      BY <2>1 DEF handleRunPipeline, Receive, RunInv, TypeInv, TypeOK
    <2>3. store = Blank
      BY <2>2 DEF RunInv, TypeInv, Fresh
    <2>4. store' = [store EXCEPT !.version = steps]
      BY <1>5, <2>1, <2>2 DEF handleRunPipeline
    <2>5. store'.gate = ""
      BY <2>3, <2>4 DEF Blank
    <2>6. (Reach(steps, store.gate))' = Named(steps, "")
      BY <1>2, <1>3, <2>5 DEF Reach, Named
    <2>7. Named(steps, "") = {}
      BY GatesHaveNames DEF RunInv, TypeInv, TypeOK
    <2> QED BY <1>2, <2>6, <2>7, FS_EmptySet
  <1>6. CallsTools'
    BY <1>2 DEF CallsTools
  <1> QED BY <1>2, <1>3, <1>4, <1>5, <1>6 DEF PaidInv

(***************************************************************************)
(* The other actions call nothing and take their records from others.      *)
(***************************************************************************)
LEMMA DerivedPaid ==
    ASSUME RunInv, PaidInv, Spent \in Int, Spent' \in Int, Spent' >= Spent,
           called' = called, succeeded' = succeeded, Derived
    PROVE  /\ Spent' >= 0
           /\ \A st \in Held' : (Founded(st.version) /\ Cardinality(Passed(st.version)) <= Spent)'
  <1>1. ASSUME NEW st \in Held'
        PROVE  (Founded(st.version) /\ Cardinality(Passed(st.version)) <= Spent)'
    <2>1. PICK s \in Held : st.version = s.version
      BY <1>1 DEF Derived, Copied, ReportedNow
    <2>2. /\ Founded(st.version) /\ Cardinality(Passed(st.version)) <= Spent
          /\ st.version \in Loadable \cup {Gone}
      BY <2>1, HeldType DEF PaidInv
    <2>3. Cardinality(Passed(st.version)) \in Nat
      BY <2>2, ReachType
    <2>4. Passed(st.version)' = Passed(st.version) /\ Founded(st.version)'
      BY <2>2 DEF Passed, Founded
    <2> QED BY <2>2, <2>3, <2>4
  <1> QED BY <1>1 DEF PaidInv

(***************************************************************************)
(* A resumed run may pass the gate its record names, and has an approval   *)
(* for it.                                                                 *)
(***************************************************************************)
LEMMA SaveDecisionPaid ==
    ASSUME RunInv, GateNamesDistinct, PaidInv, Spent \in Int, Spent' \in Int, Spent' >= Spent,
           vpc = "approved" => Spent' >= Spent + 1, SaveDecision
    PROVE  PaidInv'
  <1>1. /\ called' = called /\ succeeded' = succeeded /\ steps' = steps
        /\ vpc' \in {"idle", "load"}
    BY DEF SaveDecision, resumeFromState, history, envVars
  <1>2. /\ Spent' >= 0
        /\ \A st \in Held' : (Founded(st.version) /\ Cardinality(Passed(st.version)) <= Spent)'
    BY <1>1, DecisionVersions, DerivedPaid DEF RunInv
  <1>3. ASSUME vpc' = "load" PROVE Cardinality((Reach(steps, store.gate))') <= Spent'
    <2>1. vpc = "approved" /\ vst.version = steps /\ store' = vst
      BY <1>3 DEF SaveDecision, resumeFromState
    <2>2. vst \in Held /\ steps \in Loadable \cup {Gone}
      BY <2>1 DEF RunInv, TypeInv, TypeOK, Locals, Held, Deciding
    <2>3. Cardinality(Passed(steps)) <= Spent
      BY <2>1, <2>2 DEF PaidInv
    <2>4. /\ Cardinality(Reach(steps, vst.gate)) <= Cardinality(Passed(steps)) + 1
          /\ Cardinality(Passed(steps)) \in Nat /\ Cardinality(Reach(steps, vst.gate)) \in Nat
      BY <2>2, OneGateMore, ReachType
    <2>5. (Reach(steps, store.gate))' = Reach(steps, vst.gate)
      BY <1>1, <2>1 DEF Reach, Passed, Named
    <2> QED BY <2>1, <2>3, <2>4, <2>5
  <1>4. CallsTools'
    BY <1>1 DEF CallsTools
  <1> QED BY <1>1, <1>2, <1>3, <1>4 DEF PaidInv

LEMMA OtherPaid ==
    ASSUME RunInv, PaidInv, Spent \in Int, Spent' \in Int, Spent' >= Spent,
           \/ \E decision \in Operations : handleHumanDecision(decision)
           \/ LoadState \/ LoadPanics \/ Finish \/ Analyst
           \/ \E r \in Requests : \/ ReadDecision(r, "approved") \/ ReadDecision(r, "rejected")
                                  \/ SendDecision(r)
           \/ BreakJournal \/ Crash \/ UNCHANGED vars
    PROVE  PaidInv'
  <1>1. called' = called /\ succeeded' = succeeded
    BY DEF handleHumanDecision, LoadState, LoadPanics, Finish, Analyst, LoadCompletion,
           SaveCompletion, ReadDecision, SendDecision, BreakJournal, Crash, vars, history
  <1>2. Derived
    BY DecisionVersions, RunVersions, AnalystVersions, RequestVersions, CrashVersions
       DEF RunInv
  <1>3. /\ Spent' >= 0
        /\ \A st \in Held' : (Founded(st.version) /\ Cardinality(Passed(st.version)) <= Spent)'
    BY <1>1, <1>2, DerivedPaid
  <1>4. \A g : Cardinality(Reach(steps, g)) \in Nat
    BY ReachType DEF RunInv, TypeInv, TypeOK
  <1>5. CASE vpc' \notin {"load", "dag"}
    BY <1>3, <1>5 DEF PaidInv, CallsTools
  <1>6. ASSUME vpc' = vpc, steps' = steps, node' = node, exec' = exec,
               vpc = "load" => store'.gate = store.gate \/ store'.gate = ""
        PROVE  PaidInv'
    <2>1. CallsTools'
      BY <1>6 DEF PaidInv, CallsTools, S
    <2>2. vpc = "dag" => Cardinality((Reach(steps, exec.gate))') <= Spent'
      <3>1. (Reach(steps, exec.gate))' = Reach(steps, exec.gate)
        BY <1>1, <1>6 DEF Reach, Passed, Named
      <3> QED BY <1>4, <3>1 DEF PaidInv
    <2>3. vpc = "load" => Cardinality((Reach(steps, store.gate))') <= Spent'
      <3> SUFFICES ASSUME vpc = "load" PROVE Cardinality((Reach(steps, store.gate))') <= Spent'
        OBVIOUS
      <3>1. (Reach(steps, store.gate))' \subseteq Reach(steps, store.gate)
        <4>1. CASE store'.gate = store.gate
          BY <1>1, <1>6, <4>1 DEF Reach, Passed, Named
        <4>2. CASE store'.gate = ""
          <5>1. Named(steps, "") = {}
            BY GatesHaveNames DEF RunInv, TypeInv, TypeOK
          <5>2. (Reach(steps, store.gate))' = Passed(steps) \cup Named(steps, "")
            BY <1>1, <1>6, <4>2 DEF Reach, Passed, Named
          <5> QED BY <5>1, <5>2 DEF Reach
        <4> QED BY <1>6, <4>1, <4>2
      <3>2. IsFiniteSet(Reach(steps, store.gate))
        BY ReachType DEF RunInv, TypeInv, TypeOK
      <3>3. /\ Cardinality((Reach(steps, store.gate))') \in Nat
            /\ Cardinality((Reach(steps, store.gate))') <= Cardinality(Reach(steps, store.gate))
        BY <3>1, <3>2, SetGrows
      <3>4. Cardinality(Reach(steps, store.gate)) <= Spent
        BY DEF PaidInv
      <3> QED BY <1>4, <3>3, <3>4
    <2> QED BY <1>3, <1>6, <2>1, <2>2, <2>3 DEF PaidInv
  <1>7. CASE \E decision \in Operations : handleHumanDecision(decision)
    BY <1>5, <1>7 DEF handleHumanDecision, Receive, Operations
  <1>8. CASE LoadState
    <2>1. /\ vpc = "load" /\ vpc' = "dag" /\ exec' = store /\ steps' = steps
          /\ steps \in Loadable \cup {Gone}
      BY <1>8 DEF LoadState, envVars, RunInv, TypeInv, TypeOK
    <2>2. (Reach(steps, exec.gate))' = Reach(steps, store.gate)
      BY <1>1, <2>1 DEF Reach, Passed, Named
    <2>3. Cardinality((Reach(steps, exec.gate))') <= Spent'
      BY <1>4, <2>1, <2>2 DEF PaidInv
    <2>4. CallsTools'
      BY <1>8, <2>1, LoadableType DEF LoadState, CallsTools
    <2> QED BY <1>3, <2>1, <2>3, <2>4 DEF PaidInv
  <1>9. CASE LoadPanics \/ Finish \/ Crash
    BY <1>5, <1>9 DEF LoadPanics, Finish, Crash
  <1>10. CASE Analyst
    <2>1. steps' = steps /\ vpc' = vpc /\ node' = node /\ exec' = exec
      BY <1>10 DEF Analyst, LoadCompletion, SaveCompletion, dagVars, envVars
    <2>2. store'.gate = store.gate \/ store'.gate = ""
      <3>1. CASE LoadCompletion
        BY <3>1 DEF LoadCompletion
      <3>2. CASE SaveCompletion
        <4>1. analyst.st \in ExecutionState /\ store' = Complete(analyst.st)
          BY <3>2 DEF SaveCompletion, RunInv, TypeInv, TypeOK
        <4> QED BY <4>1 DEF Complete, ExecutionState
      <3> QED BY <1>10, <3>1, <3>2 DEF Analyst
    <2> QED BY <1>6, <2>1, <2>2
  <1>11. CASE \/ \E r \in Requests : \/ ReadDecision(r, "approved") \/ ReadDecision(r, "rejected")
                                     \/ SendDecision(r)
              \/ BreakJournal \/ UNCHANGED vars
    <2>1. steps' = steps /\ vpc' = vpc /\ node' = node /\ exec' = exec /\ store' = store
      BY <1>11 DEF ReadDecision, SendDecision, BreakJournal, vars, dagVars, envVars
    <2> QED BY <1>6, <2>1
  <1> QED BY <1>7, <1>8, <1>9, <1>10, <1>11

LEMMA SpecPaidInv ==
    SummariesLast /\ GateNamesDistinct /\ Spec => [](RunInv /\ IsFiniteSet(Answered) /\ PaidInv)
  <1>1. Init => PaidInv
    <2> SUFFICES ASSUME Init PROVE PaidInv
      OBVIOUS
    <2>1. Held = {}
      BY ValuesAssumption DEF ValuesAssumption, Init, Held, Deciding
    <2> QED BY <2>1, InitSpent DEF Init, PaidInv, CallsTools
  <1>2. ASSUME GateNamesDistinct, RunInv, ApprovalInv, IsFiniteSet(Answered), PaidInv, [Next]_vars
        PROVE  PaidInv'
    <2>1. /\ Spent \in Int /\ Spent' \in Int /\ Spent' >= Spent
          /\ SaveDecision /\ vpc = "approved" => Spent' >= Spent + 1
      BY <1>2, SpentGrows DEF RunInv
    <2>2. ASSUME NEW n \in Names, Goroutine(n) PROVE PaidInv'
      BY <1>2, <2>1, <2>2, GoroutinePaid
    <2>3. CASE DispatchPipeline \/ handleRunPipeline
      BY <1>2, <2>1, <2>3, PlannerPaid DEF ApprovalInv
    <2>4. CASE SaveDecision
      BY <1>2, <2>1, <2>4, SaveDecisionPaid
    <2>5. CASE \/ \E decision \in Operations : handleHumanDecision(decision)
               \/ LoadState \/ LoadPanics \/ Finish \/ Analyst
               \/ \E r \in Requests : \/ ReadDecision(r, "approved") \/ ReadDecision(r, "rejected")
                                      \/ SendDecision(r)
               \/ BreakJournal \/ Crash \/ UNCHANGED vars
      BY <1>2, <2>1, <2>5, OtherPaid
    <2> QED BY <1>2, <2>2, <2>3, <2>4, <2>5 DEF Next, Verifier, Operations
  <1>3. RunInv /\ IsFiniteSet(Answered) /\ [Next]_vars => IsFiniteSet(Answered)'
    BY NextAnswered DEF RunInv
  <1>4. GateNamesDistinct => GateNamesDistinct'
    BY DEF GateNamesDistinct
  <1> QED BY <1>1, <1>2, <1>3, <1>4, InitAnswered, SpecRunInv, SpecApprovalInv, PTL DEF Spec

(***************************************************************************)
(* What depends, directly or not, on k gates is called only after k        *)
(* approvals have been admitted, beside each other or in turn, whatever is *)
(* dropped, lost or repeated on the way: an approval lets executeDAG pass  *)
(* the gate its record names, and no other.                                *)
(***************************************************************************)
THEOREM EachGateIsPaidFor ==
    SummariesLast /\ GateNamesDistinct /\ Spec => []OneApprovalPerGate
  <1>1. RunInv /\ IsFiniteSet(Answered) /\ PaidInv => OneApprovalPerGate
    <2> SUFFICES ASSUME RunInv, IsFiniteSet(Answered), PaidInv, NEW n \in called \cap Ids(Recorded)
                 PROVE  Cardinality(GatesBefore(Recorded, n)) <= Cardinality(Approvals)
      BY DEF OneApprovalPerGate
    <2> DEFINE p == Recorded
               step == StepOf(p, n)
               c == succeeded \cap Reported(p)
    <2>1. store \in Held /\ p = store.version /\ p \in Loadable \cup {Gone}
      <3>1. Recorded # Gone
        BY DEF Ids, Gone
      <3>2. store # NoState /\ Recorded = store.version
        BY <3>1 DEF Recorded
      <3>3. store \in Held
        BY <3>2 DEF RunInv, TypeInv, TypeOK, Held
      <3> QED BY <3>2, <3>3, HeldType
    <2>2. /\ Justified(p) /\ Founded(p) /\ Cardinality(Passed(p)) <= Spent
      BY <2>1 DEF RunInv, Records, PaidInv
    <2>3. SummaryLast(p) /\ Reported(p) \subseteq Ids(p)
      BY <2>1, SummaryLastOf, ReportedNames DEF RunInv
    <2>4. n \in Reported(p)
      BY <2>2, <2>3 DEF SummaryLast, Founded
    <2>5. DependsOn(p, step) \subseteq c /\ \A a \in c : DependsOn(p, StepOf(p, a)) \subseteq c
      BY <2>2, <2>3, <2>4 DEF SummaryLast, Founded, Justified
    <2>6. Ancestors(p, step) \subseteq c
      <3>1. c \in SUBSET Ids(p)
        BY <2>3
      <3> HIDE DEF p, step, c
      <3> QED BY <2>5, <3>1, AncestorsWithin
    <2>7. GatesBefore(p, n) \subseteq Passed(p)
      BY <2>3, <2>6 DEF GatesBefore, Passed
    <2>8. IsFiniteSet(Passed(p)) /\ Cardinality(Passed(p)) \in Nat
      BY <2>1, ReachType
    <2> HIDE DEF p
    <2>9. /\ Cardinality(GatesBefore(p, n)) \in Nat
          /\ Cardinality(GatesBefore(p, n)) <= Cardinality(Passed(p))
      BY <2>7, <2>8, SetGrows
    <2>10. Spent \in Int /\ Cardinality(Approvals) \in Nat /\ Spent <= Cardinality(Approvals)
      BY SpentType DEF RunInv
    <2>11. Cardinality(GatesBefore(p, n)) <= Cardinality(Approvals)
      BY <2>2, <2>8, <2>9, <2>10
    <2> QED BY <2>11 DEF p
  <1> QED BY <1>1, SpecPaidInv, PTL
-----------------------------------------------------------------------------
(***************************************************************************)
(* A gate that waits: the record is of the loaded definition, an approval  *)
(* that is being handled has it in hand, and so has failTool.              *)
(***************************************************************************)
PausedAtGates ==
    \A n \in Ids(steps) : node[n].status = "paused" => node[n].pc = "done" /\ S(n).gate # ""

WaitingInHand ==
    GateWaits =>
        /\ store.version = steps
        /\ vpc = "approved" => vst = store
        /\ vpc = "dag" => \A n \in Names : node[n].pc = "failsave" => fst = store

WaitingInv == PausedAtGates /\ WaitingInHand

LEMMA NoGateWaits ==
    ASSUME WaitingInv, store.gate = ""
    PROVE  ~GateWaits
  BY DEF WaitingInv, PausedAtGates, GateWaits

(***************************************************************************)
(* What a goroutine does to the record: nothing, a pause, failTool's save, *)
(* or, once the journal is broken, the error that closes the gate.         *)
(***************************************************************************)
Outcome(n, pc, status) ==
    \/ store' = store /\ status # "paused"
    \/ ~journal /\ store'.gate = "" /\ status # "paused"
    \/ /\ mu = Nobody /\ S(n).kind = "gate" /\ pc = "done" /\ status = "paused"
       /\ store' = Paused(n)
    \/ /\ node[n].pc = "failsave" /\ pc = "done" /\ status = "failed"
       /\ \E outcome \in {"error", "rejected"} : store' = [fst EXCEPT !.status = outcome]

Outcomes(n) ==
    \E pc \in Places, status \in Statuses : Move(n, pc, status) /\ Outcome(n, pc, status)

LEMMA GoroutineOutcome ==
    ASSUME TypeInv, NEW n \in Names, Goroutine(n)
    PROVE  Outcomes(n)
  <1>1. vpc = "dag" /\ store \in ExecutionState /\ exec \in ExecutionState
    BY GoroutineShape, LoggedType
  <1>2. Failed(exec).gate = ""
    BY <1>1 DEF Failed, ExecutionState
  <1>3. S(n).kind = "gate" => Failed(Paused(n)).gate = ""
    BY DEF Failed, Paused, nextState
  <1>4. ASSUME NEW status \in Statuses, Close(n, status), Outcome(n, "done", status) PROVE Outcomes(n)
    <2>1. Move(n, "done", status) /\ "done" \in Places
      BY <1>4, CloseShape DEF Places
    <2> QED BY <1>4, <2>1 DEF Outcomes
  <1>5. {"cascaded_pause", "cascaded_skip", "skipped", "failed", "success", "paused", "running"}
            \subseteq Statuses
    BY DEF Statuses
  <1>6. ASSUME NEW pc \in Places, NEW status \in Statuses \ {"paused"}, Move(n, pc, status),
               store' = store \/ (~journal /\ failAuditExecution)
        PROVE  Outcomes(n)
    BY <1>2, <1>6 DEF failAuditExecution, Outcome, Outcomes
  <1>7. {"ready", "calling", "unlogged", "failload", "failsave", "done"} \subseteq Places
    BY DEF Places
  <1>8. ASSUME NEW status \in Statuses \ {"paused"}, Close(n, status),
               store' = store \/ (~journal /\ failAuditExecution)
        PROVE  Outcomes(n)
    BY <1>6, <1>7, <1>8, CloseShape
  <1>9. CASE DependencyFails(n)
    <2>1. PICK status \in {"cascaded_pause", "cascaded_skip"} : Close(n, status)
      BY <1>9 DEF DependencyFails
    <2> QED BY <1>5, <1>8, <1>9, <2>1 DEF DependencyFails
  <1>10. CASE Begin(n)
    BY <1>5, <1>6, <1>7, <1>10 DEF Begin
  <1>11. CASE SkipStep(n)
    BY <1>5, <1>8, <1>11 DEF SkipStep
  <1>12. CASE PassGate(n) \/ SendToAnalyst(n) \/ InternalTool(n) \/ NotStarted(n)
    BY <1>5, <1>8, <1>12 DEF PassGate, SendToAnalyst, InternalTool, NotStarted
  <1>13. CASE PauseAtGate(n)
    <2>1. CASE journal /\ store' = Paused(n) /\ Close(n, "paused")
      BY <1>4, <1>5, <1>13, <2>1 DEF PauseAtGate, Locking, Outcome
    <2>2. CASE ~journal /\ store' = Failed(Paused(n)) /\ Close(n, "failed")
      BY <1>3, <1>4, <1>5, <1>13, <2>2 DEF PauseAtGate, Outcome
    <2> QED BY <1>13, <2>1, <2>2 DEF PauseAtGate
  <1>14. CASE StartTool(n)
    BY <1>5, <1>6, <1>7, <1>14 DEF StartTool
  <1>15. CASE ToolSucceeds(n) \/ AgentFails(n)
    BY <1>5, <1>8, <1>15 DEF ToolSucceeds, AgentFails, LogOutcome
  <1>16. CASE ToolFails(n)
    BY <1>5, <1>6, <1>7, <1>16 DEF ToolFails, LogOutcome
  <1>17. CASE LoadFailed(n)
    BY <1>5, <1>6, <1>7, <1>17 DEF LoadFailed
  <1>18. CASE SaveFailed(n)
    <2>1. node[n].pc = "failsave" /\ Close(n, "failed")
      BY <1>18 DEF SaveFailed, At
    <2>2. Outcome(n, "done", "failed")
      BY <1>18, <2>1 DEF SaveFailed, Outcome
    <2> QED BY <1>4, <1>5, <2>1, <2>2
  <1> QED BY <1>9, <1>10, <1>11, <1>12, <1>13, <1>14, <1>15, <1>16, <1>17, <1>18 DEF Goroutine

LEMMA GoroutineWaits ==
    ASSUME TypeInv, Versions, WaitingInv, NEW n \in Names, Goroutine(n)
    PROVE  WaitingInv' /\ (GateWaits /\ journal => GateWaits')
  <1>1. vpc = "dag" /\ n \in Ids(steps) /\ Shape(n) /\ vpc' = vpc /\ steps' = steps
    BY GoroutineShape DEF runUnchanged, envVars
  <1>2. node \in [Names -> [pc : Places, status : Statuses]] /\ steps \in Loadable \cup {Gone}
    BY DEF TypeInv, TypeOK
  <1>3. PICK pc \in Places, status \in Statuses : Move(n, pc, status) /\ Outcome(n, pc, status)
    BY GoroutineOutcome DEF Outcomes
  <1>4. /\ node'[n].pc = pc /\ node'[n].status = status
        /\ \A m \in Names \ {n} : node'[m] = node[m]
    BY <1>2, <1>3 DEF Move
  <1>5. Keeps(n, pc) /\ node[n].pc # "done"
    BY <1>1, <1>2, <1>4 DEF Shape, Move, Flow, Running
  <1>6. Ids(steps) \subseteq Names
    BY <1>2, LoadableType
  <1>7. \A m \in Ids(steps) : node[m].status = "paused" => m # n /\ node'[m] = node[m]
    BY <1>4, <1>5, <1>6 DEF WaitingInv, PausedAtGates
  <1>8. store' \in ExecutionState /\ store \in ExecutionState /\ store' # NoState
        /\ store # NoState
    BY <1>1, GoroutineKeeps, LoggedType, ValuesAssumption DEF ValuesAssumption, TypeInv, Locals
  <1>9. PausedAtGates'
    <2> SUFFICES ASSUME NEW m \in Ids(steps), node'[m].status = "paused"
                 PROVE  node'[m].pc = "done" /\ S(m).gate # ""
      BY <1>1 DEF PausedAtGates, S
    <2>1. CASE m = n
      <3>1. pc = "done" /\ S(n).kind = "gate"
        BY <1>3, <1>4, <2>1 DEF Outcome
      <3>2. n \notin Named(steps, "")
        BY <1>2, GatesHaveNames
      <3> QED BY <1>1, <1>4, <2>1, <3>1, <3>2 DEF Named, S
    <2>2. CASE m # n
      BY <1>4, <1>6, <2>2 DEF WaitingInv, PausedAtGates
    <2> QED BY <2>1, <2>2
  <1>10. CASE store' = store /\ status # "paused"
    <2>1. GateWaits' <=> GateWaits
      BY <1>1, <1>4, <1>6, <1>7, <1>8, <1>10 DEF GateWaits, S
    <2>2. ASSUME GateWaits, NEW m \in Names, node'[m].pc = "failsave" PROVE fst' = store
      <3>1. CASE m = n
        BY <1>4, <1>5, <2>2, <3>1 DEF Keeps
      <3>2. CASE m # n
        <4>1. node[m].pc = "failsave"
          BY <1>4, <2>2, <3>2
        <4>2. node[n].pc \notin FailPcs
          BY <1>1, <3>2, <4>1, HolderFails DEF FailPcs
        <4>3. fst' = fst
          BY <1>5, <4>2 DEF Keeps, FailPcs
        <4> QED BY <1>1, <2>2, <4>1, <4>3 DEF WaitingInv, WaitingInHand
      <3> QED BY <3>1, <3>2
    <2> QED BY <1>1, <1>9, <1>10, <2>1, <2>2 DEF WaitingInv, WaitingInHand
  <1>11. CASE ~journal /\ store'.gate = ""
    BY <1>9, <1>11 DEF WaitingInv, WaitingInHand, PausedAtGates, GateWaits
  <1>12. CASE /\ mu = Nobody /\ S(n).kind = "gate" /\ pc = "done" /\ status = "paused"
              /\ store' = Paused(n)
    <2>1. store'.version = steps /\ store'.gate = S(n).gate
      BY <1>1, <1>12 DEF Versions, VersionsOfRun, Paused, nextState
    <2>2. GateWaits'
      BY <1>1, <1>4, <1>8, <1>12, <2>1 DEF GateWaits, S
    <2>3. \A m \in Names : node'[m].pc # "failsave"
      BY <1>1, <1>4, <1>12, NobodyFails DEF FailPcs
    <2> QED BY <1>1, <1>9, <2>1, <2>2, <2>3 DEF WaitingInv, WaitingInHand
  <1>13. CASE /\ node[n].pc = "failsave" /\ pc = "done" /\ status = "failed"
              /\ \E outcome \in {"error", "rejected"} : store' = [fst EXCEPT !.status = outcome]
    <2>1. fst \in ExecutionState /\ fst.version = steps
      BY <1>1, <1>13 DEF Versions, VersionsOfRun, TypeInv, Mutex
    <2>2. store'.version = steps /\ store'.gate = fst.gate
      BY <1>13, <2>1 DEF ExecutionState
    <2>3. \A m \in Names : node'[m].pc # "failsave"
      BY <1>1, <1>4, <1>13, HolderFails DEF FailPcs
    <2>4. GateWaits => GateWaits'
      <3> SUFFICES ASSUME GateWaits PROVE GateWaits'
        OBVIOUS
      <3>1. fst = store
        BY <1>1, <1>13 DEF WaitingInv, WaitingInHand
      <3>2. PICK m \in Ids(steps) : node[m].status = "paused" /\ store.gate = S(m).gate
        BY DEF GateWaits
      <3> QED BY <1>1, <1>7, <1>8, <2>2, <3>1, <3>2 DEF GateWaits, S
    <2> QED BY <1>1, <1>9, <2>2, <2>3, <2>4 DEF WaitingInv, WaitingInHand
  <1> QED BY <1>3, <1>10, <1>11, <1>12, <1>13 DEF Outcome

(***************************************************************************)
(* The other actions.                                                      *)
(***************************************************************************)
Ends ==
    \/ vpc = "rejected" /\ SaveDecision
    \/ LoadState
    \/ SaveCompletion
    \/ ~journal
    \/ Crash

LEMMA SaveDecisionWaits ==
    ASSUME TypeInv, WaitingInv, SaveDecision
    PROVE  WaitingInv' /\ (GateWaits => GateWaits' \/ Ends)
  <1>1. /\ steps' = steps /\ node' = node /\ vpc' \in {"idle", "load"}
        /\ vpc \in {"approved", "rejected"} /\ vst \in ExecutionState /\ vst # NoState
    BY ValuesAssumption DEF ValuesAssumption, SaveDecision, resumeFromState, dagVars, envVars,
                            TypeInv, Locals
  <1>2. PausedAtGates'
    BY <1>1 DEF WaitingInv, PausedAtGates, S
  <1>3. CASE vpc = "rejected"
    <2>1. store' = [vst EXCEPT !.status = "rejected", !.gate = ""]
      BY <1>3 DEF SaveDecision
    <2>2. store'.gate = ""
      BY <1>1, <2>1 DEF ExecutionState
    <2>3. ~GateWaits'
      BY <1>2, <2>2 DEF PausedAtGates, GateWaits
    <2> QED BY <1>2, <1>3, <2>3 DEF WaitingInv, WaitingInHand, Ends
  <1>4. CASE vpc = "approved" /\ steps = Gone
    <2>1. ~GateWaits /\ ~GateWaits'
      BY <1>1, <1>4, GoneHasNoSteps DEF GateWaits
    <2> QED BY <1>2, <2>1 DEF WaitingInv, WaitingInHand
  <1>5. CASE vpc = "approved" /\ steps # Gone /\ vst.version # steps
    <2>1. store' = Failed(vst)
      BY <1>5 DEF SaveDecision, resumeFromState
    <2>2. store'.gate = ""
      BY <1>1, <2>1 DEF ExecutionState, Failed
    <2>3. ~GateWaits' /\ ~GateWaits
      BY <1>2, <1>5, <2>2 DEF PausedAtGates, GateWaits, WaitingInv, WaitingInHand
    <2> QED BY <1>2, <2>3 DEF WaitingInv, WaitingInHand
  <1>6. CASE vpc = "approved" /\ steps # Gone /\ vst.version = steps
    <2>1. store' = vst
      BY <1>6 DEF SaveDecision, resumeFromState
    <2>2. WaitingInHand'
      BY <1>1, <1>6, <2>1 DEF WaitingInHand
    <2>3. GateWaits => GateWaits'
      BY <1>1, <1>6, <2>1 DEF WaitingInv, WaitingInHand, GateWaits, S
    <2> QED BY <1>2, <2>2, <2>3 DEF WaitingInv
  <1> QED BY <1>1, <1>3, <1>4, <1>5, <1>6

LEMMA OtherWaits ==
    ASSUME TypeInv, Versions, WaitingInv, [Next]_vars, ~SaveDecision,
           ~ \E n \in Names : Goroutine(n)
    PROVE  WaitingInv' /\ (GateWaits => GateWaits' \/ Ends)
  <1>1. CASE DispatchPipeline
    <2>1. store = NoState /\ vpc = "idle" /\ steps' = steps /\ node' = node /\ store'.gate = ""
          /\ ~GateWaits
      BY <1>1 DEF DispatchPipeline, TypeInv, Fresh, Untouched, dagVars, envVars, Blank, GateWaits
    <2>2. PausedAtGates' /\ ~GateWaits'
      BY <2>1 DEF WaitingInv, PausedAtGates, GateWaits, S
    <2> QED BY <2>1, <2>2 DEF WaitingInv, WaitingInHand
  <1>2. CASE handleRunPipeline
    <2>1. /\ 1 \in DOMAIN inbox /\ inbox[1] = "run_pipeline"
          /\ steps' = steps /\ node' = node
      BY <1>2 DEF handleRunPipeline, Receive, TypeInv, TypeOK, dagVars, envVars
    <2>2. store = Blank
      BY <2>1 DEF TypeInv, Fresh
    <2>3. store.gate = "" /\ store'.gate = ""
      BY <1>2, <2>2 DEF handleRunPipeline, Blank, Failed
    <2>4. PausedAtGates' /\ ~GateWaits' /\ ~GateWaits
      BY <2>1, <2>3 DEF WaitingInv, PausedAtGates, GateWaits, S
    <2> QED BY <2>4 DEF WaitingInv, WaitingInHand
  <1>3. CASE \E decision \in Operations : handleHumanDecision(decision)
    <2>1. /\ steps' = steps /\ node' = node /\ store' = store /\ vpc' # "dag"
          /\ vpc' = "approved" => vst' = store
      BY <1>3 DEF handleHumanDecision, Receive, dagVars, envVars, Operations
    <2>2. (GateWaits' <=> GateWaits) /\ PausedAtGates'
      BY <2>1 DEF GateWaits, WaitingInv, PausedAtGates, S
    <2> QED BY <2>1, <2>2 DEF WaitingInv, WaitingInHand
  <1>4. CASE LoadState
    <2>1. /\ steps' = steps /\ steps \in Loadable \cup {Gone}
          /\ node' = [n \in Names |->
                         IF n \notin Ids(steps) THEN NoNodes[n]
                         ELSE [pc |-> "wait",
                               status |-> IF n \in store.done THEN "success" ELSE "pending"]]
      BY <1>4 DEF LoadState, envVars, TypeInv, TypeOK
    <2>2. \A n \in Ids(steps) : node'[n].status # "paused"
      BY <2>1, LoadableType
    <2> QED BY <1>4, <2>1, <2>2 DEF WaitingInv, PausedAtGates, WaitingInHand, GateWaits, Ends
  <1>5. CASE LoadPanics \/ Finish
    <2>1. steps' = steps /\ node' = node /\ store' = store /\ vpc' = "idle"
      BY <1>5 DEF LoadPanics, Finish, envVars
    <2>2. (GateWaits' <=> GateWaits) /\ PausedAtGates'
      BY <2>1 DEF GateWaits, WaitingInv, PausedAtGates, S
    <2> QED BY <2>1, <2>2 DEF WaitingInv, WaitingInHand
  <1>6. CASE SaveCompletion
    <2>1. steps' = steps /\ node' = node /\ store' = Complete(analyst.st)
          /\ analyst.st \in ExecutionState
      BY <1>6 DEF SaveCompletion, dagVars, envVars, TypeInv, TypeOK
    <2>2. store'.gate = ""
      BY <2>1 DEF Complete, ExecutionState
    <2>3. PausedAtGates' /\ ~GateWaits'
      BY <2>1, <2>2 DEF WaitingInv, PausedAtGates, GateWaits, S
    <2> QED BY <1>6, <2>3 DEF WaitingInv, WaitingInHand, Ends
  <1>7. CASE \/ LoadCompletion \/ BreakJournal \/ UNCHANGED vars
             \/ \E r \in Requests : \/ ReadDecision(r, "approved") \/ ReadDecision(r, "rejected")
                                    \/ SendDecision(r)
    <2>1. /\ steps' = steps /\ node' = node /\ store' = store /\ vpc' = vpc /\ vst' = vst
          /\ fst' = fst
      BY <1>7 DEF LoadCompletion, ReadDecision, SendDecision, BreakJournal, vars, dagVars, envVars
    <2>2. (GateWaits' <=> GateWaits) /\ PausedAtGates'
      BY <2>1 DEF GateWaits, WaitingInv, PausedAtGates, S
    <2> QED BY <2>1, <2>2 DEF WaitingInv, WaitingInHand
  <1>8. CASE Crash
    <2>1. steps' \in Loadable \cup {Gone} /\ node' = NoNodes
      BY <1>8 DEF Crash
    <2>2. \A n \in Ids(steps') : node'[n].status # "paused"
      BY <2>1, LoadableType DEF NoNodes
    <2> QED BY <1>8, <2>2 DEF WaitingInv, PausedAtGates, WaitingInHand, GateWaits, Ends
  <1> QED BY <1>1, <1>2, <1>3, <1>4, <1>5, <1>6, <1>7, <1>8
          DEF Next, Verifier, Analyst, Operations

LEMMA NextWaits ==
    ASSUME TypeInv, Versions, WaitingInv, [Next]_vars
    PROVE  WaitingInv' /\ (GateWaits => GateWaits' \/ Ends)
  <1>1. ASSUME NEW n \in Names, Goroutine(n)
        PROVE  WaitingInv' /\ (GateWaits => GateWaits' \/ Ends)
    BY <1>1, GoroutineWaits DEF Ends
  <1> QED BY <1>1, SaveDecisionWaits, OtherWaits

(***************************************************************************)
(* While a gate waits, nothing but the human's decision, a completion that *)
(* was asked for before, a broken journal or a crash takes the gate out of *)
(* the record: in particular no failTool of another branch, which loads    *)
(* and saves the whole record under the mutex, and no approval, which      *)
(* saves its copy before executeDAG looks for the gate in it.  Any number  *)
(* of gates, branches and decisions.                                       *)
(***************************************************************************)
THEOREM PausesAreKept == Spec => PauseIsKept
  <1>1. Init => WaitingInv
    <2> SUFFICES ASSUME Init PROVE WaitingInv
      OBVIOUS
    <2>1. steps \in Loadable \cup {Gone} /\ node = NoNodes /\ store = NoState
      BY DEF Init
    <2>2. \A n \in Ids(steps) : node[n].status # "paused"
      BY <2>1, LoadableType DEF NoNodes
    <2> QED BY <2>1, <2>2 DEF WaitingInv, PausedAtGates, WaitingInHand, GateWaits
  <1>2. ApprovalInv /\ WaitingInv /\ [Next]_vars => WaitingInv'
    BY NextWaits DEF ApprovalInv
  <1>3. ApprovalInv /\ WaitingInv /\ [Next]_vars => (GateWaits => GateWaits' \/ Ends)
    BY NextWaits DEF ApprovalInv
  <1>4. (GateWaits => GateWaits' \/ Ends)
        <=> (GateWaits /\ ~GateWaits' =>
                \/ vpc = "rejected" /\ SaveDecision
                \/ LoadState
                \/ SaveCompletion
                \/ ~journal
                \/ Crash)
    BY DEF Ends
  <1> QED BY <1>1, <1>2, <1>3, <1>4, SpecApprovalInv, PTL DEF Spec, PauseIsKept
=============================================================================
