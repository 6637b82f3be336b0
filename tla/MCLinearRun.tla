---------------------------- MODULE MCLinearRun ----------------------------
(***************************************************************************)
(* Pipelines for model checking LinearRun.                                 *)
(***************************************************************************)
EXTENDS LinearRun

Step(kind) == [kind |-> kind, gate |-> "", submits |-> FALSE, cond |-> FALSE, timeout |-> 0]
Gate(name) == [Step("gate") EXCEPT !.gate = name]
When(step) == [step EXCEPT !.cond = TRUE]
Await(timeout) == [Step("await") EXCEPT !.timeout = timeout]
Submit == [Step("tool") EXCEPT !.submits = TRUE]

(* definitions/pipelines/custody.yaml: submit, wait, conditional anchor, summary *)
Custody == <<Submit, Await(0), When(Step("tool")), Step("analyst")>>
(* definitions/pipelines/callback_demo.yaml *)
Notify == <<Submit, Await(1), Step("tool")>>
CallbackPipelines == {Custody, Notify}

(* a tool between two approvals, and one behind both *)
TwoGates == <<Gate("first"), Step("tool"), Gate("second"), Step("tool")>>
TwoGatesOnly == {TwoGates}

(* a gate skipped by its condition, one that is not, a remote agent, a summary *)
Mixed == <<Step("internal"), When(Gate("extra")), Gate("review"), Step("agent"), Step("analyst")>>

(* approval, submission, wait, and a remote agent after it *)
Guarded == <<Gate("review"), Submit, Await(1), Step("agent")>>

(* nothing but a wait with a deadline, for which callbacks race *)
Timed == <<Submit, Await(1)>>

LinearPipelines == {TwoGates, Mixed, Guarded, Custody, Timed}

(* a review between the submission and the wait *)
LateReview == <<Submit, Gate("review"), Await(0), Step("tool")>>
LateReviewOnly == {LateReview}

(* two submissions, each with its wait *)
TwoWaits == <<Submit, Await(0), Submit, Await(0), Step("tool")>>
TwoWaitsOnly == {TwoWaits}
=============================================================================
