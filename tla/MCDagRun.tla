------------------------------ MODULE MCDagRun ------------------------------
(***************************************************************************)
(* Pipelines for model checking DagRun.                                    *)
(***************************************************************************)
EXTENDS DagRun, TLC

Node(id, kind, deps) ==
    [id |-> id, kind |-> kind, gate |-> "", deps |-> deps, cond |-> FALSE, dangerous |-> FALSE]
Gate(id, name, deps) == [Node(id, "gate", deps) EXCEPT !.gate = name]
Dangerous(id, deps) == [Node(id, "tool", deps) EXCEPT !.dangerous = TRUE]
When(step) == [step EXCEPT !.cond = TRUE]

(* definitions/pipelines/dag_demo.yaml, the notice left out *)
Demo == <<Node("check", "tool", <<>>), Node("balance", "tool", <<>>),
          Gate("gate", "manager_review", <<"check", "balance">>),
          Dangerous("transfer", <<"gate">>), Node("summary", "analyst", <<"transfer">>)>>

(* a check beside the approval, and a step that needs both *)
Beside == <<Node("check", "tool", <<>>), Gate("gate", "review", <<>>),
            Dangerous("act", <<"check", "gate">>)>>

(* two reviews: side by side, and one after the other *)
TwoReviews == <<Gate("a", "risk", <<>>), Gate("b", "legal", <<>>), Dangerous("act", <<"a", "b">>),
                Node("note", "internal", <<"b">>)>>
InTurn == <<Gate("a", "risk", <<>>), Node("agent", "agent", <<"a", "none">>),
            Gate("b", "legal", <<"agent">>), Dangerous("act", <<"b">>)>>

(* a conditional approval, a conditional check *)
Maybe == <<When(Gate("gate", "review", <<>>)), When(Node("check", "agent", <<>>)),
           Dangerous("act", <<"gate", "check">>)>>

(* a second review that only some runs need *)
MaybeSecond == <<Gate("a", "risk", <<>>), When(Gate("b", "legal", <<>>))>>

(* an id given twice: the second step replaces the first *)
Twice == <<Gate("gate", "review", <<>>), Node("note", "agent", <<>>),
           Node("note", "internal", <<"gate">>), Node("summary", "analyst", <<"note">>)>>

(* refused: the approval is listed first but on another branch *)
Unsafe == <<Gate("gate", "review", <<>>), Dangerous("act", <<>>)>>

DagPipelines == {Demo, Beside, TwoReviews, InTurn, Maybe, MaybeSecond, Twice, Unsafe}
BesideOnly == {Beside}

Symmetric == Permutations(Requests)
=============================================================================
