----------------------------- MODULE MCPlanner -----------------------------
(***************************************************************************)
(* Intents, users and configurations for model checking Planner.           *)
(***************************************************************************)
EXTENDS Planner, TLC

(* alice may use finance, root everything *)
UserDomains == [u \in {"alice", "root"} |-> IF u = "alice" THEN {"finance"} ELSE {"*"}]

Plain == [roles |-> {"finance"}, listed |-> TRUE, pipeline |-> TRUE, tools |-> <<"tool">>,
          allowDangerous |-> FALSE, requiresAmount |-> FALSE, required |-> FALSE,
          governed |-> FALSE, aiSystem |-> FALSE]

Transfer == [Plain EXCEPT !.tools = <<"internal", "dangerous">>, !.allowDangerous = TRUE,
                          !.requiresAmount = TRUE, !.required = TRUE, !.governed = TRUE,
                          !.aiSystem = TRUE]
Forecast == [Plain EXCEPT !.roles = {"support"}, !.required = TRUE]
Chat == [Plain EXCEPT !.listed = FALSE, !.tools = <<"llm">>]
Chain == [Plain EXCEPT !.tools = <<"dangerous", "dangerous">>, !.allowDangerous = TRUE]
Danger == [Plain EXCEPT !.tools = <<"dangerous">>]
Broken == [Plain EXCEPT !.tools = <<"tool", "missing">>, !.required = TRUE]
Gone == [Plain EXCEPT !.pipeline = FALSE, !.required = TRUE]
Unbound == [Plain EXCEPT !.governed = TRUE]

Prod == [intents |-> ("transfer" :> Transfer) @@ ("forecast" :> Forecast)
                     @@ ("system.fallback" :> Chat),
         rbac |-> TRUE, unknownAllowed |-> FALSE, deterministic |-> FALSE, pdp |-> TRUE,
         localTools |-> FALSE, timed |-> TRUE]
Wrong == [Prod EXCEPT !.intents = ("chain" :> Chain) @@ ("danger" :> Danger) @@ ("broken" :> Broken)
                                  @@ ("gone" :> Gone) @@ ("unbound" :> Unbound)]
Local == [Prod EXCEPT !.intents = ("chain" :> Chain) @@ ("system.fallback" :> Chat),
                      !.unknownAllowed = TRUE, !.localTools = TRUE]
NoPdp == [Prod EXCEPT !.pdp = FALSE, !.rbac = FALSE]
Offline == [Prod EXCEPT !.deterministic = TRUE]
(* Gemini: calls without a time limit *)
Gemini == [NoPdp EXCEPT !.timed = FALSE]

IntentNames == {"transfer", "forecast", "chain", "danger", "broken", "gone", "unbound",
                "system.fallback"}

AllConfigs == {Prod, Wrong, Local, NoPdp, Offline, Gemini}
ProdOnly == {Prod}
=============================================================================
