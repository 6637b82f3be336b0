---------------------------- MODULE MCToolStep ----------------------------
(***************************************************************************)
(* ToolStep for TLC: two nodes that run side by side, in pairs that bring  *)
(* every kind of call together with another.                               *)
(***************************************************************************)
EXTENDS ToolStep

CONSTANTS s1, s2

MCSteps == {s1, s2}

Pair(a, b) == [s \in MCSteps |-> IF s = s1 THEN a ELSE b]

MCPlans == {Pair("mcp", "agent"), Pair("a2a", "http"),
            Pair("grpc", "diff"), Pair("tests", "file")}
=============================================================================
