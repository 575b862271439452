---------------------------- MODULE MCAgentTools ----------------------------
(***************************************************************************)
(* A small instance of AgentTools: two ASINs, one of them better; two      *)
(* turns of one session, which may overlap or follow each other, and which *)
(* nothing tells apart.                                                    *)
(***************************************************************************)
EXTENDS AgentTools, TLC

CONSTANTS a, b, t1, t2, s1

MCValuesOf == ("min_roi" :> {"20"}) @@ ("eligible_only" :> {"on", Off})
MCMeets == {<<b, "min_roi", "20">>, <<a, "eligible_only", "on">>, <<b, "eligible_only", "on">>}
MCSqlResults == {<<b, a>>}
MCSessionOf == (t1 :> s1) @@ (t2 :> s1)
Symmetry == Permutations(Turns)
=============================================================================
