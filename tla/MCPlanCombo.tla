---------------------------- MODULE MCPlanCombo ----------------------------
(***************************************************************************)
(* A small instance of PlanCombo: three rows in the order 3, 1, 2 (2 has   *)
(* no ROI), of which excluded ones drop out; costs up to 2.5 cents and     *)
(* budgets up to 4.5 cents in half cents, so that ties, roundings both     *)
(* ways and several units of an ASIN occur.                                *)
(***************************************************************************)
EXTENDS PlanCombo, TLC

CONSTANTS k, l  \* categories

MCBudgets == {-1} \cup 1 .. 9
MCRoi == (1 :> 40) @@ (2 :> None) @@ (3 :> 50)
=============================================================================
