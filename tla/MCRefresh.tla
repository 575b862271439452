----------------------------- MODULE MCRefresh -----------------------------
(***************************************************************************)
(* Refresh with model values, for TLC.  Nothing in Refresh tells ASINs,    *)
(* job ids, callers or workers apart, so they are symmetric; the liveness  *)
(* run does not use the symmetry.                                          *)
(***************************************************************************)
EXTENDS Refresh, TLC

Symmetry == Permutations(Asins) \cup Permutations(JobIds)
              \cup Permutations(Callers) \cup Permutations(Workers)
=============================================================================
