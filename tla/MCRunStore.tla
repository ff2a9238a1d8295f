----------------------------- MODULE MCRunStore -----------------------------
(***************************************************************************)
(* A legacy run without a revision, and three runs of the project, one of  *)
(* which is deleted.                                                       *)
(***************************************************************************)
EXTENDS RunStore, TLC

CONSTANTS a, b, p, q

FourRuns == <<p, q, p, q>>
LegacyOne == 1 :> 0
AsCallers == Permutations({a, b})
=============================================================================
