---------------------------- MODULE MCRuntimeBinding --------------------------
(* RuntimeBinding for TLC: both processes drive the action; one parks and   *)
(* resumes it, the other fences and retires it.                             *)
EXTENDS RuntimeBinding, TLC

CONSTANTS p1, p2

Divided == (p1 :> {"progress", "resume", "park"}) @@ (p2 :> {"progress", "fence", "retire"})
==============================================================================
