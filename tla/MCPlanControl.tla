---------------------------- MODULE MCPlanControl ----------------------------
(* PlanControl for TLC: a first Campaign that may drop its second Ticket,   *)
(* and a second Campaign that wants it.                                     *)
EXTENDS PlanControl, TLC

CONSTANTS first, second, t1, t2

Overlapping == (first :> {{t1, t2}, {t1}}) @@ (second :> {{t2}})

Growing == (first :> {{t1}, {t1, t2}}) @@ (second :> {{t2}})

Few == (first :> 2) @@ (second :> 1)

Interchangeable == Permutations(Host)
==============================================================================
