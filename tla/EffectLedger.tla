----------------------------- MODULE EffectLedger -----------------------------
(***************************************************************************)
(* What ExecutionKernel promises the owner of external effects: an action  *)
(* is performed only under a durable intent, never again once its readback *)
(* is durable, and an action of a fenced kind once at most, whatever dies  *)
(* in between.  An action is a record with a field kind.                   *)
(***************************************************************************)
CONSTANT FencedKinds   \* kinds of actions whose repetition is not safe

VARIABLES
    ledger,     \* the durable state of every action that has an intent
    performed,  \* the actions the effect owner has really done
    repeated    \* those it has done more than once

vars == <<ledger, performed, repeated>>

Init == ledger = <<>> /\ performed = {} /\ repeated = {}

IsFenced(a) == a.kind \in FencedKinds

Enter(a, value) ==
    /\ ledger' = [b \in DOMAIN ledger \cup {a} |->
                     IF b = a THEN value ELSE ledger[b]]
    /\ UNCHANGED <<performed, repeated>>

Intend(a) == a \notin DOMAIN ledger /\ Enter(a, "intent")

Fence(a) ==
    /\ IsFenced(a)
    /\ a \in DOMAIN ledger /\ ledger[a] = "intent"
    /\ Enter(a, "attempted")

ReadBack(a) == a \in DOMAIN ledger /\ Enter(a, "read_back")

\* An action that is not fenced can be repeated until it is read back.
Perform(a) ==
    /\ a \in DOMAIN ledger
    /\ ledger[a] = IF IsFenced(a) THEN "attempted" ELSE "intent"
    /\ IsFenced(a) => a \notin performed
    /\ performed' = performed \cup {a}
    /\ repeated' = repeated \cup ({a} \cap performed)
    /\ UNCHANGED ledger

Next ==
    \E a \in DOMAIN ledger' : Intend(a) \/ Fence(a) \/ ReadBack(a) \/ Perform(a)

Spec == Init /\ [][Next]_vars
===============================================================================
