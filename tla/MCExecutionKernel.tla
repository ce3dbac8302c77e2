-------------------------- MODULE MCExecutionKernel --------------------------
EXTENDS ExecutionKernel

\* Dependencies and Exclusive Resources of the model-checked plans.
Independent == [t \in Ticket |-> {}]
NoResources == [t \in Ticket |-> {}]
Blocked == [t \in Ticket |-> IF t = 1 THEN {2} ELSE {}]
Shared == [t \in Ticket |-> IF t = 2 THEN {} ELSE {"workspace"}]
==============================================================================
