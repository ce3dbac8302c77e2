--------------------------- MODULE MCBatchDelivery ---------------------------
(* BatchDelivery for TLC: two Campaigns, one with a Batch of two members    *)
(* and a third Candidate that is incompatible with the first.               *)
EXTENDS BatchDelivery

CONSTANTS r1, r2, t1, t2, t3, t4

ThreeAndOne == [r \in Request |-> IF r = r1 THEN <<t1, t4, t2>> ELSE <<t3>>]

Apart == {{t1, t4}}
==============================================================================
