---------------------------- MODULE MCClaimLedger ----------------------------
(* ClaimLedger for TLC: one Work Run, whose delivery and stale readback     *)
(* follow its semantic action.                                              *)
EXTENDS ClaimLedger

CONSTANTS semantic, delivery, readback

OneRun == [a \in {delivery, readback} |-> semantic]
==============================================================================
