---------------------------- MODULE MCKernelStore ----------------------------
(* KernelStore for TLC: its constants are given in the configurations.      *)
EXTENDS KernelStore
==============================================================================
