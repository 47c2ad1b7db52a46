------------------------- MODULE MCExitPolicyParity -------------------------
(* Bounded instance of ExitPolicyParity for TLC: the parameters and the bound  *)
(* of MCExitPolicy.                                                            *)
EXTENDS ExitPolicyParity, MCExitPolicy
=============================================================================
