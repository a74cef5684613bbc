--------------------------- MODULE MC_IntranetRpc ---------------------------
(* Model-checking instance of IntranetRpc: the constants are given in the  *)
(* .cfg files (MC_Calls, MC_PushFanOut, MC_FatalSubscribe).                *)
EXTENDS IntranetRpc
=============================================================================
