--------------------------- MODULE MCPvmExecutor ---------------------------
(***************************************************************************)
(* PvmExecutor for the model checker: call data of one byte and of two.    *)
(***************************************************************************)
EXTENDS PvmExecutor

MCCallDatas == {<<1>>, <<0, 1>>}

=============================================================================
