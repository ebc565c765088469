------------------------------ MODULE MCRpcSync ------------------------------
(* RpcSync for TLC: the fault sets of the runs. *)
EXTENDS RpcSync

NoFaults == {}
Timeouts == {"timeout"}
AllFaults == {"crash", "handler_error", "timeout"}
=============================================================================
