-------------------------- MODULE MCControlStream --------------------------
(* ControlStream with a reconnect: EnableP2P starts one controlReader and   *)
(* Reconnect the second.                                                    *)
EXTENDS ControlStream

CONSTANTS r1, r2, w1
=============================================================================
