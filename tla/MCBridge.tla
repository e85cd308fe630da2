------------------------------ MODULE MCBridge ------------------------------
(* A small instance of Bridge for TLC: a request of one byte, an answer     *)
(* larger than the stream's window.                                         *)
EXTENDS Bridge

Exchange == [consumer |-> 1, provider |-> 3]

=============================================================================
