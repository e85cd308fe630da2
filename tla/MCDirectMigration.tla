-------------------------- MODULE MCDirectMigration --------------------------
(* A small instance of DirectMigration for TLC: one byte from the consumer, *)
(* two from the provider, whose ring holds one.                             *)
EXTENDS DirectMigration

Exchange == [consumer |-> 1, provider |-> 2]

(* Nothing is claimed of a stream once it is torn, so TLC stops there. *)
Intact == ~torn

==============================================================================
