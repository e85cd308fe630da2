------------------------------ MODULE ByteRanges ------------------------------
(***************************************************************************)
(* The two ends of a stream, and runs of its bytes.  The bytes an end      *)
(* writes are numbered 1, 2, 3, ...                                        *)
(***************************************************************************)
EXTENDS Naturals, Sequences

Ends == {"consumer", "provider"}
Peer(e) == IF e = "consumer" THEN "provider" ELSE "consumer"

(* Bytes a+1 .. b of a stream, as they stand in a buffer or on a wire. *)
Bytes(a, b) == [i \in 1 .. b - a |-> a + i]

===============================================================================
