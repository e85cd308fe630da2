--------------------------- MODULE MCResumableStream ---------------------------
(* ResumableStream with one Read, one Write, one SwapInner and one Close: the *)
(* fewest goroutines that can close a channel twice or miss a wakeup.         *)
EXTENDS ResumableStream, TLC
================================================================================
