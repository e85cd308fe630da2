--------------------------- MODULE MCInterception ---------------------------
(* Interception with two explicit listeners, or one transparent listener    *)
(* over blocks of four addresses and a prefix 6 .. 9 that crosses a block:  *)
(* 6 and 9 are usable.  Three names exhaust it.                             *)
EXTENDS Interception

CONSTANTS l1, l2, pay, web
=============================================================================
