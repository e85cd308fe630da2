---------------------------- MODULE MCStreamResume ----------------------------
(* Small instances of StreamResume for TLC. *)
EXTENDS StreamResume

OneWay == [consumer |-> 2, provider |-> 0]

(* TLC stops where a Resume has raced with the accounting: the pipe is then *)
(* torn, and RingKeepsUnread is proved for such states too.                 *)
Intact == ~raced

===============================================================================
