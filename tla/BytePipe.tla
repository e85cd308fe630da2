------------------------------- MODULE BytePipe -------------------------------
(***************************************************************************)
(* What a resumable stream promises the two applications it connects: each *)
(* end reads the bytes the other end wrote, once and in order, and sees    *)
(* end of file only after all of them.  An end may cut the pipe short: the *)
(* other end then reads a prefix of what was written and end of file, and  *)
(* what it has not read is lost.  A pipe may also tear; a torn pipe        *)
(* promises nothing.                                                       *)
(***************************************************************************)
EXTENDS ByteRanges

VARIABLES out,  \* out[e]: number of bytes end e has written
          in,   \* in[e]: the bytes end e has read
          fin,  \* fin[e]: end e has closed its write side
          eof,  \* eof[e]: end e has read end of file
          cut,  \* cut[e]: end e has cut its direction short
          torn

vars == <<out, in, fin, eof, cut, torn>>

Init ==
  /\ out = [e \in Ends |-> 0]
  /\ in = [e \in Ends |-> <<>>]
  /\ fin = [e \in Ends |-> FALSE]
  /\ eof = [e \in Ends |-> FALSE]
  /\ cut = [e \in Ends |-> FALSE]
  /\ torn = FALSE

Send(e) ==
  /\ ~fin[e]
  /\ out' = [out EXCEPT ![e] = out'[e]] /\ out'[e] > out[e]
  /\ UNCHANGED <<in, fin, eof, cut, torn>>

Deliver(e) ==
  /\ ~torn /\ ~eof[e]
  /\ \E n \in Len(in[e]) + 1 .. out[Peer(e)] : in' = [in EXCEPT ![e] = Bytes(0, n)]
  /\ UNCHANGED <<out, fin, eof, cut, torn>>

CloseWrite(e) ==
  /\ fin' = [fin EXCEPT ![e] = TRUE]
  /\ UNCHANGED <<out, in, eof, cut, torn>>

Finish(e) ==
  /\ ~torn
  /\ \/ fin[Peer(e)] /\ Len(in[e]) = out[Peer(e)]
     \/ cut[Peer(e)]
  /\ eof' = [eof EXCEPT ![e] = TRUE]
  /\ UNCHANGED <<out, in, fin, cut, torn>>

CutShort(e) ==
  /\ cut' = [cut EXCEPT ![e] = TRUE]
  /\ UNCHANGED <<out, in, fin, eof, torn>>

Tear == torn' = TRUE /\ UNCHANGED <<out, in, fin, eof>>

Torn == torn /\ torn'

Next == \/ \E e \in Ends :
             Send(e) \/ Deliver(e) \/ CloseWrite(e) \/ Finish(e) \/ CutShort(e)
        \/ Tear \/ Torn

Spec == Init /\ [][Next]_vars

===============================================================================
