--------------------------- MODULE DirectMigration ---------------------------
(***************************************************************************)
(* Moving a live stream from the relay to a direct connection between the  *)
(* two agents: MigrateToDirect at the consumer, handleDirectStream at the  *)
(* provider (pkg/session/promote.go), while the bridges go on reading and  *)
(* writing, and while Reconnect may be moving the same stream to the next  *)
(* relay (pkg/session/session.go).  Neither migration step waits for the   *)
(* other end: the consumer announces what it has read and swaps at once,   *)
(* the provider retransmits from there and swaps.  Bytes are numbered from *)
(* 1 at each end.  Checkpoints, repeated relay restarts, and the gap       *)
(* between inner I/O and its accounting are in StreamResume.               *)
(***************************************************************************)
EXTENDS ByteRanges, Integers, FiniteSets

CONSTANTS Cap,       \* capacity of the ring
          MaxBytes,  \* bound: MaxBytes[e] bytes are written by end e
          MaxDeaths  \* bound: paths that fail

(* The relay's stream, the direct one, and one on the relay that Reconnect  *)
(* finds when the first is lost.                                            *)
Paths == {"relay", "direct", "new"}

VARIABLES
  dead,      \* paths that have failed
  gone,      \* gone[e]: failed paths whose failure end e has seen
  wire,      \* wire[p][e]: bytes from e on path p to Peer(e)
  finWire,   \* finWire[p][e]: a FIN follows them
  ack,       \* ack[p][e]: position e has announced in a STREAM_RESUME on p
  inner,     \* inner[e]: path of the wrapper's inner
  left,      \* left[e]: paths whose stream a swap of e has cancelled
  abandoned, \* abandoned[e]: closed or dropped, and no longer in s.streams
  closed,    \* closed[e]: the bridge has closed the wrapper
  phase,     \* phase[e]: where e's Resume on the new relay stands
  mig,       \* where the consumer's MigrateToDirect stands
  dir,       \* where the provider's handleDirectStream stands
  written, tail, got, fin, eof,  \* as in StreamResume; State.Sent is
             \* written[e], State.Received is Len(got[e])
  upto,      \* history: upto[p][e]: last byte e had retransmitted on p
  base,      \* history: bytes from the consumer that end e took to have
             \* gone over the relay when it swapped to the direct path
  cut,       \* history: cut[e]: a Resume of e failed once it was paired
  torn       \* history: a swap came too early or too late for some byte

network == <<dead, wire, finWire, ack>>
wrapper == <<inner, left, abandoned, closed>>
counters == <<written, tail, got, fin, eof>>
history == <<upto, base, cut, torn>>
migration == <<mig, dir>>
vars == <<network, gone, wrapper, phase, migration, counters, history>>

None == -1
Larger(a, b) == IF a > b THEN a ELSE b

Init ==
  /\ dead = {}
  /\ gone = [e \in Ends |-> {}]
  /\ wire = [p \in Paths |-> [e \in Ends |-> <<>>]]
  /\ finWire = [p \in Paths |-> [e \in Ends |-> FALSE]]
  /\ ack = [p \in Paths |-> [e \in Ends |-> None]]
  /\ inner = [e \in Ends |-> "relay"]
  /\ left = [e \in Ends |-> {}]
  /\ abandoned = [e \in Ends |-> FALSE]
  /\ closed = [e \in Ends |-> FALSE]
  /\ phase = [e \in Ends |-> "run"]
  /\ mig = "idle" /\ dir = "idle"
  /\ written = [e \in Ends |-> 0]
  /\ tail = [e \in Ends |-> 0]
  /\ got = [e \in Ends |-> <<>>]
  /\ fin = [e \in Ends |-> FALSE]
  /\ eof = [e \in Ends |-> FALSE]
  /\ upto = [p \in Paths |-> [e \in Ends |-> None]]
  /\ base = [e \in Ends |-> None]
  /\ cut = [e \in Ends |-> FALSE]
  /\ torn = FALSE

(* A wrapper that Reconnect dropped goes on as long as its inner does. *)
Usable(e) == ~closed[e] /\ inner[e] \notin gone[e]

(* What e sends on p arrives: p works and Peer(e) has not cancelled it. *)
Carries(p, e) == p \notin dead /\ p \notin left[Peer(e)]
Put(p, e, bytes) == wire' = [wire EXCEPT ![p][e] = IF Carries(p, e) THEN @ \o bytes ELSE @]

--------------------------------------------------------------------------------
(* The wrapper: inner I/O with its OnWrite and OnRead *)

Write(e) ==
  /\ Usable(e) /\ ~fin[e] /\ written[e] < MaxBytes[e]
  /\ written' = [written EXCEPT ![e] = @ + 1]
  /\ tail' = [tail EXCEPT ![e] = Larger(@, written[e] + 1 - Cap)]
  /\ Put(inner[e], e, <<written[e] + 1>>)
  /\ UNCHANGED <<dead, finWire, ack, gone, wrapper, phase, migration, got, fin, eof, history>>

Read(e) ==
  /\ Usable(e) /\ ~eof[e]
  /\ wire[inner[e]][Peer(e)] # <<>>
  /\ got' = [got EXCEPT ![e] = Append(@, Head(wire[inner[e]][Peer(e)]))]
  /\ wire' = [wire EXCEPT ![inner[e]][Peer(e)] = Tail(@)]
  /\ UNCHANGED <<dead, finWire, ack, gone, wrapper, phase, migration, written, tail, fin, eof, history>>

ReadEOF(e) ==
  /\ Usable(e) /\ ~eof[e]
  /\ wire[inner[e]][Peer(e)] = <<>> /\ finWire[inner[e]][Peer(e)]
  /\ eof' = [eof EXCEPT ![e] = TRUE]
  /\ UNCHANGED <<network, gone, wrapper, phase, migration, written, tail, got, fin, history>>

HalfClose(e) ==
  /\ fin' = [fin EXCEPT ![e] = TRUE]
  /\ finWire' = [finWire EXCEPT ![inner[e]][e] = @ \/ Carries(inner[e], e)]
  /\ UNCHANGED <<dead, wire, ack, gone, inner, left, phase, migration, written, tail, got, eof, history>>

CloseWrite(e) ==
  /\ ~closed[e] /\ ~fin[e]
  /\ HalfClose(e)
  /\ UNCHANGED <<abandoned, closed>>

(* Close: the bridge's outgoing loop has ended, with the half-close that    *)
(* EOF brings or because the inner failed.                                  *)
Close(e) ==
  /\ ~closed[e] /\ (fin[e] \/ inner[e] \in gone[e])
  /\ closed' = [closed EXCEPT ![e] = TRUE]
  /\ abandoned' = [abandoned EXCEPT ![e] = TRUE]
  /\ HalfClose(e)

(* What end e takes the consumer to have sent over the paths before. *)
BaseOf(e) == IF e = "consumer" THEN written[e] ELSE Len(got[e])

(* The positions a swap of e to p relies on no longer hold: e has read      *)
(* since it announced what it had read; it has written since it             *)
(* retransmitted; nobody retransmits for the consumer, and the ends differ  *)
(* on where its bytes on the direct path begin; or the peer has left p.     *)
OutOfDate(e, p) ==
  \/ ack[p][e] \notin {None, Len(got[e])}
  \/ upto[p][e] \notin {None, written[e]}
  \/ p = "direct" /\ base[Peer(e)] \notin {None, BaseOf(e)}
  \/ p \in left[Peer(e)]

(* SwapInner: new I/O uses p, CancelRead drops what was unread. *)
SwapInner(e, p) ==
  /\ inner' = [inner EXCEPT ![e] = p]
  /\ left' = [left EXCEPT ![e] = @ \cup {inner[e]}]
  /\ wire' = [wire EXCEPT ![inner[e]][Peer(e)] = <<>>]
  /\ base' = IF p = "direct" THEN [base EXCEPT ![e] = BaseOf(e)] ELSE base
  /\ torn' = (torn \/ OutOfDate(e, p))
  /\ UNCHANGED <<dead, finWire, ack, gone, abandoned, closed, counters, upto, cut>>

--------------------------------------------------------------------------------
(* MigrateToDirect and handleDirectStream *)

(* MigrateToDirect's OpenStream or WriteFrame fails. *)
MigrateFails ==
  /\ mig = "idle"
  /\ mig' = "failed"
  /\ UNCHANGED <<network, gone, wrapper, phase, dir, counters, history>>

(* ... or STREAM_RESUME goes out with ResumePayload. *)
MigrateSend ==
  /\ mig = "idle" /\ "direct" \notin dead
  /\ mig' = "sent"
  /\ ack' = [ack EXCEPT !["direct"]["consumer"] = Len(got["consumer"])]
  /\ UNCHANGED <<dead, wire, finWire, gone, wrapper, phase, dir, counters, history>>

MigrateSwap ==
  /\ mig = "sent"
  /\ mig' = "done"
  /\ SwapInner("consumer", "direct")
  /\ UNCHANGED <<phase, dir>>

(* Variant: with nothing to retransmit, handleDirectStream returns before   *)
(* the swap.                                                                *)
DirectRetransmitIfAny ==
  LET from == ack["direct"]["consumer"] IN
  /\ dir = "idle" /\ from # None /\ "direct" \notin dead
  /\ ~abandoned["provider"] /\ from >= tail["provider"]
  /\ dir' = IF from = written["provider"] THEN "done" ELSE "written"
  /\ Put("direct", "provider", Bytes(from, written["provider"]))
  /\ upto' = [upto EXCEPT !["direct"]["provider"] = written["provider"]]
  /\ UNCHANGED <<dead, finWire, ack, gone, wrapper, phase, mig, counters, base, cut, torn>>

(* Variant: it retransmits the whole ring. *)
DirectRetransmitRing ==
  LET from == ack["direct"]["consumer"] IN
  /\ dir = "idle" /\ from # None /\ "direct" \notin dead
  /\ ~abandoned["provider"] /\ from >= tail["provider"]
  /\ dir' = "written"
  /\ Put("direct", "provider", Bytes(tail["provider"], written["provider"]))
  /\ upto' = [upto EXCEPT !["direct"]["provider"] = written["provider"]]
  /\ UNCHANGED <<dead, finWire, ack, gone, wrapper, phase, mig, counters, base, cut, torn>>

(* handleDirectStream finds the stream and retransmits from the announced   *)
(* position.                                                                *)
DirectRetransmit ==
  LET from == ack["direct"]["consumer"] IN
  /\ dir = "idle" /\ from # None /\ "direct" \notin dead
  /\ ~abandoned["provider"] /\ from >= tail["provider"]
  /\ dir' = "written"
  /\ Put("direct", "provider", Bytes(from, written["provider"]))
  /\ upto' = [upto EXCEPT !["direct"]["provider"] = written["provider"]]
  /\ UNCHANGED <<dead, finWire, ack, gone, wrapper, phase, mig, counters, base, cut, torn>>

(* It does not know the stream, or the ring no longer has the position:     *)
(* st.Close on the stream the consumer has swapped to.                      *)
DirectRefuse ==
  LET from == ack["direct"]["consumer"] IN
  /\ dir = "idle" /\ from # None /\ "direct" \notin dead
  /\ abandoned["provider"] \/ from < tail["provider"] \/ from > written["provider"]
  /\ dir' = "refused"
  /\ finWire' = [finWire EXCEPT !["direct"]["provider"] = TRUE]
  /\ torn' = TRUE
  /\ UNCHANGED <<dead, wire, ack, gone, wrapper, phase, mig, counters, upto, base, cut>>

DirectSwap ==
  /\ dir = "written"
  /\ dir' = "done"
  /\ SwapInner("provider", "direct")
  /\ UNCHANGED <<phase, mig>>

--------------------------------------------------------------------------------
(* Failure of a path, and Reconnect *)

(* A path fails with all it carries. *)
Die(p) ==
  /\ p \notin dead /\ p # "new" /\ Cardinality(dead) < MaxDeaths
  /\ p = "direct" => mig # "idle"
  /\ dead' = dead \cup {p}
  /\ wire' = [wire EXCEPT ![p] = [e \in Ends |-> <<>>]]
  /\ finWire' = [finWire EXCEPT ![p] = [e \in Ends |-> FALSE]]
  /\ UNCHANGED <<ack, gone, wrapper, phase, migration, counters, history>>

(* End e sees it fail.  If it is the relay, Reconnect lists every stream in *)
(* s.streams, also one whose inner is no longer on the relay.               *)
Notice(e, p) ==
  /\ p \in dead \ gone[e]
  /\ gone' = [gone EXCEPT ![e] = @ \cup {p}]
  /\ phase' = [phase EXCEPT ![e] = IF p = "relay" /\ ~abandoned[e] THEN "open" ELSE @]
  /\ UNCHANGED <<network, wrapper, migration, counters, history>>

SendResume(e) ==
  /\ phase[e] = "open"
  /\ phase' = [phase EXCEPT ![e] = "echo"]
  /\ ack' = [ack EXCEPT !["new"][e] = Len(got[e])]
  /\ UNCHANGED <<dead, wire, finWire, gone, wrapper, migration, counters, history>>

(* forgetStream, when Resume fails. *)
Drop(e) ==
  /\ phase' = [phase EXCEPT ![e] = "run"]
  /\ abandoned' = [abandoned EXCEPT ![e] = TRUE]
  /\ UNCHANGED <<dead, wire, gone, inner, left, closed, migration, counters, upto, base, torn>>

(* completeResume retransmits what the peer's STREAM_RESUME asks for.  When *)
(* the ring no longer has it Resume closes the new stream: a FIN for the    *)
(* peer that the relay has paired it with.                                  *)
ReadEcho(e) ==
  LET from == ack["new"][Peer(e)] IN
  /\ phase[e] = "echo" /\ ack["new"][e] # None /\ from # None
  /\ UNCHANGED ack
  /\ \/ /\ from >= tail[e]
        /\ phase' = [phase EXCEPT ![e] = "swap"]
        /\ Put("new", e, Bytes(from, written[e]))
        /\ upto' = [upto EXCEPT !["new"][e] = written[e]]
        /\ UNCHANGED <<dead, finWire, gone, wrapper, migration, counters, base, cut, torn>>
     \/ /\ from < tail[e] \/ from > written[e]
        /\ finWire' = [finWire EXCEPT !["new"][e] = TRUE]
        /\ cut' = [cut EXCEPT ![e] = TRUE]
        /\ Drop(e)

(* The peer, which may still be well served by the direct path or by its    *)
(* own relay connection, has not come in time.                              *)
ResumeExpired(e) ==
  /\ phase[e] = "echo" /\ ack["new"][Peer(e)] = None
  /\ ack' = [ack EXCEPT !["new"][e] = None]
  /\ Drop(e)
  /\ UNCHANGED <<finWire, cut>>

CompleteResume(e) ==
  /\ phase[e] = "swap"
  /\ phase' = [phase EXCEPT ![e] = "run"]
  /\ SwapInner(e, "new")
  /\ UNCHANGED migration

--------------------------------------------------------------------------------

StreamStep(e) ==
  \/ Write(e) \/ Read(e) \/ ReadEOF(e)
  \/ CloseWrite(e) \/ Close(e)
  \/ SendResume(e) \/ ReadEcho(e) \/ ResumeExpired(e) \/ CompleteResume(e)

Next ==
  \/ \E e \in Ends : StreamStep(e) \/ \E p \in Paths : Notice(e, p)
  \/ \E p \in Paths : Die(p)
  \/ MigrateFails \/ MigrateSend \/ MigrateSwap
  \/ DirectRetransmit \/ DirectRefuse \/ DirectSwap

(* Steps of running goroutines, and of applications that read. *)
Progress ==
  \/ MigrateSwap \/ DirectRetransmit \/ DirectRefuse \/ DirectSwap
  \/ \E e \in Ends :
       \/ Read(e) \/ ReadEOF(e)
       \/ SendResume(e) \/ ReadEcho(e) \/ CompleteResume(e)
       \/ \E p \in Paths : Notice(e, p)

(* No behaviour changes the state infinitely often, so fairness of these    *)
(* steps together is fairness of each.                                      *)
FairSpec == Init /\ [][Next]_vars /\ WF_vars(Progress)

--------------------------------------------------------------------------------
(* Properties *)

Pipe == INSTANCE BytePipe WITH out <- written, in <- got

(* A migration, a relay restart, or both at once leave the two wrappers one *)
(* reliable pipe, unless a swap relied on a position that no longer held or *)
(* the provider refused a consumer that had already swapped.  A Resume that *)
(* fails once it is paired may end it early for the peer, as in             *)
(* StreamResume.                                                            *)
MigrationKeepsPipe == Pipe!Spec

(* Every byte accepted reaches the other end, over whichever path.  Nothing *)
(* moves a stream back from a direct path that has failed.                  *)
MigratedIsDelivered ==
  \A e \in Ends : \A n \in 1 .. MaxBytes[e] :
    written[e] >= n ~> \/ Len(got[Peer(e)]) >= n \/ torn
                      \/ abandoned[e] \/ abandoned[Peer(e)] \/ "direct" \in dead

--------------------------------------------------------------------------------
(* Claims of comments that the code does not keep *)

(* AcceptDirect's comment: the bridge keeps running, transparently; and     *)
(* completeResume's, that it is shared with the direct path so that         *)
(* retransmission stays identical.  MigrateToDirect does not call it: it    *)
(* neither waits for the other end nor retransmits.                         *)
MigrationIsTransparent ==
  \A e \in Ends : /\ got[e] = Bytes(0, Len(got[e]))
                  /\ eof[e] => fin[Peer(e)] /\ Len(got[e]) = written[Peer(e)]

(* MigrateToDirect's comment: on error the original inner is left           *)
(* untouched.  A provider that refuses is not an error to the consumer.     *)
RefusedStaysOnRelay == dir = "refused" => inner["consumer"] # "direct"

(* tryPromote's comment: bridge() goes on without touching the relay.       *)
(* Reconnect still resumes a migrated stream, and drops it if the other     *)
(* agent has not lost its relay.                                            *)
MigratedOutlivesRelay ==
  [][\A e \in Ends :
       ResumeExpired(e) => ~(\A x \in Ends : inner[x] = "direct" /\ "direct" \notin dead)]_vars


================================================================================
