----------------------------- MODULE StreamResume -----------------------------
(***************************************************************************)
(* One stream between a consumer and a provider agent across relay         *)
(* restarts: the byte counters and the ring buffer that Read and Write     *)
(* keep, the checkpoints that trim the ring, and the STREAM_RESUME         *)
(* exchange by which Reconnect moves the stream to the next relay          *)
(* (pkg/session/session.go, checkpoints.go).  Relays are numbered; when    *)
(* one dies, the bytes and frames it carried are lost, and each agent      *)
(* notices on its own time.  The I/O on the inner stream and the           *)
(* accounting that follows it are separate steps, as they are in the code. *)
(* The bytes each end writes are numbered 1, 2, 3, ...                     *)
(***************************************************************************)
EXTENDS ByteRanges, Integers

CONSTANTS Cap,        \* capacity of the ring (resume.DefaultRingCapacity)
          MaxBytes,   \* bound: MaxBytes[e] bytes are written by end e
          MaxCrashes  \* bound: relay restarts

ASSUME CapAssumption == Cap \in Nat
ASSUME MaxBytesAssumption == MaxBytes \in [Ends -> Nat]
ASSUME MaxCrashesAssumption == MaxCrashes \in Nat

VARIABLES
  relay,     \* number of the relay now alive
  wire,      \* wire[k][e]: bytes from e that relay k carries to Peer(e)
  finWire,   \* finWire[k][e]: a FIN follows those bytes
  offer,     \* offer[k][e]: ack position of e's STREAM_RESUME at relay k, or None
  ckpt,      \* ckpt[e]: newest STREAM_CHECKPOINT on its way to e, 0 if none
  conn,      \* conn[e]: relay of e's session connection
  up,        \* up[e]: Run has not seen that connection fail
  inner,     \* inner[e]: relay whose stream is the wrapper's inner
  abandoned, \* abandoned[e]: ResumableStream.abandoned
  phase,     \* phase[e]: where e's Resume stands
  gap,       \* gap[e]: bytes Resume is about to retransmit
  written,   \* written[e]: bytes inner.Write accepted from e's application
  sent,      \* sent[e]: State.Sent, the bytes OnWrite counted
  tail,      \* tail[e]: Ring.Tail; the ring holds tail[e]+1 .. sent[e]
  got,       \* got[e]: bytes inner.Read returned to e
  recv,      \* recv[e]: State.Received, the bytes OnRead counted
  fin,       \* fin[e]: e has half-closed or closed the stream
  eof,       \* eof[e]: e has read EOF
  cut,       \* history: cut[e]: e's Resume failed after the relay had paired it
  raced      \* history: a Resume read a counter whose update was still due

network == <<relay, wire, finWire, offer>>
session == <<conn, up, inner, abandoned, phase, gap>>
counters == <<written, sent, tail, got, recv, fin, eof>>
vars == <<network, session, counters, ckpt, cut, raced>>

None == -1
Relays == 0 .. MaxCrashes

Larger(a, b) == IF a > b THEN a ELSE b
Smaller(a, b) == IF a < b THEN a ELSE b

Init ==
  /\ relay = 0
  /\ wire = [k \in Relays |-> [e \in Ends |-> <<>>]]
  /\ finWire = [k \in Relays |-> [e \in Ends |-> FALSE]]
  /\ offer = [k \in Relays |-> [e \in Ends |-> None]]
  /\ ckpt = [e \in Ends |-> 0]
  /\ conn = [e \in Ends |-> 0]
  /\ up = [e \in Ends |-> TRUE]
  /\ inner = [e \in Ends |-> 0]
  /\ abandoned = [e \in Ends |-> FALSE]
  /\ phase = [e \in Ends |-> "run"]
  /\ gap = [e \in Ends |-> <<>>]
  /\ written = [e \in Ends |-> 0]
  /\ sent = [e \in Ends |-> 0]
  /\ tail = [e \in Ends |-> 0]
  /\ got = [e \in Ends |-> <<>>]
  /\ recv = [e \in Ends |-> 0]
  /\ fin = [e \in Ends |-> FALSE]
  /\ eof = [e \in Ends |-> FALSE]
  /\ cut = [e \in Ends |-> FALSE]
  /\ raced = FALSE

(* The inner stream still takes and returns bytes as far as e can tell. *)
Usable(e) == up[e] /\ inner[e] = conn[e] /\ ~abandoned[e]
(* ... and what e puts on it reaches the relay. *)
Live(e) == inner[e] = relay
Writing(e) == written[e] > sent[e]
Reading(e) == Len(got[e]) > recv[e]

--------------------------------------------------------------------------------
(* Read, Write, CloseWrite and Close on the wrapper *)

(* inner.Write accepts n bytes; on a dead relay nobody will see them. *)
Write(e) ==
  /\ Usable(e) /\ ~fin[e] /\ ~Writing(e)
  /\ \E n \in written[e] + 1 .. MaxBytes[e] :
       /\ written' = [written EXCEPT ![e] = n]
       /\ wire' = [wire EXCEPT ![inner[e]][e] =
                     IF Live(e) THEN @ \o Bytes(written[e], n) ELSE @]
  /\ UNCHANGED <<relay, finWire, offer, session, sent, tail, got, recv, fin, eof, ckpt, cut, raced>>

(* State.OnWrite: count the bytes and keep them, evicting the oldest. *)
OnWrite(e) ==
  /\ Writing(e)
  /\ sent' = [sent EXCEPT ![e] = written[e]]
  /\ tail' = [tail EXCEPT ![e] = Larger(@, written[e] - Cap)]
  /\ UNCHANGED <<network, session, written, got, recv, fin, eof, ckpt, cut, raced>>

(* inner.Read returns the next n bytes of the stream. *)
Read(e) ==
  /\ Usable(e) /\ ~eof[e] /\ ~Reading(e)
  /\ \E n \in 1 .. Len(wire[inner[e]][Peer(e)]) :
       /\ got' = [got EXCEPT ![e] = @ \o SubSeq(wire[inner[e]][Peer(e)], 1, n)]
       /\ wire' = [wire EXCEPT ![inner[e]][Peer(e)] = SubSeq(@, n + 1, Len(@))]
  /\ UNCHANGED <<relay, finWire, offer, session, written, sent, tail, recv, fin, eof, ckpt, cut, raced>>

(* State.OnRead *)
OnRead(e) ==
  /\ Reading(e)
  /\ recv' = [recv EXCEPT ![e] = Len(got[e])]
  /\ UNCHANGED <<network, session, written, sent, tail, got, fin, eof, ckpt, cut, raced>>

(* Variant: EOF overtakes the bytes before it. *)
ReadEOFEarly(e) ==
  /\ Usable(e) /\ ~eof[e] /\ ~Reading(e)
  /\ finWire[inner[e]][Peer(e)]
  /\ eof' = [eof EXCEPT ![e] = TRUE]
  /\ UNCHANGED <<network, session, written, sent, tail, got, recv, fin, ckpt, cut, raced>>

ReadEOF(e) ==
  /\ Usable(e) /\ ~eof[e] /\ ~Reading(e)
  /\ wire[inner[e]][Peer(e)] = <<>> /\ finWire[inner[e]][Peer(e)]
  /\ eof' = [eof EXCEPT ![e] = TRUE]
  /\ UNCHANGED <<network, session, written, sent, tail, got, recv, fin, ckpt, cut, raced>>

(* A FIN on the current inner: CloseWrite, and Close on the write side. *)
HalfClose(e) ==
  /\ fin' = [fin EXCEPT ![e] = TRUE]
  /\ finWire' = [finWire EXCEPT ![inner[e]][e] = @ \/ (up[e] /\ inner[e] = conn[e] /\ Live(e))]
  /\ UNCHANGED <<relay, wire, offer, written, sent, tail, got, recv, eof>>

(* CloseWrite, when the local application has finished writing. *)
CloseWrite(e) ==
  /\ ~abandoned[e] /\ ~fin[e] /\ ~Writing(e)
  /\ HalfClose(e)
  /\ UNCHANGED <<session, ckpt, cut, raced>>

(* Close: the bridge ended, after both EOFs or because a copy failed; a     *)
(* stream that Reconnect dropped is closed too.                             *)
Close(e) ==
  /\ ~abandoned[e] \/ ~fin[e]
  /\ ~Writing(e) /\ ~Reading(e)
  /\ abandoned' = [abandoned EXCEPT ![e] = TRUE]
  /\ HalfClose(e)
  /\ UNCHANGED <<conn, up, inner, phase, gap, ckpt, cut, raced>>

--------------------------------------------------------------------------------
(* Reconnect and Resume *)

(* Run's AcceptStream fails and Reconnect closes the old connection. *)
LoseConn(e) ==
  /\ up[e] /\ conn[e] # relay /\ phase[e] = "run"
  /\ up' = [up EXCEPT ![e] = FALSE]
  /\ UNCHANGED <<network, conn, inner, abandoned, phase, gap, counters, ckpt, cut, raced>>

(* Reconnect dials the surviving relay and finds the stream still active. *)
Redial(e) ==
  /\ ~up[e]
  /\ up' = [up EXCEPT ![e] = TRUE]
  /\ conn' = [conn EXCEPT ![e] = relay]
  /\ phase' = [phase EXCEPT ![e] = IF abandoned[e] THEN "run" ELSE "open"]
  /\ UNCHANGED <<network, inner, abandoned, gap, counters, ckpt, cut, raced>>

(* Resume opens a stream and sends STREAM_RESUME with ResumePayload.  The   *)
(* peer only uses the ack position.                                         *)
SendResume(e) ==
  /\ phase[e] = "open"
  /\ phase' = [phase EXCEPT ![e] = "echo"]
  /\ offer' = [offer EXCEPT ![conn[e]][e] = IF conn[e] = relay THEN recv[e] ELSE @]
  /\ raced' = (raced \/ Reading(e))
  /\ UNCHANGED <<relay, wire, finWire, conn, up, inner, abandoned, gap, counters, ckpt, cut>>

(* Reconnect drops a stream whose Resume failed (forgetStream). *)
Drop(e) ==
  /\ abandoned' = [abandoned EXCEPT ![e] = TRUE]
  /\ phase' = [phase EXCEPT ![e] = "run"]
  /\ UNCHANGED <<conn, up, inner, gap>>

(* completeResume: the relay paired the two STREAM_RESUMEs and echoes the   *)
(* peer's; take the bytes it misses from the ring, unless they are gone.    *)
(* RetransmitFrom on a position the ring has not reached may fail or not.   *)
(* When it fails Resume closes the new stream: a FIN for the peer that the  *)
(* relay has paired it with.                                                *)
ReadEcho(e) ==
  LET ack == offer[conn[e]][Peer(e)] IN
  /\ phase[e] = "echo"
  /\ offer[conn[e]][e] # None /\ ack # None
  /\ \/ /\ ack >= tail[e]
        /\ gap' = [gap EXCEPT ![e] = Bytes(ack, sent[e])]
        /\ phase' = [phase EXCEPT ![e] = "write"]
        /\ UNCHANGED <<conn, up, inner, abandoned, finWire, cut>>
     \/ /\ ack < tail[e] \/ ack > sent[e]
        /\ finWire' = [finWire EXCEPT ![conn[e]][e] = (conn[e] = relay)]
        /\ cut' = [cut EXCEPT ![e] = TRUE]
        /\ Drop(e)
  /\ raced' = (raced \/ Writing(e))
  /\ UNCHANGED <<relay, wire, offer, counters, ckpt>>

(* The new connection dies under Resume: some read or write of it fails. *)
ResumeBroken(e) ==
  /\ phase[e] \in {"open", "echo", "write"} /\ conn[e] # relay
  /\ abandoned' = [abandoned EXCEPT ![e] = TRUE]
  /\ phase' = [phase EXCEPT ![e] = "run"]
  /\ gap' = [gap EXCEPT ![e] = <<>>]
  /\ UNCHANGED <<network, conn, up, inner, counters, ckpt, cut, raced>>

(* The relay's resume window closes with no STREAM_RESUME from the peer. *)
ResumeExpired(e) ==
  /\ phase[e] = "echo" /\ conn[e] = relay /\ offer[relay][Peer(e)] = None
  /\ offer' = [offer EXCEPT ![relay][e] = None]
  /\ Drop(e)
  /\ UNCHANGED <<relay, wire, finWire, counters, ckpt, cut, raced>>

(* Variant: a Resume that waits until there is something to retransmit. *)
WriteGapIfAny(e) ==
  /\ phase[e] = "write"
  /\ gap[e] # <<>>
  /\ wire' = [wire EXCEPT ![conn[e]][e] = IF conn[e] = relay THEN @ \o gap[e] ELSE @]
  /\ gap' = [gap EXCEPT ![e] = <<>>]
  /\ phase' = [phase EXCEPT ![e] = "swap"]
  /\ UNCHANGED <<relay, finWire, offer, conn, up, inner, abandoned, counters, ckpt, cut, raced>>

WriteGap(e) ==
  /\ phase[e] = "write"
  /\ wire' = [wire EXCEPT ![conn[e]][e] = IF conn[e] = relay THEN @ \o gap[e] ELSE @]
  /\ gap' = [gap EXCEPT ![e] = <<>>]
  /\ phase' = [phase EXCEPT ![e] = "swap"]
  /\ UNCHANGED <<relay, finWire, offer, conn, up, inner, abandoned, counters, ckpt, cut, raced>>

SwapInner(e) ==
  /\ phase[e] = "swap"
  /\ inner' = [inner EXCEPT ![e] = conn[e]]
  /\ phase' = [phase EXCEPT ![e] = "run"]
  /\ UNCHANGED <<network, conn, up, abandoned, gap, counters, ckpt, cut, raced>>

--------------------------------------------------------------------------------
(* Checkpoints, and the relay *)

(* emitOnce reports recv; a frame not yet applied is overtaken by the next. *)
EmitCheckpoint(e) ==
  /\ up[e] /\ conn[e] = relay /\ ~abandoned[e] /\ recv[e] > 0
  /\ ckpt' = [ckpt EXCEPT ![Peer(e)] = recv[e]]
  /\ UNCHANGED <<network, session, counters, cut, raced>>

(* Variant: a checkpoint empties the ring. *)
ApplyCheckpointAll(e) ==
  /\ ckpt[e] > 0
  /\ ckpt' = [ckpt EXCEPT ![e] = 0]
  /\ tail' = IF abandoned[e] THEN tail ELSE [tail EXCEPT ![e] = sent[e]]
  /\ UNCHANGED <<network, session, written, sent, got, recv, fin, eof, cut, raced>>

(* applyCheckpoint: State.OnCheckpointFromPeer discards what the peer has. *)
ApplyCheckpoint(e) ==
  /\ ckpt[e] > 0
  /\ ckpt' = [ckpt EXCEPT ![e] = 0]
  /\ tail' = IF abandoned[e] THEN tail
             ELSE [tail EXCEPT ![e] = Larger(@, Smaller(ckpt[e], sent[e]))]
  /\ UNCHANGED <<network, session, written, sent, got, recv, fin, eof, cut, raced>>

(* The relay dies; of what it carried, a part has already reached each end. *)
Crash ==
  /\ relay < MaxCrashes
  /\ relay' = relay + 1
  /\ \E kept \in [Ends -> 0 .. Len(wire[relay]["consumer"]) + Len(wire[relay]["provider"])] :
       \E finKept \in [Ends -> BOOLEAN] :
         /\ \A e \in Ends : /\ kept[e] <= Len(wire[relay][e])
                            /\ finKept[e] => finWire[relay][e] /\ kept[e] = Len(wire[relay][e])
         /\ wire' = [wire EXCEPT ![relay] = [e \in Ends |-> SubSeq(wire[relay][e], 1, kept[e])]]
         /\ finWire' = [finWire EXCEPT ![relay] = finKept]
  /\ UNCHANGED <<offer, session, counters, ckpt, cut, raced>>

EndStep(e) ==
  \/ Write(e) \/ OnWrite(e) \/ Read(e) \/ OnRead(e) \/ ReadEOF(e) \/ CloseWrite(e) \/ Close(e)
  \/ LoseConn(e) \/ Redial(e) \/ SendResume(e) \/ ReadEcho(e) \/ ResumeBroken(e)
  \/ ResumeExpired(e) \/ WriteGap(e) \/ SwapInner(e)
  \/ EmitCheckpoint(e) \/ ApplyCheckpoint(e)

Next == Crash \/ \E e \in Ends : EndStep(e)

(* Goroutines run, QUIC notices a dead connection, Reconnect's retries find *)
(* the relay, and the application keeps reading.  Nothing makes it write,   *)
(* close, or emit checkpoints.  A behaviour has finitely many of the fair   *)
(* steps, so fairness of the steps together is fairness of each.            *)
Fairness ==
  WF_vars(\E e \in Ends :
            \/ OnWrite(e) \/ OnRead(e) \/ Read(e) \/ ReadEOF(e)
            \/ LoseConn(e) \/ Redial(e) \/ SendResume(e) \/ ReadEcho(e)
            \/ ResumeBroken(e) \/ WriteGap(e) \/ SwapInner(e))

Spec == Init /\ [][Next]_vars
FairSpec == Spec /\ Fairness

--------------------------------------------------------------------------------
(* Properties *)

NetworkType ==
  /\ relay \in Relays
  /\ wire \in [Relays -> [Ends -> Seq(Nat)]]
  /\ finWire \in [Relays -> [Ends -> BOOLEAN]]
  /\ offer \in [Relays -> [Ends -> Nat \cup {None}]]
  /\ ckpt \in [Ends -> Nat]

SessionType ==
  /\ conn \in [Ends -> Relays]
  /\ up \in [Ends -> BOOLEAN]
  /\ inner \in [Ends -> Relays]
  /\ abandoned \in [Ends -> BOOLEAN]
  /\ phase \in [Ends -> {"run", "open", "echo", "write", "swap"}]
  /\ gap \in [Ends -> Seq(Nat)]

CounterType ==
  /\ written \in [Ends -> Nat]
  /\ sent \in [Ends -> Nat]
  /\ tail \in [Ends -> Nat]
  /\ got \in [Ends -> Seq(Nat)]
  /\ recv \in [Ends -> Nat]
  /\ fin \in [Ends -> BOOLEAN]
  /\ eof \in [Ends -> BOOLEAN]
  /\ cut \in [Ends -> BOOLEAN]
  /\ raced \in BOOLEAN

(* Counters and positions are naturals, wires and gaps are byte sequences. *)
TypeOK == NetworkType /\ SessionType /\ CounterType

Pipe == INSTANCE BytePipe WITH out <- written, in <- got, torn <- raced

(* As long as no Resume read a counter between an inner Read or Write and   *)
(* its OnRead or OnWrite, the two wrappers and all the relays between them  *)
(* are one reliable pipe: every byte once, in order, and EOF only after the *)
(* last one, over any number of relay restarts, retransmissions and         *)
(* checkpoints.  The exception is a stream that Resume gives up because its *)
(* ring has lost the peer's position: the peer may then read EOF after any  *)
(* prefix.                                                                  *)
ImplementsPipe == Pipe!Spec

(* What an application has read is a prefix of what the other one wrote. *)
InOrderUnlessRaced ==
  ~raced => \A e \in Ends :
              got[e] = Bytes(0, Len(got[e])) /\ Len(got[e]) <= written[Peer(e)]

(* Eviction and the discard by a checkpoint spare every byte the peer may   *)
(* still ask for, as long as no more than Cap bytes are unread: only then   *)
(* can a Resume fail with ErrBeforeRing.                                    *)
RingKeepsUnread ==
  \A e \in Ends : tail[e] <= Larger(recv[Peer(e)], sent[e] - Cap)

(* Every byte accepted from one application reaches the other, unless one   *)
(* end gave the stream up.                                                  *)
AcceptedIsDelivered ==
  \A e \in Ends : \A n \in 1 .. MaxBytes[e] :
    written[e] >= n ~> \/ Len(got[Peer(e)]) >= n \/ raced
                      \/ abandoned[e] \/ abandoned[Peer(e)]

(* The comment on Session.Dial: byte-position accounting keeps              *)
(* retransmission on relay failover consistent with the peer's view of how  *)
(* many bytes flowed each way.  Violated: Resume can read Received between  *)
(* inner.Read and OnRead, or the ring between inner.Write and OnWrite.      *)
InOrder ==
  \A e \in Ends :
    got[e] = Bytes(0, Len(got[e])) /\ Len(got[e]) <= written[Peer(e)]

(* The comment on CloseWrite: the peer learns no more data is coming.       *)
(* Violated: the FIN dies with the relay, and the new inner never gets one. *)
HalfCloseReachesPeer ==
  \A e \in Ends : fin[e] ~> eof[Peer(e)] \/ abandoned[e] \/ abandoned[Peer(e)]

===============================================================================
