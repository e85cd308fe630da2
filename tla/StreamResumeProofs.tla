--------------------------- MODULE StreamResumeProofs ---------------------------
(***************************************************************************)
(* Proofs about StreamResume, for any ring capacity, any number of bytes   *)
(* and any number of relay restarts.                                       *)
(***************************************************************************)
EXTENDS StreamResume, ByteRangeProofs

--------------------------------------------------------------------------------
(* The inductive invariant.  In each conjunct e is one end, Peer(e) the other. *)

CountInv(e) == recv[e] <= Len(got[e]) /\ sent[e] <= written[e]

(* A wrapper's inner lags its session's connection, which lags the relay;   *)
(* only a Resume in progress, or a dropped stream, is behind.               *)
ConnInv(e) ==
  /\ inner[e] <= conn[e] /\ conn[e] <= relay
  /\ phase[e] # "run" => up[e] /\ inner[e] < conn[e]
  /\ ~up[e] => phase[e] = "run" /\ conn[e] < relay

OfferInv(e) ==
  /\ \A k \in Relays : offer[k][e] # None => k <= conn[e]
  /\ phase[e] = "open" => offer[conn[e]][e] = None

(* End e has put something on relay k's stream, or is entitled to. *)
Joined(e, k) ==
  \/ wire[k][e] # <<>>
  \/ finWire[k][e]
  \/ inner[e] = k
  \/ conn[e] = k /\ phase[e] \in {"write", "swap"}

(* After the first relay nothing flows before both STREAM_RESUMEs arrived. *)
PairInv(e) ==
  \A k \in Relays :
    k > 0 /\ Joined(e, k) => offer[k][e] # None /\ offer[k][Peer(e)] # None

(* Only a stream that has been given up is cut short. *)
CutInv(e) == cut[e] => abandoned[e]

(* The n bytes of end e that its peer has or gets are all it will get. *)
Ended(e, n) == cut[e] \/ (fin[e] /\ n = written[e])

(* What e has read is a prefix of its peer's bytes, and the stream it reads *)
(* from now on continues that prefix.                                       *)
DataInv(e) ==
  LET w == wire[conn[e]][Peer(e)] IN
  /\ got[e] = Bytes(0, Len(got[e]))
  /\ w = Bytes(Len(got[e]), Len(got[e]) + Len(w))
  /\ Len(got[e]) + Len(w) <= written[Peer(e)]
  /\ finWire[conn[e]][Peer(e)] => Ended(Peer(e), Len(got[e]) + Len(w))

(* e has put its retransmission on the live relay's stream. *)
Flowing(e) == inner[e] = relay \/ (conn[e] = relay /\ phase[e] = "swap")

(* A flowing end's bytes are all read or in flight; before that its wire is *)
(* empty and the peer's ack position is exact.                              *)
FlowInv(e) ==
  /\ Flowing(e) => Len(got[Peer(e)]) + Len(wire[relay][e]) = written[e]
  /\ ~Flowing(e) => /\ wire[relay][e] = <<>>
                    /\ offer[relay][Peer(e)] # None =>
                         offer[relay][Peer(e)] = Len(got[Peer(e)])

GapInv(e) ==
  /\ phase[e] \in {"write", "swap"} => sent[e] = written[e]
  /\ phase[e] = "write" => gap[e] = Bytes(offer[conn[e]][Peer(e)], sent[e])

ControlInv == \A e \in Ends : CountInv(e) /\ ConnInv(e) /\ OfferInv(e) /\ PairInv(e)
                               /\ CutInv(e)
StreamInv == ~raced => \A e \in Ends : DataInv(e) /\ FlowInv(e) /\ GapInv(e)

(* The ring's own invariant, independent of the others. *)
RingInv ==
  /\ RingKeepsUnread
  /\ \A e \in Ends : ckpt[e] <= recv[Peer(e)]

--------------------------------------------------------------------------------
(* Types *)

LEMMA InitType == Init => TypeOK
<1> SUFFICES ASSUME Init PROVE TypeOK
  BY Zenon
<1>1. 0 \in Relays /\ 0 \in Nat /\ <<>> \in Seq(Nat)
  BY MaxCrashesAssumption, EmptySeq DEF Relays
<1>2. NetworkType
  BY <1>1, Zenon DEF Init, NetworkType
<1>3. SessionType
  BY <1>1, Zenon DEF Init, SessionType
<1>4. CounterType
  BY <1>1, Zenon DEF Init, CounterType
<1>5. QED
  BY <1>2, <1>3, <1>4, Zenon DEF TypeOK

LEMMA EndStepType ==
  ASSUME TypeOK, NEW e \in Ends, EndStep(e)
  PROVE  TypeOK'
<1>0. <<>> \in Seq(Nat)
  BY EmptySeq, Zenon
<1>1. CASE Write(e)
  <2>1. PICK n \in written[e] + 1 .. MaxBytes[e] :
          /\ written' = [written EXCEPT ![e] = n]
          /\ wire' = [wire EXCEPT ![inner[e]][e] =
                        IF Live(e) THEN @ \o Bytes(written[e], n) ELSE @]
    BY <1>1, Zenon DEF Write
  <2>2. n \in Nat /\ written[e] \in Nat
    BY MaxBytesAssumption DEF TypeOK, CounterType
  <2>3. wire[inner[e]][e] \in Seq(Nat) /\ Bytes(written[e], n) \in Seq(Nat)
    BY <2>2, BytesType, Zenon DEF TypeOK, NetworkType, SessionType
  <2>4. wire[inner[e]][e] \o Bytes(written[e], n) \in Seq(Nat)
    BY <2>3, ConcatProperties, Zenon
  <2>5. NetworkType'
    BY <1>1, <2>1, <2>3, <2>4, Zenon DEF Write, TypeOK, NetworkType
  <2>6. SessionType' /\ CounterType'
    BY <1>1, <2>1, <2>2, Zenon DEF Write, TypeOK, SessionType, CounterType, session
  <2>7. QED
    BY <2>5, <2>6, Zenon DEF TypeOK
<1>2. CASE Read(e)
  <2> DEFINE w == wire[inner[e]][Peer(e)]
  <2>1. PICK n \in 1 .. Len(w) :
          /\ got' = [got EXCEPT ![e] = @ \o SubSeq(w, 1, n)]
          /\ wire' = [wire EXCEPT ![inner[e]][Peer(e)] = SubSeq(@, n + 1, Len(@))]
    BY <1>2, Zenon DEF Read
  <2>2. w \in Seq(Nat) /\ got[e] \in Seq(Nat)
    BY PeerFacts DEF TypeOK, NetworkType, SessionType, CounterType
  <2>3. SubSeq(w, 1, n) \in Seq(Nat) /\ SubSeq(w, n + 1, Len(w)) \in Seq(Nat)
    <3> HIDE DEF w
    <3>1. Len(w) \in Nat /\ \A i \in 1 .. Len(w) : w[i] \in Nat
      BY <2>2, LenProperties, Zenon
    <3>2. n \in Int /\ (\A i \in 1 .. n : w[i] \in Nat) /\ \A i \in n + 1 .. Len(w) : w[i] \in Nat
      BY <3>1
    <3>3. SubSeq(w, 1, n) \in Seq(Nat)
      BY <3>2, SubSeqProperties
    <3>4. SubSeq(w, n + 1, Len(w)) \in Seq(Nat)
      BY <3>1, <3>2, SubSeqProperties
    <3>5. QED
      BY <3>3, <3>4, Zenon
  <2>4. got[e] \o SubSeq(w, 1, n) \in Seq(Nat)
    BY <2>2, <2>3, ConcatProperties, Zenon
  <2>5. NetworkType'
    BY <1>2, <2>1, <2>3, Zenon DEF Read, TypeOK, NetworkType
  <2>6. SessionType' /\ CounterType'
    BY <1>2, <2>1, <2>4, Zenon DEF Read, TypeOK, SessionType, CounterType, session
  <2>7. QED
    BY <2>5, <2>6, Zenon DEF TypeOK
<1>3. CASE OnWrite(e)
  <2>1. Larger(tail[e], written[e] - Cap) \in Nat
    BY CapAssumption DEF TypeOK, CounterType, Larger
  <2>2. QED
    BY <1>3, <2>1, Zenon DEF OnWrite, TypeOK, NetworkType, SessionType, CounterType, network, session
<1>4. CASE OnRead(e)
  <2>1. Len(got[e]) \in Nat
    BY LenProperties, Zenon DEF TypeOK, CounterType
  <2>2. QED
    BY <1>4, <2>1, Zenon DEF OnRead, TypeOK, NetworkType, SessionType, CounterType, network, session
<1>5. CASE ReadEOF(e)
  BY <1>5, <1>0, PeerFacts, Zenon DEF ReadEOF, TypeOK, NetworkType, SessionType, CounterType,
     network, session, counters
<1>6. CASE CloseWrite(e)
  BY <1>6, <1>0, PeerFacts, Zenon DEF CloseWrite, HalfClose, TypeOK, NetworkType, SessionType, CounterType,
     network, session, counters
<1>7. CASE Close(e)
  BY <1>7, <1>0, PeerFacts, Zenon DEF Close, HalfClose, TypeOK, NetworkType, SessionType, CounterType,
     network, session, counters
<1>8. CASE LoseConn(e)
  BY <1>8, <1>0, PeerFacts, Zenon DEF LoseConn, TypeOK, NetworkType, SessionType, CounterType,
     network, session, counters
<1>9. CASE Redial(e)
  BY <1>9, <1>0, PeerFacts, Zenon DEF Redial, TypeOK, NetworkType, SessionType, CounterType,
     network, session, counters
<1>10. CASE SendResume(e)
  <2>1. NetworkType' /\ SessionType'
    BY <1>10 DEF SendResume, TypeOK, NetworkType, SessionType, CounterType
  <2>2. CounterType'
    BY <1>10, Zenon DEF SendResume, TypeOK, CounterType, Reading, counters
  <2>3. QED
    BY <2>1, <2>2, Zenon DEF TypeOK
<1>11. CASE ReadEcho(e)
  <2>1. offer[conn[e]][Peer(e)] \in Nat \cup {None} /\ sent[e] \in Nat
    BY PeerFacts DEF TypeOK, NetworkType, SessionType, CounterType
  <2>2. offer[conn[e]][Peer(e)] # None => Bytes(offer[conn[e]][Peer(e)], sent[e]) \in Seq(Nat)
    BY <2>1, BytesType, Zenon
  <2>3. NetworkType' /\ CounterType'
    <3>0. finWire \in [Relays -> [Ends -> BOOLEAN]] /\ cut \in [Ends -> BOOLEAN] /\ conn[e] \in Relays
      BY Zenon DEF TypeOK, NetworkType, SessionType, CounterType
    <3>1. finWire' \in [Relays -> [Ends -> BOOLEAN]] /\ cut' \in [Ends -> BOOLEAN]
      <4>1. CASE UNCHANGED <<finWire, cut>>
        BY <3>0, <4>1, Zenon
      <4>2. CASE /\ finWire' = [finWire EXCEPT ![conn[e]][e] = (conn[e] = relay)]
                 /\ cut' = [cut EXCEPT ![e] = TRUE]
        <5>1. (conn[e] = relay) \in BOOLEAN
          OBVIOUS
        <5>2. QED
          BY <3>0, <4>2, <5>1, Zenon
      <4>3. QED
        BY <1>11, <4>1, <4>2, Zenon DEF ReadEcho
    <3>2. QED
      BY <1>11, <3>1, Zenon DEF ReadEcho, TypeOK, NetworkType, CounterType, Writing, counters
  <2>4. SessionType'
    BY <1>11, <2>2, Zenon DEF ReadEcho, Drop, TypeOK, SessionType
  <2>5. QED
    BY <2>3, <2>4, Zenon DEF TypeOK
<1>12. CASE ResumeBroken(e)
  BY <1>12, <1>0, PeerFacts, Zenon DEF ResumeBroken, TypeOK, NetworkType, SessionType, CounterType,
     network, session, counters
<1>13. CASE ResumeExpired(e)
  BY <1>13, <1>0, PeerFacts, Zenon DEF ResumeExpired, Drop, TypeOK, NetworkType, SessionType, CounterType,
     network, session, counters
<1>14. CASE WriteGap(e)
  <2>1. wire[conn[e]][e] \in Seq(Nat) /\ gap[e] \in Seq(Nat)
    BY Zenon DEF TypeOK, NetworkType, SessionType
  <2>2. wire[conn[e]][e] \o gap[e] \in Seq(Nat)
    BY <2>1, ConcatProperties, Zenon
  <2>3. NetworkType'
    BY <1>14, <2>1, <2>2, Zenon DEF WriteGap, TypeOK, NetworkType
  <2>4. SessionType' /\ CounterType'
    BY <1>14, <1>0, Zenon DEF WriteGap, TypeOK, SessionType, CounterType, counters
  <2>5. QED
    BY <2>3, <2>4, Zenon DEF TypeOK
<1>15. CASE SwapInner(e)
  BY <1>15, <1>0, PeerFacts, Zenon DEF SwapInner, TypeOK, NetworkType, SessionType, CounterType,
     network, session, counters
<1>16. CASE EmitCheckpoint(e)
  BY <1>16, <1>0, PeerFacts, Zenon DEF EmitCheckpoint, TypeOK, NetworkType, SessionType, CounterType,
     network, session, counters
<1>17. CASE ApplyCheckpoint(e)
  BY <1>17, <1>0, PeerFacts, Zenon DEF ApplyCheckpoint, Larger, Smaller, TypeOK, NetworkType, SessionType, CounterType,
     network, session, counters
<1>18. QED
  BY <1>1, <1>2, <1>3, <1>4, <1>5, <1>6, <1>7, <1>8, <1>9, <1>10, <1>11, <1>12, <1>13, <1>14, <1>15, <1>16, <1>17, Zenon DEF EndStep

(* What a dying relay leaves on its wires: a prefix of each. *)
LEMMA CrashFacts ==
  ASSUME TypeOK, Crash
  PROVE  \E kept \in [Ends -> Nat], finKept \in [Ends -> BOOLEAN] :
           /\ \A e \in Ends : /\ kept[e] <= Len(wire[relay][e])
                              /\ finKept[e] => /\ finWire[relay][e]
                                               /\ kept[e] = Len(wire[relay][e])
           /\ wire' = [wire EXCEPT ![relay] = [e \in Ends |-> SubSeq(wire[relay][e], 1, kept[e])]]
           /\ finWire' = [finWire EXCEPT ![relay] = finKept]
<1> DEFINE lim == Len(wire[relay]["consumer"]) + Len(wire[relay]["provider"])
<1>1. lim \in Nat
  <2>1. wire[relay]["consumer"] \in Seq(Nat) /\ wire[relay]["provider"] \in Seq(Nat)
    BY Zenon DEF TypeOK, NetworkType, Ends
  <2>2. Len(wire[relay]["consumer"]) \in Nat /\ Len(wire[relay]["provider"]) \in Nat
    BY <2>1, LenProperties, Zenon
  <2>3. \A a, b \in Nat : a + b \in Nat
    OBVIOUS
  <2>4. QED
    BY <2>2, <2>3, Zenon
<1>2. Crash!3
  BY Zenon DEF Crash
<1> HIDE DEF lim
<1>3. [Ends -> 0 .. lim] \subseteq [Ends -> Nat]
  BY <1>1
<1>4. QED
  BY <1>2, <1>3, Zenon DEF lim

LEMMA CrashType ==
  ASSUME TypeOK, Crash
  PROVE  TypeOK'
<1>1. PICK kept \in [Ends -> Nat], finKept \in [Ends -> BOOLEAN] :
        /\ \A e \in Ends : kept[e] <= Len(wire[relay][e])
        /\ wire' = [wire EXCEPT ![relay] = [e \in Ends |-> SubSeq(wire[relay][e], 1, kept[e])]]
        /\ finWire' = [finWire EXCEPT ![relay] = finKept]
  BY CrashFacts, Zenon
<1>2. relay + 1 \in Relays
  BY MaxCrashesAssumption DEF Crash, TypeOK, NetworkType, Relays
<1>3. ASSUME NEW e \in Ends
      PROVE  SubSeq(wire[relay][e], 1, kept[e]) \in Seq(Nat)
  <2> DEFINE w == wire[relay][e]
             m == kept[e]
  <2>1. w \in Seq(Nat) /\ m \in Int /\ m <= Len(w)
    BY <1>1 DEF TypeOK, NetworkType
  <2> HIDE DEF w, m
  <2>2. \A i \in 1 .. m : w[i] \in Nat
    BY <2>1, LenProperties
  <2>3. SubSeq(w, 1, m) \in Seq(Nat)
    BY <2>1, <2>2, SubSeqProperties
  <2>4. QED
    BY <2>3, Zenon DEF w, m
<1>4. [e \in Ends |-> SubSeq(wire[relay][e], 1, kept[e])] \in [Ends -> Seq(Nat)]
  BY <1>3, Zenon
<1>5. NetworkType'
  BY <1>1, <1>2, <1>4, Zenon DEF Crash, TypeOK, NetworkType
<1>6. SessionType' /\ CounterType'
  BY Zenon DEF Crash, TypeOK, SessionType, CounterType, session, counters
<1>7. QED
  BY <1>5, <1>6, Zenon DEF TypeOK

(* Every counter, wire and phase keeps its type. *)
THEOREM TypeCorrect == Spec => []TypeOK
<1>1. TypeOK /\ [Next]_vars => TypeOK'
  <2>1. ASSUME TypeOK, UNCHANGED vars PROVE TypeOK'
    BY <2>1, Zenon DEF TypeOK, NetworkType, SessionType, CounterType, vars, network, session, counters
  <2>2. QED
    BY <2>1, EndStepType, CrashType, Zenon DEF Next
<1>2. QED
  BY <1>1, InitType, PTL DEF Spec

--------------------------------------------------------------------------------
(* The ring *)

(* Only the accounting calls and the checkpoint frames touch the ring. *)
LEMMA RingFrame ==
  ASSUME NEW e \in Ends, EndStep(e),
         ~OnWrite(e), ~OnRead(e), ~EmitCheckpoint(e), ~ApplyCheckpoint(e)
  PROVE  UNCHANGED <<tail, sent, recv, ckpt>>
BY Zenon DEF EndStep, Write, Read, ReadEOF, CloseWrite, Close, HalfClose, LoseConn, Redial, SendResume,
   ReadEcho, ResumeBroken, ResumeExpired, WriteGap, SwapInner, counters

LEMMA RingStep ==
  ASSUME TypeOK, RingInv, [Next]_vars
  PROVE  RingInv'
<1>0. /\ tail \in [Ends -> Nat] /\ sent \in [Ends -> Nat] /\ written \in [Ends -> Nat]
      /\ recv \in [Ends -> Nat] /\ ckpt \in [Ends -> Nat] /\ Cap \in Nat
  BY CapAssumption, Zenon DEF TypeOK, NetworkType, CounterType
<1>1. ASSUME UNCHANGED <<tail, sent, recv, ckpt>> PROVE RingInv'
  BY <1>1, Zenon DEF RingInv, RingKeepsUnread
<1>2. ASSUME NEW e \in Ends, OnWrite(e) PROVE RingInv'
  <2>1. /\ sent[e] < written[e] /\ UNCHANGED <<recv, ckpt>>
        /\ sent' = [sent EXCEPT ![e] = written[e]]
        /\ tail' = [tail EXCEPT ![e] = Larger(@, written[e] - Cap)]
    BY <1>2, <1>0, Zenon DEF OnWrite, Writing
  <2>2. ASSUME NEW x \in Ends PROVE tail'[x] <= Larger(recv[Peer(x)], sent'[x] - Cap)
    BY <1>0, <2>1, PeerFacts DEF RingInv, RingKeepsUnread, Larger
  <2>3. QED
    BY <2>1, <2>2, Zenon DEF RingInv, RingKeepsUnread
<1>3. ASSUME NEW e \in Ends, OnRead(e) PROVE RingInv'
  <2> DEFINE n == Len(got[e])
  <2>1. /\ recv' = [recv EXCEPT ![e] = n] /\ n > recv[e]
        /\ UNCHANGED <<tail, sent, ckpt>>
    BY <1>3, Zenon DEF OnRead, Reading
  <2>2. n \in Nat
    BY LenProperties, Zenon DEF TypeOK, CounterType
  <2> HIDE DEF n
  <2>3. \A x \in Ends : recv'[x] \in Nat /\ recv[x] <= recv'[x]
    BY <1>0, <2>1, <2>2
  <2>4. ASSUME NEW x \in Ends
        PROVE  tail[x] <= Larger(recv'[Peer(x)], sent[x] - Cap) /\ ckpt[x] <= recv'[Peer(x)]
    <3>1. tail[x] <= Larger(recv[Peer(x)], sent[x] - Cap) /\ ckpt[x] <= recv[Peer(x)]
      BY Zenon DEF RingInv, RingKeepsUnread
    <3>2. /\ recv[Peer(x)] \in Nat /\ recv'[Peer(x)] \in Nat /\ recv[Peer(x)] <= recv'[Peer(x)]
          /\ tail[x] \in Nat /\ sent[x] \in Nat /\ ckpt[x] \in Nat
      BY <1>0, <2>3, PeerFacts, Zenon
    <3>3. QED
      BY <1>0, <3>1, <3>2 DEF Larger
  <2>5. QED
    BY <2>1, <2>4, Zenon DEF RingInv, RingKeepsUnread
<1>4. ASSUME NEW e \in Ends, EmitCheckpoint(e) PROVE RingInv'
  <2>1. ckpt' = [ckpt EXCEPT ![Peer(e)] = recv[e]] /\ UNCHANGED <<tail, sent, recv>>
    BY <1>4, Zenon DEF EmitCheckpoint, counters
  <2>2. \A x \in Ends : ckpt'[x] <= recv[Peer(x)]
    BY <1>0, <2>1, PeerFacts DEF RingInv
  <2>3. QED
    BY <2>1, <2>2, Zenon DEF RingInv, RingKeepsUnread
<1>5. ASSUME NEW e \in Ends, ApplyCheckpoint(e) PROVE RingInv'
  <2>1. /\ ckpt' = [ckpt EXCEPT ![e] = 0] /\ UNCHANGED <<sent, recv>>
        /\ tail' = IF abandoned[e] THEN tail
                   ELSE [tail EXCEPT ![e] = Larger(@, Smaller(ckpt[e], sent[e]))]
    BY <1>5, Zenon DEF ApplyCheckpoint
  <2>2. ASSUME NEW x \in Ends
        PROVE  tail'[x] <= Larger(recv[Peer(x)], sent[x] - Cap) /\ ckpt'[x] <= recv[Peer(x)]
    <3>1. tail[x] <= Larger(recv[Peer(x)], sent[x] - Cap) /\ ckpt[x] <= recv[Peer(x)]
      BY DEF RingInv, RingKeepsUnread
    <3>2. /\ recv[Peer(x)] \in Nat /\ tail[x] \in Nat /\ sent[x] \in Nat /\ ckpt[x] \in Nat
      BY <1>0, PeerFacts, Zenon
    <3>3. QED
      BY <1>0, <2>1, <3>1, <3>2 DEF Larger, Smaller
  <2>3. QED
    BY <2>1, <2>2, Zenon DEF RingInv, RingKeepsUnread
<1>6. QED
  <2>1. CASE UNCHANGED vars
    BY <2>1, <1>1, Zenon DEF vars, counters
  <2>2. CASE Crash
    BY <2>2, <1>1, Zenon DEF Crash, counters
  <2>3. ASSUME NEW e \in Ends, EndStep(e) PROVE RingInv'
    BY <2>3, <1>1, <1>2, <1>3, <1>4, <1>5, RingFrame, Zenon
  <2>4. QED
    BY <2>1, <2>2, <2>3, Zenon DEF Next

(* Neither eviction nor a checkpoint drops a byte the peer may still ask     *)
(* for while at most Cap bytes are unread.                                   *)
THEOREM RingSafe == Spec => []RingKeepsUnread
<1>1. Init => RingInv
  <2> SUFFICES ASSUME Init PROVE RingInv
    OBVIOUS
  <2>1. \A e \in Ends : tail[e] = 0 /\ sent[e] = 0 /\ recv[Peer(e)] = 0 /\ ckpt[e] = 0
    BY PeerFacts, Zenon DEF Init
  <2>2. QED
    BY <2>1, CapAssumption DEF RingInv, RingKeepsUnread, Larger
<1>2. RingInv => RingKeepsUnread
  BY Zenon DEF RingInv
<1>3. QED
  BY <1>1, <1>2, RingStep, TypeCorrect, PTL DEF Spec

--------------------------------------------------------------------------------
(* Connections, offers and who may put bytes on which relay *)

LEMMA ReadFacts ==
  ASSUME TypeOK, NEW e \in Ends, NEW w, w = wire[inner[e]][Peer(e)],
         NEW n \in 1 .. Len(w)
  PROVE  /\ w \in Seq(Nat) /\ w # <<>> /\ Len(w) \in Nat
         /\ got[e] \in Seq(Nat) /\ Len(got[e]) \in Nat
         /\ SubSeq(w, 1, n) \in Seq(Nat) /\ Len(SubSeq(w, 1, n)) = n
         /\ Len(SubSeq(w, n + 1, Len(w))) = Len(w) - n
         /\ Len(got[e] \o SubSeq(w, 1, n)) = Len(got[e]) + n
<1>1. w \in Seq(Nat) /\ got[e] \in Seq(Nat)
  BY PeerFacts DEF TypeOK, NetworkType, SessionType, CounterType
<1>2. Len(w) \in Nat /\ w # <<>> /\ \A i \in 1 .. Len(w) : w[i] \in Nat
  <2>1. Len(w) \in Nat
    BY <1>1, LenProperties, Zenon
  <2>2. Len(w) # 0
    BY <2>1
  <2>3. w # <<>>
    BY <2>2, EmptySeq, Zenon
  <2>4. \A i \in 1 .. Len(w) : w[i] \in Nat
    BY <1>1, ElementOfSeq, Zenon
  <2>5. QED
    BY <2>1, <2>3, <2>4, Zenon
<1>3. Len(got[e]) \in Nat
  BY <1>1, LenProperties, Zenon
<1>4. SubSeq(w, 1, n) \in Seq(Nat) /\ Len(SubSeq(w, 1, n)) = n
  <2>1. \A i \in 1 .. n : w[i] \in Nat
    BY <1>2
  <2>2. QED
    BY <1>2, <2>1, SubSeqProperties
<1>5. Len(SubSeq(w, n + 1, Len(w))) = Len(w) - n
  <2>1. \A i \in n + 1 .. Len(w) : w[i] \in Nat
    BY <1>2
  <2>2. QED
    BY <1>2, <2>1, SubSeqProperties
<1>6. Len(got[e] \o SubSeq(w, 1, n)) = Len(got[e]) + Len(SubSeq(w, 1, n))
  BY <1>1, <1>4, ConcatProperties, Zenon
<1>7. QED
  BY <1>1, <1>2, <1>3, <1>4, <1>5, <1>6, Zenon

LEMMA CountStep ==
  ASSUME TypeOK, \A x \in Ends : CountInv(x), [Next]_vars
  PROVE  \A x \in Ends : CountInv(x)'
<1>0. /\ recv \in [Ends -> Nat] /\ sent \in [Ends -> Nat] /\ written \in [Ends -> Nat]
      /\ got \in [Ends -> Seq(Nat)]
  BY Zenon DEF TypeOK, CounterType
<1>1. ASSUME UNCHANGED <<recv, got, sent, written>> PROVE \A x \in Ends : CountInv(x)'
  BY <1>1, Zenon DEF CountInv
<1>2. ASSUME NEW e \in Ends, Write(e) PROVE \A x \in Ends : CountInv(x)'
  <2>1. PICK n \in written[e] + 1 .. MaxBytes[e] : written' = [written EXCEPT ![e] = n]
    BY <1>2, Zenon DEF Write
  <2>2. \A x \in Ends : written'[x] \in Nat /\ written[x] <= written'[x]
    BY <2>1, <1>0, MaxBytesAssumption
  <2>3. QED
    BY <1>0, <1>2, <2>2 DEF Write, CountInv
<1>3. ASSUME NEW e \in Ends, OnWrite(e) PROVE \A x \in Ends : CountInv(x)'
  BY <1>0, <1>3 DEF OnWrite, CountInv
<1>4. ASSUME NEW e \in Ends, Read(e) PROVE \A x \in Ends : CountInv(x)'
  <2> DEFINE w == wire[inner[e]][Peer(e)]
  <2>1. PICK n \in 1 .. Len(w) : got' = [got EXCEPT ![e] = @ \o SubSeq(w, 1, n)]
    BY <1>4, Zenon DEF Read
  <2>2. Len(got'[e]) = Len(got[e]) + n /\ Len(got[e]) \in Nat /\ Len(w) \in Nat
    BY <1>0, <2>1, ReadFacts
  <2>3. recv[e] <= Len(got'[e])
    <3>1. recv[e] \in Nat /\ recv[e] <= Len(got[e]) /\ n \in Nat
      BY <1>0, <2>2 DEF CountInv
    <3>2. QED
      BY <2>2, <3>1
  <2>4. ASSUME NEW x \in Ends PROVE CountInv(x)'
    <3>1. CASE x = e
      BY <3>1, <1>4, <2>3, Zenon DEF Read, CountInv
    <3>2. CASE x # e
      BY <3>2, <1>0, <1>4, <2>1, Zenon DEF Read, CountInv
    <3>3. QED
      BY <3>1, <3>2, Zenon
  <2>5. QED
    BY <2>4, Zenon
<1>5. ASSUME NEW e \in Ends, OnRead(e) PROVE \A x \in Ends : CountInv(x)'
  <2>1. Len(got[e]) \in Nat
    BY <1>0, LenProperties, Zenon
  <2>2. QED
    BY <1>0, <1>5, <2>1 DEF OnRead, CountInv
<1>6. QED
  <2>1. CASE UNCHANGED vars
    BY <2>1, <1>1, Zenon DEF vars, counters
  <2>2. CASE Crash
    BY <2>2, <1>1, Zenon DEF Crash, counters
  <2>3. ASSUME NEW e \in Ends, EndStep(e), ~Write(e), ~OnWrite(e), ~Read(e), ~OnRead(e)
        PROVE  UNCHANGED <<recv, got, sent, written>>
    BY <2>3, Zenon DEF EndStep, ReadEOF, CloseWrite, Close, HalfClose, LoseConn, Redial, SendResume,
       ReadEcho, ResumeBroken, ResumeExpired, WriteGap, SwapInner, EmitCheckpoint,
       ApplyCheckpoint, counters
  <2>4. QED
    BY <2>1, <2>2, <2>3, <1>1, <1>2, <1>3, <1>4, <1>5, Zenon DEF Next

LEMMA RelayFacts ==
  ASSUME TypeOK
  PROVE  /\ relay \in Nat /\ Relays \subseteq Nat /\ relay \in Relays
         /\ \A x \in Ends : /\ conn[x] \in Relays /\ inner[x] \in Relays
                            /\ conn[x] \in Nat /\ inner[x] \in Nat
BY MaxCrashesAssumption DEF TypeOK, NetworkType, SessionType, Relays

LEMMA ConnStep ==
  ASSUME TypeOK, \A x \in Ends : ConnInv(x), [Next]_vars
  PROVE  \A x \in Ends : ConnInv(x)'
<1> DEFINE Goal == \A x \in Ends : ConnInv(x)'
<1>0. /\ relay \in Nat /\ \A x \in Ends : conn[x] \in Nat /\ inner[x] \in Nat
  BY RelayFacts, Zenon
<1>00. /\ conn \in [Ends -> Relays] /\ inner \in [Ends -> Relays] /\ up \in [Ends -> BOOLEAN]
       /\ phase \in [Ends -> {"run", "open", "echo", "write", "swap"}]
  BY Zenon DEF TypeOK, SessionType
<1>1. ASSUME UNCHANGED <<relay, conn, inner, phase, up>> PROVE Goal
  BY <1>1, Zenon DEF ConnInv
<1>2. CASE Crash
  BY <1>2, <1>0, <1>00 DEF Crash, session, ConnInv
<1>3. ASSUME NEW e \in Ends, EndStep(e) PROVE Goal
  <2>1. CASE LoseConn(e)
    BY <2>1, <1>0, <1>00 DEF LoseConn, network, ConnInv
  <2>2. CASE Redial(e)
    BY <2>2, <1>0, <1>00 DEF Redial, network, ConnInv
  <2>3. CASE SendResume(e)
    BY <2>3, <1>0, <1>00, Zenon DEF SendResume, ConnInv
  <2>4. CASE ReadEcho(e)
    BY <2>4, <1>0, <1>00, Zenon DEF ReadEcho, Drop, network, ConnInv
  <2>5. CASE ResumeBroken(e)
    BY <2>5, <1>0, <1>00, Zenon DEF ResumeBroken, network, ConnInv
  <2>6. CASE ResumeExpired(e)
    BY <2>6, <1>0, <1>00, Zenon DEF ResumeExpired, Drop, ConnInv
  <2>7. CASE WriteGap(e)
    BY <2>7, <1>0, <1>00, Zenon DEF WriteGap, ConnInv
  <2>8. CASE SwapInner(e)
    BY <2>8, <1>0, <1>00 DEF SwapInner, network, ConnInv
  <2>9. CASE Write(e) \/ OnWrite(e) \/ Read(e) \/ OnRead(e) \/ ReadEOF(e) \/ CloseWrite(e)
             \/ Close(e) \/ EmitCheckpoint(e) \/ ApplyCheckpoint(e)
    BY <2>9, <1>1, Zenon DEF Write, OnWrite, Read, OnRead, ReadEOF, CloseWrite, Close, HalfClose,
       EmitCheckpoint, ApplyCheckpoint, network, session
  <2>10. QED
    BY <1>3, <2>1, <2>2, <2>3, <2>4, <2>5, <2>6, <2>7, <2>8, <2>9, Zenon DEF EndStep
<1>4. CASE UNCHANGED vars
  BY <1>4, <1>1, Zenon DEF vars, network, session
<1>5. QED
  BY <1>2, <1>3, <1>4, Zenon DEF Next

LEMMA OfferStep ==
  ASSUME TypeOK, \A x \in Ends : ConnInv(x) /\ OfferInv(x), [Next]_vars
  PROVE  \A x \in Ends : OfferInv(x)'
<1> DEFINE Goal == \A x \in Ends : OfferInv(x)'
<1>0. /\ relay \in Nat /\ (\A k \in Relays : k \in Nat) /\ relay \in Relays
      /\ \A x \in Ends : conn[x] \in Relays /\ conn[x] \in Nat
  BY RelayFacts, Zenon
<1>00. /\ conn \in [Ends -> Relays] /\ offer \in [Relays -> [Ends -> Nat \cup {None}]]
       /\ recv \in [Ends -> Nat]
       /\ phase \in [Ends -> {"run", "open", "echo", "write", "swap"}]
  BY Zenon DEF TypeOK, SessionType, NetworkType, CounterType
<1>1. ASSUME UNCHANGED <<offer, conn>>,
             \A x \in Ends : phase'[x] = "open" => phase[x] = "open"
      PROVE  Goal
  BY <1>1, Zenon DEF OfferInv
<1>2. ASSUME NEW e \in Ends, EndStep(e) PROVE Goal
  <2>1. CASE Redial(e)
    <3>1. conn[e] < relay
      BY <2>1, <1>0, Zenon DEF Redial, ConnInv
    <3>2. /\ UNCHANGED offer /\ conn' = [conn EXCEPT ![e] = relay]
          /\ \A x \in Ends : x # e => phase'[x] = phase[x]
      BY <2>1, <1>00, Zenon DEF Redial, network
    <3>3. OfferInv(e)'
      <4>1. conn'[e] = relay
        BY <3>2, <1>00, Zenon
      <4>2. \A k \in Relays : offer[k][e] # None => k <= relay
        BY <3>1, <1>0 DEF OfferInv
      <4>3. offer[relay][e] = None
        BY <3>1, <1>0 DEF OfferInv
      <4>4. QED
        BY <3>2, <4>1, <4>2, <4>3, Zenon DEF OfferInv
    <3>4. ASSUME NEW x \in Ends, x # e PROVE OfferInv(x)'
      BY <3>2, <3>4, <1>00, Zenon DEF OfferInv
    <3>5. QED
      BY <3>3, <3>4, Zenon
  <2>2. CASE SendResume(e)
    <3>1. \A k \in Relays, x \in Ends :
            offer'[k][x] # None => offer[k][x] # None \/ (x = e /\ k = conn[e])
      BY <2>2, <1>00, Zenon DEF SendResume
    <3>2. /\ UNCHANGED conn /\ phase'[e] = "echo"
          /\ \A x \in Ends : x # e => phase'[x] = phase[x]
      BY <2>2, <1>00, Zenon DEF SendResume
    <3>3. \A x \in Ends : x # e => offer'[conn[x]][x] = offer[conn[x]][x]
      BY <2>2, <1>00, Zenon DEF SendResume
    <3>4. ASSUME NEW x \in Ends PROVE OfferInv(x)'
      <4>1. ASSUME NEW k \in Relays, offer'[k][x] # None PROVE k <= conn[x]
        <5>1. CASE offer[k][x] # None
          BY <5>1, Zenon DEF OfferInv
        <5>2. CASE x = e /\ k = conn[e]
          BY <5>2, <1>0
        <5>3. QED
          BY <3>1, <4>1, <5>1, <5>2, Zenon
      <4>2. phase'[x] = "open" => offer'[conn[x]][x] = None
        BY <3>2, <3>3, Zenon DEF OfferInv
      <4>3. QED
        BY <3>2, <4>1, <4>2, Zenon DEF OfferInv
    <3>5. QED
      BY <3>4, Zenon
  <2>3. CASE ResumeExpired(e)
    <3>1. /\ UNCHANGED conn /\ phase'[e] = "run" /\ \A x \in Ends : x # e => phase'[x] = phase[x]
          /\ \A k \in Relays, x \in Ends : offer'[k][x] = offer[k][x] \/ offer'[k][x] = None
      BY <2>3, <1>00, Zenon DEF ResumeExpired, Drop
    <3>2. QED
      BY <3>1, <1>0, Zenon DEF OfferInv
  <2>4. CASE ReadEcho(e)
    BY <2>4, <1>1, <1>00, Zenon DEF ReadEcho, Drop, network
  <2>5. CASE ResumeBroken(e) \/ WriteGap(e) \/ SwapInner(e)
    BY <2>5, <1>1, <1>00, Zenon DEF ResumeBroken, WriteGap, SwapInner, network
  <2>6. CASE Write(e) \/ OnWrite(e) \/ Read(e) \/ OnRead(e) \/ ReadEOF(e) \/ CloseWrite(e)
             \/ Close(e) \/ LoseConn(e) \/ EmitCheckpoint(e) \/ ApplyCheckpoint(e)
    BY <2>6, <1>1, Zenon DEF Write, OnWrite, Read, OnRead, ReadEOF, CloseWrite, Close, HalfClose,
       LoseConn, EmitCheckpoint, ApplyCheckpoint, network, session
  <2>7. QED
    BY <1>2, <2>1, <2>2, <2>3, <2>4, <2>5, <2>6, Zenon DEF EndStep
<1>3. CASE Crash
  BY <1>3, <1>1, Zenon DEF Crash, session
<1>4. CASE UNCHANGED vars
  BY <1>4, <1>1, Zenon DEF vars, network, session
<1>5. QED
  BY <1>2, <1>3, <1>4, Zenon DEF Next

LEMMA PairStep ==
  ASSUME TypeOK, \A x \in Ends : ConnInv(x) /\ PairInv(x), [Next]_vars
  PROVE  \A x \in Ends : PairInv(x)'
<1> DEFINE Goal == \A x \in Ends : PairInv(x)'
<1>0. /\ (\A k \in Relays : k \in Nat) /\ relay \in Relays
      /\ \A x \in Ends : conn[x] \in Relays /\ inner[x] \in Relays
  BY RelayFacts, Zenon
<1>00. /\ conn \in [Ends -> Relays] /\ inner \in [Ends -> Relays]
       /\ offer \in [Relays -> [Ends -> Nat \cup {None}]] /\ recv \in [Ends -> Nat]
       /\ wire \in [Relays -> [Ends -> Seq(Nat)]] /\ finWire \in [Relays -> [Ends -> BOOLEAN]]
       /\ phase \in [Ends -> {"run", "open", "echo", "write", "swap"}]
  BY Zenon DEF TypeOK, SessionType, NetworkType, CounterType
<1>1. ASSUME \A k \in Relays, x \in Ends : offer[k][x] # None => offer'[k][x] # None,
             \A k \in Relays, x \in Ends : Joined(x, k)' => Joined(x, k)
      PROVE  Goal
  BY <1>1, PeerFacts, Zenon DEF PairInv
<1>2. ASSUME NEW e \in Ends, EndStep(e) PROVE Goal
  <2>1. CASE Write(e)
    <3>1. \A k \in Relays, x \in Ends : wire'[k][x] = wire[k][x] \/ (x = e /\ k = inner[e])
      BY <2>1, <1>00 DEF Write
    <3>2. QED
      BY <2>1, <3>1, <1>1, Zenon DEF Write, session, Joined
  <2>2. CASE Read(e)
    <3>1. wire[inner[e]][Peer(e)] # <<>>
      BY <2>2, ReadFacts, Zenon DEF Read
    <3>2. \A k \in Relays, x \in Ends :
            wire'[k][x] = wire[k][x] \/ (x = Peer(e) /\ k = inner[e])
      BY <2>2, <1>00 DEF Read
    <3>3. QED
      BY <2>2, <3>1, <3>2, <1>1, Zenon DEF Read, session, Joined
  <2>3. CASE CloseWrite(e) \/ Close(e)
    <3>1. \A k \in Relays, x \in Ends : finWire'[k][x] = finWire[k][x] \/ (x = e /\ k = inner[e])
      <4>1. HalfClose(e)
        BY <2>3, Zenon DEF CloseWrite, Close
      <4>2. QED
        BY <4>1, <1>00 DEF HalfClose
    <3>2. UNCHANGED <<wire, offer, conn, inner, phase>>
      BY <2>3, Zenon DEF CloseWrite, Close, HalfClose, session
    <3>3. QED
      BY <3>1, <3>2, <1>1, Zenon DEF Joined
  <2>4. CASE Redial(e)
    <3>1. /\ UNCHANGED <<wire, finWire, offer, inner>>
          /\ \A x \in Ends : \/ conn'[x] = conn[x] /\ phase'[x] = phase[x]
                             \/ phase'[x] \in {"run", "open"}
      BY <2>4, <1>00, Zenon DEF Redial, network
    <3>2. QED
      BY <3>1, <1>1, Zenon DEF Joined
  <2>5. CASE SendResume(e)
    <3>0. \A k \in Relays, x \in Ends : offer'[k][x] = offer[k][x] \/ offer'[k][x] = recv[e]
      BY <2>5, <1>00, Zenon DEF SendResume
    <3>00. recv[e] # None
      BY <1>00 DEF None
    <3>1. \A k \in Relays, x \in Ends : offer[k][x] # None => offer'[k][x] # None
      BY <3>0, <3>00, Zenon
    <3>2. /\ UNCHANGED <<wire, finWire, conn, inner>>
          /\ \A x \in Ends : phase'[x] = phase[x] \/ phase'[x] = "echo"
      BY <2>5, <1>00, Zenon DEF SendResume
    <3>3. QED
      BY <3>1, <3>2, <1>1, Zenon DEF Joined
  <2>6. CASE ReadEcho(e)
    <3>0. \A k \in Relays, x \in Ends :
            finWire'[k][x] => finWire[k][x] \/ (x = e /\ k = conn[e])
      <4>1. finWire \in [Relays -> [Ends -> BOOLEAN]] /\ conn[e] \in Relays
        BY Zenon DEF TypeOK, NetworkType, SessionType
      <4>2. QED
        BY <2>6, <4>1, SMT DEF ReadEcho
    <3>1. /\ UNCHANGED <<wire, conn, inner, offer>>
          /\ \A x \in Ends : x # e => phase'[x] = phase[x]
          /\ offer[conn[e]][e] # None /\ offer[conn[e]][Peer(e)] # None
      BY <2>6, <1>00, Zenon DEF ReadEcho, Drop
    <3>2. ASSUME NEW k \in Relays, NEW x \in Ends, k > 0, Joined(x, k)'
          PROVE  offer[k][x] # None /\ offer[k][Peer(x)] # None
      <4>1. Joined(x, k) \/ (x = e /\ k = conn[e])
        BY <3>0, <3>1, <3>2, Zenon DEF Joined
      <4>2. QED
        BY <3>1, <3>2, <4>1, Zenon DEF PairInv
    <3>3. QED
      BY <3>1, <3>2, Zenon DEF PairInv
  <2>7. CASE ResumeExpired(e)
    <3>1. /\ UNCHANGED <<wire, finWire, conn, inner>>
          /\ \A x \in Ends : phase'[x] = phase[x] \/ phase'[x] = "run"
          /\ offer[relay][Peer(e)] = None
          /\ \A k \in Relays, x \in Ends : k # relay => offer'[k][x] = offer[k][x]
      BY <2>7, <1>00, Zenon DEF ResumeExpired, Drop
    <3>2. ASSUME NEW k \in Relays, NEW x \in Ends, k > 0, Joined(x, k)'
          PROVE  offer'[k][x] # None /\ offer'[k][Peer(x)] # None
      <4>1. Joined(x, k)
        BY <3>1, <3>2, Zenon DEF Joined
      <4>2. offer[k][x] # None /\ offer[k][Peer(x)] # None
        BY <3>2, <4>1, Zenon DEF PairInv
      <4>3. k # relay
        BY <3>1, <4>2, PeerFacts, Zenon
      <4>4. QED
        BY <3>1, <4>2, <4>3, PeerFacts
    <3>3. QED
      BY <3>2, Zenon DEF PairInv
  <2>8. CASE WriteGap(e)
    <3>1. /\ UNCHANGED <<finWire, offer, conn, inner>> /\ phase[e] = "write"
          /\ \A k \in Relays, x \in Ends : wire'[k][x] = wire[k][x] \/ (x = e /\ k = conn[e])
          /\ \A x \in Ends : x # e => phase'[x] = phase[x]
      BY <2>8, <1>00, Zenon DEF WriteGap
    <3>2. QED
      BY <3>1, <1>1, Zenon DEF Joined
  <2>9. CASE SwapInner(e)
    <3>1. /\ UNCHANGED <<wire, finWire, offer, conn>> /\ phase[e] = "swap"
          /\ phase'[e] = "run" /\ inner'[e] = conn[e]
          /\ \A x \in Ends : x # e => phase'[x] = phase[x] /\ inner'[x] = inner[x]
      BY <2>9, <1>00, Zenon DEF SwapInner, network
    <3>2. QED
      BY <3>1, <1>1, Zenon DEF Joined
  <2>10. CASE ResumeBroken(e)
    <3>1. /\ UNCHANGED <<wire, finWire, offer, conn, inner>>
          /\ \A x \in Ends : phase'[x] = phase[x] \/ phase'[x] = "run"
      BY <2>10, <1>00, Zenon DEF ResumeBroken, network
    <3>2. QED
      BY <3>1, <1>1, Zenon DEF Joined
  <2>11. CASE OnWrite(e) \/ OnRead(e) \/ ReadEOF(e) \/ LoseConn(e) \/ EmitCheckpoint(e)
              \/ ApplyCheckpoint(e)
    <3>1. UNCHANGED <<wire, finWire, offer, conn, inner, phase>>
      BY <2>11, Zenon DEF OnWrite, OnRead, ReadEOF, LoseConn, EmitCheckpoint, ApplyCheckpoint,
         network, session
    <3>2. QED
      BY <3>1, <1>1, Zenon DEF Joined
  <2>12. QED
    BY <1>2, <2>1, <2>2, <2>3, <2>4, <2>5, <2>6, <2>7, <2>8, <2>9, <2>10, <2>11, Zenon DEF EndStep
<1>3. CASE Crash
  <2>1. \A k \in Relays, x \in Ends : wire'[k][x] # <<>> => wire[k][x] # <<>>
    <3>1. PICK kept \in [Ends -> Nat] :
            /\ \A e \in Ends : kept[e] <= Len(wire[relay][e])
            /\ wire' = [wire EXCEPT ![relay] = [e \in Ends |-> SubSeq(wire[relay][e], 1, kept[e])]]
      BY <1>3, CrashFacts, Zenon
    <3>2. ASSUME NEW x \in Ends, wire[relay][x] = <<>>
          PROVE  SubSeq(wire[relay][x], 1, kept[x]) = <<>>
      <4>1. kept[x] <= 0
        BY <3>1, <3>2, EmptySeq, Zenon
      <4>2. kept[x] \in Int
        OBVIOUS
      <4>3. QED
        BY <4>1, <4>2, SubSeqEmpty
    <3>3. QED
      BY <3>1, <3>2, <1>00, <1>0, Zenon
  <2>2. \A k \in Relays, x \in Ends : finWire'[k][x] => finWire[k][x]
    BY <1>3, <1>00, <1>0 DEF Crash
  <2>3. UNCHANGED <<offer, conn, inner, phase>>
    BY <1>3, Zenon DEF Crash, session
  <2>4. QED
    BY <2>1, <2>2, <2>3, <1>1, Zenon DEF Joined
<1>4. CASE UNCHANGED vars
  BY <1>4, <1>1, Zenon DEF vars, network, session, Joined
<1>5. QED
  BY <1>2, <1>3, <1>4 DEF Next

LEMMA CutStep ==
  ASSUME TypeOK, \A x \in Ends : CutInv(x), [Next]_vars
  PROVE  \A x \in Ends : CutInv(x)'
<1>0. abandoned \in [Ends -> BOOLEAN] /\ cut \in [Ends -> BOOLEAN]
  BY Zenon DEF TypeOK, SessionType, CounterType
<1>1. ASSUME NEW e \in Ends, EndStep(e) PROVE \A x \in Ends : CutInv(x)'
  <2>1. CASE ReadEcho(e)
    BY <2>1, <1>0, Zenon DEF ReadEcho, Drop, CutInv
  <2>2. CASE ~ReadEcho(e)
    <3>1. UNCHANGED cut
      BY <1>1, <2>2, Zenon DEF EndStep, Write, OnWrite, Read, OnRead, ReadEOF, CloseWrite, Close,
         HalfClose, LoseConn, Redial, SendResume, ResumeBroken, ResumeExpired, WriteGap, SwapInner,
         EmitCheckpoint, ApplyCheckpoint
    <3>2. \A x \in Ends : abandoned[x] => abandoned'[x]
      BY <1>0, <1>1, <2>2, Zenon DEF EndStep, Write, OnWrite, Read, OnRead, ReadEOF, CloseWrite, Close,
         HalfClose, LoseConn, Redial, SendResume, ResumeBroken, ResumeExpired, Drop, WriteGap, SwapInner,
         EmitCheckpoint, ApplyCheckpoint, session
    <3>3. QED
      BY <3>1, <3>2, Zenon DEF CutInv
  <2>3. QED
    BY <2>1, <2>2, Zenon
<1>2. CASE Crash \/ UNCHANGED vars
  BY <1>2, Zenon DEF Crash, vars, session, CutInv
<1>3. QED
  BY <1>1, <1>2, Zenon DEF Next

LEMMA ControlHolds == Spec => []ControlInv
<1>1. Init => ControlInv
  <2> SUFFICES ASSUME Init, NEW e \in Ends
               PROVE  CountInv(e) /\ ConnInv(e) /\ OfferInv(e) /\ PairInv(e) /\ CutInv(e)
    BY Zenon DEF ControlInv
  <2>1. CountInv(e)
    BY EmptySeq DEF Init, CountInv
  <2>2. ConnInv(e)
    BY DEF Init, ConnInv
  <2>3. OfferInv(e)
    BY MaxCrashesAssumption, Zenon DEF Init, OfferInv, Relays
  <2>4. PairInv(e)
    <3>1. ASSUME NEW k \in Relays, k > 0 PROVE ~Joined(e, k)
      BY <3>1 DEF Init, Joined
    <3>2. QED
      BY <3>1, Zenon DEF PairInv
  <2>5. CutInv(e)
    BY Zenon DEF Init, CutInv
  <2>6. QED
    BY <2>1, <2>2, <2>3, <2>4, <2>5, Zenon
<1>2. TypeOK /\ ControlInv /\ [Next]_vars => ControlInv'
  BY CountStep, ConnStep, OfferStep, PairStep, CutStep, Zenon DEF ControlInv
<1>3. QED
  BY <1>1, <1>2, TypeCorrect, PTL DEF Spec

--------------------------------------------------------------------------------
(* The bytes *)

(* An end that has put something on the live relay's stream, or may, is     *)
(* connected to that relay, and so is its peer.                             *)
LEMMA JoinedConn ==
  ASSUME TypeOK, ControlInv, NEW x \in Ends, Joined(x, relay)
  PROVE  conn[x] = relay /\ conn[Peer(x)] = relay
<1>0. relay \in Nat /\ relay \in Relays /\ Peer(x) \in Ends
      /\ conn[x] \in Nat /\ conn[Peer(x)] \in Nat
  BY RelayFacts, PeerFacts, Zenon
<1>1. conn[x] <= relay /\ conn[Peer(x)] <= relay
  BY <1>0, Zenon DEF ControlInv, ConnInv
<1>2. CASE relay = 0
  BY <1>0, <1>1, <1>2
<1>3. CASE relay > 0
  <2>1. offer[relay][x] # None /\ offer[relay][Peer(x)] # None
    BY <1>0, <1>3, Zenon DEF ControlInv, PairInv
  <2>2. relay <= conn[x] /\ relay <= conn[Peer(x)]
    BY <1>0, <2>1, Zenon DEF ControlInv, OfferInv
  <2>3. QED
    BY <1>0, <1>1, <2>2
<1>4. QED
  BY <1>0, <1>2, <1>3

(* Nothing is on a relay's stream before both ends have asked to resume it. *)
LEMMA Unpaired ==
  ASSUME TypeOK, ControlInv, NEW x \in Ends, NEW k \in Relays, k > 0,
         offer[k][x] = None \/ offer[k][Peer(x)] = None
  PROVE  wire[k][x] = <<>> /\ finWire[k][x] = FALSE
<1>1. ~Joined(x, k)
  BY Zenon DEF ControlInv, PairInv
<1>2. finWire[k][x] \in BOOLEAN
  BY Zenon DEF TypeOK, NetworkType
<1>3. QED
  BY <1>1, <1>2, Zenon DEF Joined

LEMMA LenFacts ==
  ASSUME TypeOK, NEW x \in Ends, NEW y \in Ends, NEW k \in Relays
  PROVE  /\ got[x] \in Seq(Nat) /\ Len(got[x]) \in Nat
         /\ wire[k][y] \in Seq(Nat) /\ Len(wire[k][y]) \in Nat
         /\ written[x] \in Nat /\ sent[x] \in Nat /\ recv[x] \in Nat
<1>1. got[x] \in Seq(Nat) /\ wire[k][y] \in Seq(Nat)
  BY Zenon DEF TypeOK, CounterType, NetworkType
<1>2. Len(got[x]) \in Nat /\ Len(wire[k][y]) \in Nat
  BY <1>1, LenProperties, Zenon
<1>3. QED
  BY <1>1, <1>2, Zenon DEF TypeOK, CounterType

LEMMA StreamFrame ==
  ASSUME StreamInv,
         UNCHANGED <<relay, wire, finWire, offer, conn, inner, phase, gap, written, sent, got, fin, cut, raced>>
  PROVE  StreamInv'
BY Zenon DEF StreamInv, DataInv, Ended, FlowInv, Flowing, GapInv

LEMMA WriteStream ==
  ASSUME TypeOK, ControlInv, StreamInv, NEW e \in Ends, Write(e)
  PROVE  StreamInv'
<1> SUFFICES ASSUME ~raced
             PROVE  \A x \in Ends : DataInv(x)' /\ FlowInv(x)' /\ GapInv(x)'
  BY Zenon DEF Write, StreamInv
<1>0. \A x \in Ends : DataInv(x) /\ FlowInv(x) /\ GapInv(x)
  BY Zenon DEF StreamInv
<1> DEFINE p == Peer(e)
<1>1. p \in Ends /\ p # e /\ Peer(p) = e /\ \A x \in Ends : x = e \/ x = p
  BY PeerFacts, Zenon
<1> HIDE DEF p
<1>2. PICK n \in written[e] + 1 .. MaxBytes[e] :
        /\ written' = [written EXCEPT ![e] = n]
        /\ wire' = [wire EXCEPT ![inner[e]][e] =
                      IF Live(e) THEN @ \o Bytes(written[e], n) ELSE @]
  BY Zenon DEF Write
<1>3. /\ UNCHANGED <<relay, finWire, offer, conn, inner, phase, gap, sent, got, fin, cut, raced>>
      /\ ~fin[e] /\ ~cut[e] /\ inner[e] = conn[e]
  BY Zenon DEF Write, session, Usable, ControlInv, CutInv
<1>4. n \in Nat /\ written[e] \in Nat /\ n > written[e] /\ written'[e] = n
      /\ \A x \in Ends : x # e => written'[x] = written[x]
  BY <1>2, MaxBytesAssumption DEF TypeOK, CounterType
<1>5. relay \in Relays /\ relay \in Nat
      /\ \A x \in Ends : conn[x] \in Relays /\ inner[x] \in Relays /\ conn[x] \in Nat
  BY RelayFacts, Zenon
<1>6. phase[e] = "run"
  <2>1. ConnInv(e)
    BY Zenon DEF ControlInv
  <2>2. QED
    BY <1>3, <1>5, <2>1 DEF ConnInv
<1>7. \A k \in Relays, x \in Ends : ~(k = inner[e] /\ x = e) => wire'[k][x] = wire[k][x]
  BY <1>2, <1>5, Zenon DEF TypeOK, NetworkType
<1>8. Flowing(e) <=> inner[e] = relay
  BY <1>6, Zenon DEF Flowing
<1>9. CASE inner[e] = relay
  <2> DEFINE w == wire[relay][e]
             G == Len(got[p])
  <2>1. wire'[relay][e] = w \o Bytes(written[e], n)
    BY <1>2, <1>5, <1>9, Zenon DEF Live, TypeOK, NetworkType
  <2>2. conn[e] = relay /\ conn[p] = relay
    BY <1>9, JoinedConn, Zenon DEF Joined, p
  <2>3. G \in Nat /\ Len(w) \in Nat /\ w \in Seq(Nat)
    BY <1>1, <1>5, LenFacts, Zenon
  <2>4. G + Len(w) = written[e]
    BY <1>0, <1>8, <1>9, Zenon DEF FlowInv, p
  <2>5. w = Bytes(G, G + Len(w)) /\ got[p] = Bytes(0, G)
    BY <1>0, <1>1, <2>2, Zenon DEF DataInv
  <2>6. ~finWire[relay][e]
    BY <1>0, <1>1, <1>3, <2>2, Zenon DEF DataInv, Ended
  <2> HIDE DEF w, G
  <2>7. w = Bytes(G, written[e]) /\ G <= written[e] /\ G <= n
    BY <1>4, <2>3, <2>4, <2>5
  <2>8. wire'[relay][e] = Bytes(G, n)
    <3> DEFINE W == written[e]
    <3>1. W \in Nat /\ G <= W /\ W <= n
      BY <1>4, <2>7
    <3>2. wire'[relay][e] = Bytes(G, W) \o Bytes(W, n)
      BY <2>1, <2>7, Zenon
    <3> HIDE DEF W
    <3>3. QED
      BY <1>4, <2>3, <3>1, <3>2, BytesConcat, Zenon
  <2>9. Len(wire'[relay][e]) = n - G
    BY <1>4, <2>3, <2>7, <2>8, BytesType, Zenon
  <2>10. G + Len(wire'[relay][e]) = n
    BY <1>4, <2>3, <2>9
  <2>11. DataInv(p)'
    <3>1. got'[p] = Bytes(0, Len(got'[p])) /\ Len(got'[p]) = G
      BY <1>3, <2>5, Zenon DEF G
    <3>2. conn'[p] = relay /\ ~finWire'[relay][e]
      BY <1>3, <2>2, <2>6, Zenon
    <3>3. G + Len(wire'[relay][e]) <= written'[e]
      BY <1>4, <2>10
    <3>4. QED
      BY <1>1, <2>8, <2>10, <3>1, <3>2, <3>3, Zenon DEF DataInv
  <2>12. DataInv(e)'
    BY <1>0, <1>1, <1>3, <1>4, <1>5, <1>7, Zenon DEF DataInv, Ended, p
  <2>13. FlowInv(e)'
    BY <1>3, <1>4, <1>9, <2>10, Zenon DEF FlowInv, Flowing, G, p
  <2>14. FlowInv(p)'
    BY <1>0, <1>1, <1>3, <1>4, <1>5, <1>7, Zenon DEF FlowInv, Flowing
  <2>15. GapInv(e)' /\ GapInv(p)'
    BY <1>0, <1>1, <1>3, <1>4, <1>6, Zenon DEF GapInv
  <2>16. QED
    BY <1>1, <2>11, <2>12, <2>13, <2>14, <2>15, Zenon
<1>10. CASE inner[e] # relay
  <2>1. UNCHANGED wire
    BY <1>2, <1>5, <1>10, Zenon DEF Live, TypeOK, NetworkType
  <2>2. DataInv(e)'
    BY <1>0, <1>1, <1>3, <1>4, <2>1, Zenon DEF DataInv, Ended, p
  <2>3. DataInv(p)'
    <3>1. Len(got[p]) \in Nat /\ Len(wire[conn[p]][e]) \in Nat
      BY <1>1, <1>5, LenFacts, Zenon
    <3>0. /\ Len(got[p]) + Len(wire[conn[p]][e]) <= written[e]
          /\ ~finWire[conn[p]][e]
      BY <1>0, <1>1, <1>3, Zenon DEF DataInv, Ended
    <3>2. Len(got[p]) + Len(wire[conn[p]][e]) <= n /\ ~finWire[conn[p]][e]
      <4> DEFINE G == Len(got[p])
                 L == Len(wire[conn[p]][e])
      <4>1. G \in Nat /\ L \in Nat /\ G + L <= written[e]
        BY <3>0, <3>1, Zenon
      <4> HIDE DEF G, L
      <4>2. G + L <= n
        BY <1>4, <4>1
      <4>3. QED
        BY <3>0, <4>2, Zenon DEF G, L
    <3>3. QED
      BY <1>0, <1>1, <1>3, <1>4, <2>1, <3>2, Zenon DEF DataInv
  <2>4. FlowInv(e)' /\ FlowInv(p)'
    BY <1>0, <1>1, <1>3, <1>4, <1>8, <1>10, <2>1, Zenon DEF FlowInv, Flowing
  <2>5. GapInv(e)' /\ GapInv(p)'
    BY <1>0, <1>1, <1>3, <1>4, <1>6, Zenon DEF GapInv
  <2>6. QED
    BY <1>1, <2>2, <2>3, <2>4, <2>5, Zenon
<1>11. QED
  BY <1>9, <1>10, Zenon

LEMMA ReadStream ==
  ASSUME TypeOK, ControlInv, StreamInv, NEW e \in Ends, Read(e)
  PROVE  StreamInv'
<1> SUFFICES ASSUME ~raced
             PROVE  \A x \in Ends : DataInv(x)' /\ FlowInv(x)' /\ GapInv(x)'
  BY Zenon DEF Read, StreamInv
<1>0. \A x \in Ends : DataInv(x) /\ FlowInv(x) /\ GapInv(x)
  BY DEF StreamInv
<1> DEFINE p == Peer(e)
<1>1. p \in Ends /\ p # e /\ Peer(p) = e /\ \A x \in Ends : x = e \/ x = p
  BY PeerFacts
<1> HIDE DEF p
<1>2. relay \in Relays /\ relay \in Nat
      /\ \A x \in Ends : conn[x] \in Relays /\ inner[x] \in Relays /\ conn[x] \in Nat
                        /\ inner[x] \in Nat
  BY RelayFacts, Zenon
<1> DEFINE w == wire[conn[e]][p]
           G == Len(got[e])
           L == Len(w)
<1>3. /\ UNCHANGED <<relay, finWire, offer, conn, inner, phase, gap, sent, written, fin, cut, raced>>
      /\ inner[e] = conn[e]
  BY Zenon DEF Read, session, Usable
<1>4. PICK n \in 1 .. L :
        /\ got' = [got EXCEPT ![e] = @ \o SubSeq(w, 1, n)]
        /\ wire' = [wire EXCEPT ![conn[e]][p] = SubSeq(@, n + 1, Len(@))]
  BY <1>3, Zenon DEF Read, p
<1>5. G \in Nat /\ L \in Nat /\ w # <<>>
  BY <1>1, <1>2, <1>3, <1>4, ReadFacts, LenFacts, Zenon DEF p
<1>6. got[e] = Bytes(0, G) /\ w = Bytes(G, G + L) /\ G + L <= written[p]
      /\ (finWire[conn[e]][p] => Ended(p, G + L))
  BY <1>0, Zenon DEF DataInv, p
<1>7. /\ got'[e] = got[e] \o SubSeq(w, 1, n) /\ wire'[conn[e]][p] = SubSeq(w, n + 1, L)
      /\ got'[p] = got[p]
      /\ \A k \in Relays, x \in Ends : ~(k = conn[e] /\ x = p) => wire'[k][x] = wire[k][x]
  BY <1>1, <1>2, <1>4, Zenon DEF TypeOK, NetworkType, CounterType
<1>8. got'[e] = Bytes(0, G + n) /\ wire'[conn[e]][p] = Bytes(G + n, G + L)
  <2> HIDE DEF w, G, L
  <2> DEFINE b == G + n
             c == G + L
  <2>1. 0 \in Nat /\ b \in Nat /\ c \in Nat /\ G <= b /\ b <= c /\ 0 <= G
        /\ b - G = n /\ c - G = L
    BY <1>5
  <2> HIDE DEF b, c
  <2>2. SubSeq(w, 1, n) = Bytes(G, b) /\ SubSeq(w, n + 1, L) = Bytes(b, c)
    <3>1. w = Bytes(G, c)
      BY <1>6, Zenon DEF c
    <3>2. SubSeq(Bytes(G, c), 1, b - G) = Bytes(G, b)
      BY <1>5, <2>1, BytesPrefix, Zenon
    <3>3. SubSeq(Bytes(G, c), b - G + 1, c - G) = Bytes(b, c)
      BY <1>5, <2>1, BytesSuffix
    <3>4. QED
      BY <2>1, <3>1, <3>2, <3>3, Zenon
  <2>3. got'[e] = Bytes(0, G) \o Bytes(G, b)
    BY <1>6, <1>7, <2>2, Zenon
  <2>4. got'[e] = Bytes(0, b)
    BY <1>5, <2>1, <2>3, BytesConcat, Zenon
  <2>5. QED
    BY <1>7, <2>2, <2>4, Zenon DEF b, c
<1>9. Len(got'[e]) = G + n /\ Len(wire'[conn[e]][p]) = L - n
      /\ Len(got'[e]) \in Nat /\ Len(wire'[conn[e]][p]) \in Nat
      /\ Len(got'[e]) + Len(wire'[conn[e]][p]) = G + L
  <2> HIDE DEF G, L, w
  <2> DEFINE b == G + n
             c == G + L
  <2>1. 0 \in Nat /\ b \in Nat /\ c \in Nat /\ 0 <= b /\ b <= c /\ c - b = L - n /\ b - 0 = b
        /\ L - n \in Nat /\ b + (L - n) = G + L
    BY <1>5
  <2> HIDE DEF b, c
  <2>2. Len(Bytes(0, b)) = b /\ Len(Bytes(b, c)) = L - n
    BY <2>1, BytesType, Zenon
  <2>3. got'[e] = Bytes(0, b) /\ wire'[conn[e]][p] = Bytes(b, c)
    BY <1>8, Zenon DEF b, c
  <2>4. QED
    BY <2>1, <2>2, <2>3, Zenon DEF b
<1>10. DataInv(e)'
  <2> HIDE DEF G, L
  <2>1. Len(got'[e]) + Len(wire'[conn[e]][p]) <= written[p]
        /\ (finWire[conn[e]][p] => Ended(p, Len(got'[e]) + Len(wire'[conn[e]][p])))
    BY <1>6, <1>9, Zenon
  <2>2. got'[e] = Bytes(0, Len(got'[e]))
        /\ wire'[conn[e]][p] = Bytes(Len(got'[e]), Len(got'[e]) + Len(wire'[conn[e]][p]))
    BY <1>8, <1>9, Zenon
  <2>3. QED
    BY <1>3, <2>1, <2>2, Zenon DEF DataInv, Ended, p
<1>11. DataInv(p)'
  BY <1>0, <1>1, <1>2, <1>3, <1>7, ZenonT(30) DEF DataInv, Ended
<1>12. FlowInv(e)'
  BY <1>0, <1>1, <1>2, <1>3, <1>7, Zenon DEF FlowInv, Flowing, p
<1>13. FlowInv(p)'
  <2>1. CASE conn[e] = relay
    <3>1. Flowing(p)
      BY <1>0, <1>1, <1>5, <2>1, Zenon DEF FlowInv
    <3>2. G + L = written[p]
      BY <1>0, <1>1, <2>1, <3>1, Zenon DEF FlowInv
    <3>3. Len(got'[e]) + Len(wire'[relay][p]) = written[p]
      BY <1>9, <2>1, <3>2, Zenon
    <3>4. Flowing(p)'
      BY <1>3, <3>1, Zenon DEF Flowing
    <3>5. QED
      BY <1>1, <1>3, <3>3, <3>4, Zenon DEF FlowInv
  <2>2. CASE conn[e] # relay
    <3>1. ~Flowing(p)
      BY <1>1, <2>2, JoinedConn, Zenon DEF Flowing, Joined
    <3>2. offer[relay][e] = None
      <4>1. conn[e] < relay
        BY <1>2, <2>2 DEF ControlInv, ConnInv
      <4>2. QED
        BY <1>2, <4>1 DEF ControlInv, OfferInv
    <3>3. wire'[relay][p] = <<>>
      BY <1>0, <1>1, <1>2, <1>7, <2>2, <3>1, Zenon DEF FlowInv
    <3>4. ~Flowing(p)'
      BY <1>3, <3>1, Zenon DEF Flowing
    <3>5. QED
      BY <1>1, <1>3, <3>2, <3>3, <3>4, Zenon DEF FlowInv
  <2>3. QED
    BY <2>1, <2>2, Zenon
<1>14. GapInv(e)' /\ GapInv(p)'
  BY <1>0, <1>1, <1>3, Zenon DEF GapInv
<1>15. QED
  BY <1>1, <1>10, <1>11, <1>12, <1>13, <1>14, Zenon

LEMMA HalfCloseStream ==
  ASSUME TypeOK, ControlInv, StreamInv, NEW e \in Ends, CloseWrite(e) \/ Close(e)
  PROVE  StreamInv'
<1> SUFFICES ASSUME ~raced
             PROVE  \A x \in Ends : DataInv(x)' /\ FlowInv(x)' /\ GapInv(x)'
  BY DEF CloseWrite, Close, StreamInv
<1>0. \A x \in Ends : DataInv(x) /\ FlowInv(x) /\ GapInv(x)
  BY Zenon DEF StreamInv
<1> DEFINE p == Peer(e)
<1>1. p \in Ends /\ p # e /\ Peer(p) = e /\ \A x \in Ends : x = e \/ x = p
  BY PeerFacts, Zenon
<1> HIDE DEF p
<1>2. relay \in Relays /\ relay \in Nat
      /\ \A x \in Ends : conn[x] \in Relays /\ inner[x] \in Relays /\ conn[x] \in Nat
                        /\ inner[x] \in Nat
  BY RelayFacts, Zenon
<1>3. /\ UNCHANGED <<relay, wire, offer, conn, inner, phase, gap, sent, written, got, cut, raced>>
      /\ fin' = [fin EXCEPT ![e] = TRUE]
      /\ finWire' = [finWire EXCEPT ![inner[e]][e] = @ \/ (up[e] /\ inner[e] = conn[e] /\ Live(e))]
  BY Zenon DEF CloseWrite, Close, HalfClose, session
<1>4. fin'[e] = TRUE /\ fin'[p] = fin[p]
  BY <1>1, <1>3, Zenon DEF TypeOK, CounterType
<1>5. \A k \in Relays : finWire'[k][p] = finWire[k][p]
  BY <1>1, <1>2, <1>3, Zenon DEF TypeOK, NetworkType
<1>6. \A k \in Relays : finWire'[k][e] => finWire[k][e] \/ (k = inner[e] /\ inner[e] = relay)
  BY <1>2, <1>3, Zenon DEF TypeOK, NetworkType, Live
<1>7. DataInv(e)'
  BY <1>0, <1>2, <1>3, <1>4, <1>5, Zenon DEF DataInv, Ended, p
<1>8. DataInv(p)'
  <2>1. finWire'[conn[p]][e] => cut[e] \/ Len(got[p]) + Len(wire[conn[p]][e]) = written[e]
    <3>1. CASE finWire[conn[p]][e]
      BY <1>0, <1>1, <3>1, Zenon DEF DataInv, Ended
    <3>2. CASE conn[p] = inner[e] /\ inner[e] = relay
      BY <1>0, <3>2, Zenon DEF FlowInv, Flowing, p
    <3>3. QED
      BY <1>1, <1>2, <1>6, <3>1, <3>2, Zenon
  <2>2. QED
    BY <1>0, <1>1, <1>3, <1>4, <2>1, Zenon DEF DataInv, Ended
<1>9. \A x \in Ends : FlowInv(x)' /\ GapInv(x)'
  BY <1>0, <1>3, Zenon DEF FlowInv, Flowing, GapInv
<1>10. QED
  BY <1>1, <1>7, <1>8, <1>9, Zenon

LEMMA RedialStream ==
  ASSUME TypeOK, ControlInv, StreamInv, NEW e \in Ends, Redial(e)
  PROVE  StreamInv'
<1> SUFFICES ASSUME ~raced
             PROVE  \A x \in Ends : DataInv(x)' /\ FlowInv(x)' /\ GapInv(x)'
  BY Zenon DEF Redial, StreamInv
<1>0. \A x \in Ends : DataInv(x) /\ FlowInv(x) /\ GapInv(x)
  BY DEF StreamInv
<1> DEFINE p == Peer(e)
<1>1. p \in Ends /\ p # e /\ Peer(p) = e /\ \A x \in Ends : x = e \/ x = p
  BY PeerFacts
<1> HIDE DEF p
<1>2. relay \in Relays /\ relay \in Nat
      /\ \A x \in Ends : conn[x] \in Relays /\ inner[x] \in Relays /\ conn[x] \in Nat
                        /\ inner[x] \in Nat
  BY RelayFacts
<1>3. /\ UNCHANGED <<relay, wire, finWire, offer, inner, gap, sent, written, got, fin, cut, raced>>
      /\ conn'[e] = relay /\ conn'[p] = conn[p] /\ phase'[p] = phase[p]
      /\ phase'[e] \in {"run", "open"}
  BY <1>1, Zenon DEF Redial, network, counters, TypeOK, SessionType
<1>4. conn[e] < relay /\ inner[e] < relay
  BY <1>2 DEF Redial, ControlInv, ConnInv
<1>5. offer[relay][e] = None
  BY <1>2, <1>4 DEF ControlInv, OfferInv
<1>6. wire[relay][p] = <<>> /\ finWire[relay][p] = FALSE
  <2>1. relay > 0 /\ offer[relay][Peer(p)] = None
    BY <1>1, <1>2, <1>4, <1>5
  <2>2. QED
    BY <1>1, <1>2, <2>1, Unpaired, Zenon
<1>7. DataInv(e)'
  <2> DEFINE G == Len(got[e])
             L == Len(wire[conn[e]][p])
  <2>1. G \in Nat /\ L \in Nat /\ written[p] \in Nat
    BY <1>1, <1>2, LenFacts, Zenon
  <2>2. got[e] = Bytes(0, G) /\ G + L <= written[p]
    BY <1>0, Zenon DEF DataInv, p
  <2> HIDE DEF G, L
  <2>3. G <= written[p] /\ G + 0 = G
    BY <2>1, <2>2
  <2>4. Len(wire[relay][p]) = 0 /\ wire[relay][p] = Bytes(G, G)
    BY <1>6, <2>1, EmptySeq, BytesEmpty, Zenon
  <2>5. QED
    BY <1>3, <1>6, <2>2, <2>3, <2>4, Zenon DEF DataInv, G, p
<1>8. DataInv(p)'
  BY <1>0, <1>1, <1>3, Zenon DEF DataInv, Ended
<1>9. FlowInv(e)' /\ FlowInv(p)'
  <2>1. ~Flowing(e) /\ ~Flowing(e)'
    <3>1. inner[e] # relay /\ conn[e] # relay
      BY <1>2, <1>4
    <3>2. QED
      BY <1>3, <3>1, Zenon DEF Flowing
  <2>2. FlowInv(e)'
    BY <1>0, <1>3, <2>1, Zenon DEF FlowInv
  <2>3. FlowInv(p)'
    BY <1>0, <1>1, <1>3, Zenon DEF FlowInv, Flowing
  <2>4. QED
    BY <2>2, <2>3, Zenon
<1>10. GapInv(e)' /\ GapInv(p)'
  BY <1>0, <1>1, <1>3, Zenon DEF GapInv
<1>11. QED
  BY <1>1, <1>7, <1>8, <1>9, <1>10, Zenon

LEMMA SendResumeStream ==
  ASSUME TypeOK, ControlInv, StreamInv, NEW e \in Ends, SendResume(e)
  PROVE  StreamInv'
<1> SUFFICES ASSUME ~raced, ~Reading(e)
             PROVE  \A x \in Ends : DataInv(x)' /\ FlowInv(x)' /\ GapInv(x)'
  BY Zenon DEF SendResume, StreamInv
<1>0. \A x \in Ends : DataInv(x) /\ FlowInv(x) /\ GapInv(x)
  BY Zenon DEF StreamInv
<1> DEFINE p == Peer(e)
<1>1. p \in Ends /\ p # e /\ Peer(p) = e /\ \A x \in Ends : x = e \/ x = p
  BY PeerFacts, Zenon
<1> HIDE DEF p
<1>2. relay \in Relays /\ relay \in Nat
      /\ \A x \in Ends : conn[x] \in Relays /\ inner[x] \in Relays /\ conn[x] \in Nat
                        /\ inner[x] \in Nat
  BY RelayFacts, Zenon
<1>3. /\ UNCHANGED <<relay, wire, finWire, conn, inner, gap, sent, written, got, fin, cut>>
      /\ phase[e] = "open" /\ phase'[e] = "echo" /\ phase'[p] = phase[p]
      /\ offer' = [offer EXCEPT ![conn[e]][e] = IF conn[e] = relay THEN recv[e] ELSE @]
  BY <1>1, Zenon DEF SendResume, counters, TypeOK, SessionType
<1>4. recv[e] = Len(got[e])
  <2>1. recv[e] \in Nat /\ Len(got[e]) \in Nat
    BY <1>2, LenFacts, Zenon
  <2>2. recv[e] <= Len(got[e]) /\ ~(Len(got[e]) > recv[e])
    BY Zenon DEF ControlInv, CountInv, Reading
  <2>3. QED
    BY <2>1, <2>2
<1>5. /\ \A k \in Relays : offer'[k][p] = offer[k][p]
      /\ \A k \in Relays : offer'[k][e] = offer[k][e] \/ (k = conn[e] /\ offer'[k][e] = recv[e])
  BY <1>1, <1>2, <1>3, Zenon DEF TypeOK, NetworkType
<1>6. FlowInv(p)'
  BY <1>0, <1>1, <1>2, <1>3, <1>4, <1>5, ZenonT(30) DEF FlowInv, Flowing
<1>7. FlowInv(e)'
  BY <1>0, <1>2, <1>3, <1>5, Zenon DEF FlowInv, Flowing, p
<1>8. \A x \in Ends : DataInv(x)'
  BY <1>0, <1>3, Zenon DEF DataInv, Ended
<1>9. GapInv(p)'
  <2>1. phase[p] = "write" => offer'[conn[p]][e] = offer[conn[p]][e]
    <3>1. SUFFICES ASSUME phase[p] = "write", conn[p] = conn[e] PROVE FALSE
      BY <1>1, <1>2, <1>5, Zenon
    <3>2. Joined(p, conn[p]) /\ conn[p] > 0
      BY <1>1, <1>2, <3>1 DEF Joined, ControlInv, ConnInv
    <3>3. offer[conn[p]][e] # None
      BY <1>1, <1>2, <3>2, Zenon DEF ControlInv, PairInv
    <3>4. offer[conn[e]][e] = None
      BY <1>3, Zenon DEF ControlInv, OfferInv
    <3>5. QED
      BY <3>1, <3>3, <3>4, Zenon
  <2>2. QED
    BY <1>0, <1>1, <1>3, <2>1, Zenon DEF GapInv
<1>10. GapInv(e)'
  BY <1>3, Zenon DEF GapInv
<1>11. QED
  BY <1>1, <1>6, <1>7, <1>8, <1>9, <1>10, Zenon

LEMMA ReadEchoStream ==
  ASSUME TypeOK, ControlInv, StreamInv, NEW e \in Ends, ReadEcho(e)
  PROVE  StreamInv'
<1> SUFFICES ASSUME ~raced, ~Writing(e)
             PROVE  \A x \in Ends : DataInv(x)' /\ FlowInv(x)' /\ GapInv(x)'
  BY Zenon DEF ReadEcho, StreamInv
<1>0. \A x \in Ends : DataInv(x) /\ FlowInv(x) /\ GapInv(x)
  BY DEF StreamInv
<1> DEFINE p == Peer(e)
<1>1. p \in Ends /\ p # e /\ Peer(p) = e /\ \A x \in Ends : x = e \/ x = p
  BY PeerFacts
<1> HIDE DEF p
<1>2. relay \in Relays /\ relay \in Nat
      /\ \A x \in Ends : conn[x] \in Relays /\ inner[x] \in Relays /\ conn[x] \in Nat
                        /\ inner[x] \in Nat
  BY RelayFacts
<1>3. /\ UNCHANGED <<relay, wire, offer, conn, inner, sent, written, got, fin>>
      /\ phase[e] = "echo" /\ phase'[p] = phase[p] /\ gap'[p] = gap[p]
      /\ \/ phase'[e] = "write" /\ gap'[e] = Bytes(offer[conn[e]][p], sent[e])
         \/ phase'[e] = "run"
  BY <1>1, Zenon DEF ReadEcho, Drop, counters, TypeOK, SessionType, p
<1>4. sent[e] = written[e]
  <2>1. sent[e] \in Nat /\ written[e] \in Nat
    BY <1>2, LenFacts, Zenon
  <2>2. sent[e] <= written[e] /\ written[e] <= sent[e]
    BY <2>1 DEF ControlInv, CountInv, Writing
  <2>3. QED
    BY <2>1, <2>2
<1>5. \A x \in Ends : DataInv(x)'
  <2>1. /\ finWire \in [Relays -> [Ends -> BOOLEAN]] /\ cut \in [Ends -> BOOLEAN]
        /\ conn[e] \in Relays
    BY <1>2, Zenon DEF TypeOK, NetworkType, CounterType
  <2>2. CASE UNCHANGED <<finWire, cut>>
    BY <1>0, <1>3, <2>2, Zenon DEF DataInv, Ended
  <2>3. CASE /\ finWire' = [finWire EXCEPT ![conn[e]][e] = (conn[e] = relay)]
             /\ cut' = [cut EXCEPT ![e] = TRUE]
    <3>1. cut'[e] /\ cut'[p] = cut[p] /\ \A k \in Relays : finWire'[k][p] = finWire[k][p]
      BY <1>1, <2>1, <2>3, Zenon
    <3>2. DataInv(e)'
      BY <1>0, <1>2, <1>3, <3>1, Zenon DEF DataInv, Ended, p
    <3>3. DataInv(p)'
      BY <1>0, <1>1, <1>3, <3>1, Zenon DEF DataInv, Ended
    <3>4. QED
      BY <1>1, <3>2, <3>3, Zenon
  <2>4. QED
    BY <2>2, <2>3, Zenon DEF ReadEcho
<1>6. FlowInv(e)' /\ FlowInv(p)'
  BY <1>0, <1>1, <1>3, Zenon DEF FlowInv, Flowing
<1>7. GapInv(e)' /\ GapInv(p)'
  BY <1>0, <1>1, <1>3, <1>4, Zenon DEF GapInv, p
<1>8. QED
  BY <1>1, <1>5, <1>6, <1>7, Zenon

LEMMA ResumeFailsStream ==
  ASSUME TypeOK, ControlInv, StreamInv, NEW e \in Ends, ResumeBroken(e) \/ ResumeExpired(e)
  PROVE  StreamInv'
<1> SUFFICES ASSUME ~raced
             PROVE  \A x \in Ends : DataInv(x)' /\ FlowInv(x)' /\ GapInv(x)'
  BY DEF ResumeBroken, ResumeExpired, StreamInv
<1>0. \A x \in Ends : DataInv(x) /\ FlowInv(x) /\ GapInv(x)
  BY DEF StreamInv
<1> DEFINE p == Peer(e)
<1>1. p \in Ends /\ p # e /\ Peer(p) = e /\ \A x \in Ends : x = e \/ x = p
  BY PeerFacts
<1> HIDE DEF p
<1>2. relay \in Relays /\ relay \in Nat
      /\ \A x \in Ends : conn[x] \in Relays /\ inner[x] \in Relays /\ conn[x] \in Nat
                        /\ inner[x] \in Nat
  BY RelayFacts
<1>3. /\ UNCHANGED <<relay, wire, finWire, conn, inner, sent, written, got, fin, cut>>
      /\ phase'[e] = "run" /\ phase'[p] = phase[p] /\ gap'[p] = gap[p]
      /\ phase[e] = "swap" => conn[e] # relay
  BY <1>1, Zenon DEF ResumeBroken, ResumeExpired, Drop, network, counters, TypeOK, SessionType
<1>4. /\ \A k \in Relays : offer'[k][p] = offer[k][p]
      /\ \A k \in Relays : offer'[k][e] = offer[k][e]
                          \/ (k = relay /\ offer'[k][e] = None /\ offer[k][p] = None)
  <2>1. CASE ResumeBroken(e)
    BY <2>1, Zenon DEF ResumeBroken, network
  <2>2. CASE ResumeExpired(e)
    <3>1. offer' = [offer EXCEPT ![relay][e] = None] /\ offer[relay][p] = None
      BY <2>2, Zenon DEF ResumeExpired, p
    <3>2. QED
      BY <1>1, <1>2, <3>1, Zenon DEF TypeOK, NetworkType
  <2>3. QED
    BY <2>1, <2>2, Zenon
<1>5. \A x \in Ends : DataInv(x)'
  BY <1>0, <1>3, Zenon DEF DataInv, Ended
<1>6. FlowInv(p)'
  BY <1>0, <1>1, <1>2, <1>3, <1>4, Zenon DEF FlowInv, Flowing
<1>7. FlowInv(e)'
  BY <1>0, <1>2, <1>3, <1>4, Zenon DEF FlowInv, Flowing, p
<1>8. GapInv(p)'
  <2>1. phase[p] = "write" => offer'[conn[p]][e] = offer[conn[p]][e]
    <3>1. SUFFICES ASSUME phase[p] = "write", offer[conn[p]][p] = None PROVE FALSE
      BY <1>1, <1>2, <1>4, Zenon
    <3>2. Joined(p, conn[p]) /\ conn[p] > 0
      BY <1>1, <1>2, <3>1 DEF Joined, ControlInv, ConnInv
    <3>3. offer[conn[p]][p] # None
      BY <1>1, <1>2, <3>2, Zenon DEF ControlInv, PairInv
    <3>4. QED
      BY <3>1, <3>3, Zenon
  <2>2. QED
    BY <1>0, <1>1, <1>3, <2>1, Zenon DEF GapInv
<1>9. GapInv(e)'
  BY <1>3, Zenon DEF GapInv
<1>10. QED
  BY <1>1, <1>5, <1>6, <1>7, <1>8, <1>9, Zenon

LEMMA WriteGapStream ==
  ASSUME TypeOK, ControlInv, StreamInv, NEW e \in Ends, WriteGap(e)
  PROVE  StreamInv'
<1> SUFFICES ASSUME ~raced
             PROVE  \A x \in Ends : DataInv(x)' /\ FlowInv(x)' /\ GapInv(x)'
  BY Zenon DEF WriteGap, StreamInv
<1>0. \A x \in Ends : DataInv(x) /\ FlowInv(x) /\ GapInv(x)
  BY DEF StreamInv
<1> DEFINE p == Peer(e)
<1>1. p \in Ends /\ p # e /\ Peer(p) = e /\ \A x \in Ends : x = e \/ x = p
  BY PeerFacts
<1> HIDE DEF p
<1>2. relay \in Relays /\ relay \in Nat
      /\ \A x \in Ends : conn[x] \in Relays /\ inner[x] \in Relays /\ conn[x] \in Nat
                        /\ inner[x] \in Nat
  BY RelayFacts
<1>3. /\ UNCHANGED <<relay, finWire, offer, conn, inner, sent, written, got, fin, cut>>
      /\ phase[e] = "write" /\ phase'[e] = "swap" /\ phase'[p] = phase[p] /\ gap'[p] = gap[p]
      /\ wire' = [wire EXCEPT ![conn[e]][e] = IF conn[e] = relay THEN @ \o gap[e] ELSE @]
  BY <1>1, Zenon DEF WriteGap, counters, TypeOK, SessionType
<1>4. inner[e] < conn[e] /\ conn[e] <= relay /\ sent[e] = written[e]
  BY <1>0, <1>3, Zenon DEF ControlInv, ConnInv, GapInv
<1>5. inner[e] # relay /\ conn[e] > 0
  BY <1>2, <1>4
<1>6. \A k \in Relays, x \in Ends : ~(k = conn[e] /\ x = e) => wire'[k][x] = wire[k][x]
  BY <1>2, <1>3, Zenon DEF TypeOK, NetworkType
<1>7. GapInv(e)' /\ GapInv(p)'
  BY <1>0, <1>1, <1>3, <1>4, Zenon DEF GapInv
<1>8. DataInv(e)'
  <2>1. wire'[conn[e]][p] = wire[conn[e]][p]
    BY <1>1, <1>2, <1>6, Zenon
  <2>2. QED
    BY <1>0, <1>3, <2>1, Zenon DEF DataInv, Ended, p
<1>9. FlowInv(p)'
  <2>1. wire'[relay][p] = wire[relay][p]
    BY <1>1, <1>2, <1>6, Zenon
  <2>2. Flowing(p)' <=> Flowing(p)
    BY <1>3, Zenon DEF Flowing
  <2>3. QED
    BY <1>0, <1>1, <1>3, <2>1, <2>2, Zenon DEF FlowInv
<1>10. CASE conn[e] = relay
  <2> DEFINE G == Len(got[p])
             W == written[e]
  <2>1. Joined(e, relay) /\ ~Flowing(e)
    BY <1>3, <1>5, <1>10, Zenon DEF Joined, Flowing
  <2>2. conn[p] = relay /\ offer[relay][p] # None
    BY <1>2, <1>5, <1>10, <2>1, JoinedConn, Zenon DEF ControlInv, PairInv, p
  <2>3. wire[relay][e] = <<>> /\ offer[relay][p] = G
    BY <1>0, <2>1, <2>2, Zenon DEF FlowInv, p
  <2>4. G \in Nat /\ W \in Nat /\ gap[e] \in Seq(Nat)
    BY <1>1, <1>2, LenFacts, Zenon DEF TypeOK, SessionType
  <2>5. gap[e] = Bytes(G, W)
    BY <1>0, <1>3, <1>4, <1>10, <2>3, Zenon DEF GapInv, p
  <2>6. G <= W /\ got[p] = Bytes(0, G) /\ (finWire[relay][e] => cut[e] \/ fin[e])
    <3>1. got[p] = Bytes(0, G) /\ G + Len(<<>>) <= W /\ (finWire[relay][e] => cut[e] \/ fin[e])
      BY <1>0, <1>1, <2>2, <2>3, Zenon DEF DataInv, Ended
    <3> HIDE DEF G, W
    <3>2. QED
      BY <2>4, <3>1, EmptySeq
  <2>7. wire'[relay][e] = Bytes(G, W)
    <3>1. wire'[relay][e] = <<>> \o gap[e]
      BY <1>2, <1>3, <1>10, <2>3, Zenon DEF TypeOK, NetworkType
    <3>2. QED
      BY <2>4, <2>5, <3>1, ConcatEmptySeq, Zenon
  <2>8. G + Len(wire'[relay][e]) = W
    <3> HIDE DEF G, W
    <3>1. Len(Bytes(G, W)) = W - G
      BY <2>4, <2>6, BytesType, Zenon
    <3>2. QED
      BY <2>4, <2>7, <3>1
  <2>9. FlowInv(e)'
    BY <1>3, <1>10, <2>8, Zenon DEF FlowInv, Flowing, p
  <2>10. DataInv(p)'
    <3>1. wire'[relay][e] = Bytes(G, G + Len(wire'[relay][e]))
      BY <2>7, <2>8, Zenon
    <3>2. G + Len(wire'[relay][e]) <= W
      <4>1. W <= W
        BY <2>4
      <4>2. QED
        BY <2>8, <4>1, Zenon
    <3>3. QED
      BY <1>1, <1>3, <2>2, <2>6, <2>8, <3>1, <3>2, Zenon DEF DataInv, Ended
  <2>11. QED
    BY <1>1, <1>7, <1>8, <1>9, <2>9, <2>10, Zenon
<1>11. CASE conn[e] # relay
  <2>1. UNCHANGED wire
    BY <1>2, <1>3, <1>11, Zenon DEF TypeOK, NetworkType
  <2>2. FlowInv(e)'
    BY <1>0, <1>3, <1>5, <1>11, <2>1, Zenon DEF FlowInv, Flowing
  <2>3. DataInv(p)'
    BY <1>0, <1>1, <1>3, <2>1, ZenonT(30) DEF DataInv, Ended
  <2>4. QED
    BY <1>1, <1>7, <1>8, <1>9, <2>2, <2>3
<1>12. QED
  BY <1>10, <1>11, Zenon

LEMMA SwapInnerStream ==
  ASSUME TypeOK, ControlInv, StreamInv, NEW e \in Ends, SwapInner(e)
  PROVE  StreamInv'
<1> SUFFICES ASSUME ~raced
             PROVE  \A x \in Ends : DataInv(x)' /\ FlowInv(x)' /\ GapInv(x)'
  BY Zenon DEF SwapInner, StreamInv
<1>0. \A x \in Ends : DataInv(x) /\ FlowInv(x) /\ GapInv(x)
  BY DEF StreamInv
<1> DEFINE p == Peer(e)
<1>1. p \in Ends /\ p # e /\ Peer(p) = e /\ \A x \in Ends : x = e \/ x = p
  BY PeerFacts
<1> HIDE DEF p
<1>2. relay \in Relays /\ relay \in Nat
      /\ \A x \in Ends : conn[x] \in Relays /\ inner[x] \in Relays /\ conn[x] \in Nat
                        /\ inner[x] \in Nat
  BY RelayFacts
<1>3. /\ UNCHANGED <<relay, wire, finWire, offer, conn, gap, sent, written, got, fin, cut>>
      /\ phase[e] = "swap" /\ phase'[e] = "run" /\ phase'[p] = phase[p]
      /\ inner'[e] = conn[e] /\ inner'[p] = inner[p]
  BY <1>1, Zenon DEF SwapInner, network, counters, TypeOK, SessionType
<1>4. inner[e] < conn[e] /\ conn[e] <= relay
  BY <1>3, Zenon DEF ControlInv, ConnInv
<1>5. inner[e] # relay
  BY <1>2, <1>4
<1>6. Flowing(e)' <=> Flowing(e)
  BY <1>3, <1>5, Zenon DEF Flowing
<1>7. Flowing(p)' <=> Flowing(p)
  BY <1>3, Zenon DEF Flowing
<1>8. FlowInv(e)' /\ FlowInv(p)'
  BY <1>0, <1>1, <1>3, <1>6, <1>7, Zenon DEF FlowInv
<1>9. \A x \in Ends : DataInv(x)'
  BY <1>0, <1>3, Zenon DEF DataInv, Ended
<1>10. GapInv(e)' /\ GapInv(p)'
  BY <1>0, <1>1, <1>3, Zenon DEF GapInv
<1>11. QED
  BY <1>1, <1>8, <1>9, <1>10, Zenon

LEMMA CrashStream ==
  ASSUME TypeOK, ControlInv, StreamInv, Crash
  PROVE  StreamInv'
<1> SUFFICES ASSUME ~raced, NEW e \in Ends
             PROVE  DataInv(e)' /\ FlowInv(e)' /\ GapInv(e)'
  BY Zenon DEF Crash, StreamInv
<1> DEFINE p == Peer(e)
           next == relay + 1
<1>0. DataInv(e) /\ FlowInv(e) /\ GapInv(e)
  BY Zenon DEF StreamInv
<1>1. p \in Ends /\ Peer(p) = e
  BY PeerFacts, Zenon
<1> HIDE DEF p
<1>2. /\ relay \in Relays /\ relay \in Nat
      /\ \A x \in Ends : conn[x] \in Relays /\ conn[x] \in Nat /\ inner[x] \in Nat
  BY RelayFacts, Zenon
<1>3. UNCHANGED <<offer, conn, inner, phase, gap, sent, written, got, fin, cut>> /\ relay' = next
      /\ next \in Relays
  BY MaxCrashesAssumption DEF Crash, session, counters, TypeOK, NetworkType, Relays
<1>4. PICK kept \in [Ends -> Nat], finKept \in [Ends -> BOOLEAN] :
        /\ \A x \in Ends : /\ kept[x] <= Len(wire[relay][x])
                           /\ finKept[x] => finWire[relay][x] /\ kept[x] = Len(wire[relay][x])
        /\ wire' = [wire EXCEPT ![relay] = [x \in Ends |-> SubSeq(wire[relay][x], 1, kept[x])]]
        /\ finWire' = [finWire EXCEPT ![relay] = finKept]
  BY CrashFacts, Zenon
<1>5. /\ \A k \in Relays : k # relay => wire'[k] = wire[k] /\ finWire'[k] = finWire[k]
      /\ wire'[relay][p] = SubSeq(wire[relay][p], 1, kept[p]) /\ finWire'[relay][p] = finKept[p]
  BY <1>1, <1>2, <1>4, Zenon DEF TypeOK, NetworkType
<1>6. GapInv(e)'
  BY <1>0, <1>3, Zenon DEF GapInv
<1>7. \A x \in Ends : offer[next][x] = None /\ conn[x] # next /\ inner[x] # next
  <2> TAKE x \in Ends
  <2>1. conn[x] <= relay /\ inner[x] <= conn[x]
    BY Zenon DEF ControlInv, ConnInv
  <2>2. ~(next <= conn[x]) /\ conn[x] # next /\ inner[x] # next
    BY <1>2, <2>1
  <2>3. offer[next][x] = None
    BY <1>3, <2>2, Zenon DEF ControlInv, OfferInv
  <2>4. QED
    BY <2>2, <2>3, Zenon
<1>8. FlowInv(e)'
  <2>1. next > 0 /\ next # relay
    BY <1>2
  <2>2. wire[next][e] = <<>>
    BY <1>3, <1>7, <2>1, Unpaired, Zenon
  <2>3. ~Flowing(e)'
    BY <1>3, <1>7, Zenon DEF Flowing
  <2>4. QED
    BY <1>1, <1>3, <1>5, <1>7, <2>1, <2>2, <2>3, Zenon DEF FlowInv, p
<1>9. DataInv(e)'
  <2>1. CASE conn[e] # relay
    BY <1>0, <1>2, <1>3, <1>5, <2>1, Zenon DEF DataInv, Ended, p
  <2>2. CASE conn[e] = relay
    <3> DEFINE G == Len(got[e])
               L == Len(wire[relay][p])
               m == kept[p]
               W == written[p]
    <3>1. G \in Nat /\ L \in Nat /\ m \in Nat /\ m <= L /\ W \in Nat
      BY <1>1, <1>2, <1>4, LenFacts, Zenon
    <3>2. /\ got[e] = Bytes(0, G) /\ wire[relay][p] = Bytes(G, G + L) /\ G + L <= W
          /\ finWire[relay][p] => Ended(p, G + L)
      BY <1>0, <2>2, Zenon DEF DataInv, p
    <3>3. finKept[p] => Ended(p, G + m)
      BY <1>1, <1>4, <3>2, Zenon
    <3>4. wire'[relay][p] = SubSeq(Bytes(G, G + L), 1, m)
      BY <1>5, <3>2, Zenon
    <3> HIDE DEF G, L, m, W
    <3>5. wire'[relay][p] = Bytes(G, G + m) /\ Len(wire'[relay][p]) = m
      <4> DEFINE b == G + m
                 c == G + L
      <4>1. b \in Nat /\ c \in Nat /\ G <= b /\ b <= c /\ b - G = m
        BY <3>1
      <4> HIDE DEF b, c
      <4>2. SubSeq(Bytes(G, c), 1, b - G) = Bytes(G, b) /\ Len(Bytes(G, b)) = b - G
        BY <3>1, <4>1, BytesPrefix, BytesType, Zenon
      <4>3. QED
        BY <3>4, <4>1, <4>2, Zenon DEF b, c
    <3>6. G + m <= W
      BY <3>1, <3>2
    <3>7. QED
      BY <1>3, <1>5, <2>2, <3>2, <3>3, <3>5, <3>6, Zenon DEF DataInv, Ended, G, W, p
  <2>3. QED
    BY <2>1, <2>2, Zenon
<1>10. QED
  BY <1>6, <1>8, <1>9, Zenon

LEMMA StreamStep ==
  ASSUME TypeOK, ControlInv, StreamInv, [Next]_vars
  PROVE  StreamInv'
<1>1. CASE UNCHANGED vars
  BY <1>1, StreamFrame, Zenon DEF vars, network, session, counters
<1>2. ASSUME NEW e \in Ends, EndStep(e) PROVE StreamInv'
  <2>1. CASE OnWrite(e)
    <3>1. /\ UNCHANGED <<relay, wire, finWire, offer, conn, inner, phase, gap, written, got, fin, cut, raced>>
          /\ written[e] > sent[e] /\ sent' = [sent EXCEPT ![e] = written[e]]
      BY <2>1, Zenon DEF OnWrite, Writing, network, session
    <3>2. ASSUME ~raced, NEW x \in Ends PROVE DataInv(x)' /\ FlowInv(x)' /\ GapInv(x)'
      <4>1. DataInv(x)' /\ FlowInv(x)'
        BY <3>1, <3>2, Zenon DEF StreamInv, DataInv, Ended, FlowInv, Flowing
      <4>2. CASE x # e
        BY <3>1, <3>2, <4>1, <4>2, Zenon DEF StreamInv, GapInv, TypeOK, CounterType
      <4>3. CASE x = e
        <5>1. sent[e] \in Nat /\ written[e] \in Nat
          BY Zenon DEF TypeOK, CounterType
        <5>2. sent[e] # written[e]
          BY <3>1, <5>1
        <5>3. phase[e] \notin {"write", "swap"}
          BY <3>2, <5>2, Zenon DEF StreamInv, GapInv
        <5>4. QED
          BY <3>1, <4>1, <4>3, <5>3, Zenon DEF GapInv
      <4>4. QED
        BY <4>2, <4>3, Zenon
    <3>3. QED
      BY <3>1, <3>2, Zenon DEF StreamInv
  <2>2. CASE OnRead(e) \/ ReadEOF(e) \/ LoseConn(e) \/ EmitCheckpoint(e) \/ ApplyCheckpoint(e)
    BY <2>2, StreamFrame, Zenon DEF OnRead, ReadEOF, LoseConn, EmitCheckpoint, ApplyCheckpoint,
       network, session, counters
  <2>3. QED
    BY <1>2, <2>1, <2>2, WriteStream, ReadStream, HalfCloseStream, RedialStream,
       SendResumeStream, ReadEchoStream, ResumeFailsStream, WriteGapStream, SwapInnerStream, Zenon
       DEF EndStep
<1>3. QED
  BY <1>1, <1>2, CrashStream, Zenon DEF Next

LEMMA StreamHolds == Spec => []StreamInv
<1>1. Init => StreamInv
  <2> SUFFICES ASSUME Init, NEW e \in Ends PROVE DataInv(e) /\ FlowInv(e) /\ GapInv(e)
    BY Zenon DEF StreamInv
  <2>1. 0 \in Relays
    BY MaxCrashesAssumption DEF Relays
  <2>2. Len(<<>>) = 0 /\ <<>> = Bytes(0, 0)
    BY EmptySeq, BytesEmpty, Zenon
  <2>3. DataInv(e)
    BY <2>1, <2>2, PeerFacts DEF Init, DataInv, Ended
  <2>4. FlowInv(e)
    BY <2>1, <2>2, PeerFacts DEF Init, FlowInv, Flowing
  <2>5. GapInv(e)
    BY Zenon DEF Init, GapInv
  <2>6. QED
    BY <2>3, <2>4, <2>5, Zenon
<1>2. QED
  BY <1>1, StreamStep, TypeCorrect, ControlHolds, PTL DEF Spec

(* Over any number of relay restarts an application reads exactly the bytes *)
(* the other one wrote, in order and once, unless a Resume read a counter   *)
(* whose OnRead or OnWrite was still due.                                   *)
THEOREM BytesInOrder == Spec => []InOrderUnlessRaced
<1>1. TypeOK /\ StreamInv => InOrderUnlessRaced
  <2> SUFFICES ASSUME TypeOK, StreamInv, ~raced, NEW e \in Ends
               PROVE  got[e] = Bytes(0, Len(got[e])) /\ Len(got[e]) <= written[Peer(e)]
    BY Zenon DEF InOrderUnlessRaced
  <2> DEFINE G == Len(got[e])
             L == Len(wire[conn[e]][Peer(e)])
             W == written[Peer(e)]
  <2>1. got[e] = Bytes(0, G) /\ G + L <= W
    BY Zenon DEF StreamInv, DataInv
  <2>2. G \in Nat /\ L \in Nat /\ W \in Nat
    BY RelayFacts, PeerFacts, LenFacts, Zenon
  <2> HIDE DEF G, L, W
  <2>3. G <= W
    BY <2>1, <2>2
  <2>4. QED
    BY <2>1, <2>3, Zenon DEF G, W
<1>2. QED
  BY <1>1, StreamHolds, TypeCorrect, PTL

--------------------------------------------------------------------------------
(* The detailed stream implements the abstract pipe *)

LEMMA PipeSame ==
  /\ Pipe!Ends = Ends
  /\ \A e \in Ends : Pipe!Peer(e) = Peer(e)
  /\ \A a, b \in Nat : Pipe!Bytes(a, b) = Bytes(a, b)
BY Zenon DEF Pipe!Ends, Pipe!Peer, Pipe!Bytes, Ends, Peer, Bytes

LEMMA ReadDelivers ==
  ASSUME TypeOK, StreamInv, NEW e \in Ends, Read(e), ~raced
  PROVE  Pipe!Deliver(e)
<1> DEFINE p == Peer(e)
           w == wire[conn[e]][p]
           G == Len(got[e])
           L == Len(w)
<1>1. PICK n \in 1 .. L : got' = [got EXCEPT ![e] = @ \o SubSeq(w, 1, n)]
  BY Zenon DEF Read, Usable
<1>2. G \in Nat /\ L \in Nat /\ written[p] \in Nat
  BY PeerFacts, RelayFacts, LenFacts, Zenon
<1>3. got[e] = Bytes(0, G) /\ w = Bytes(G, G + L) /\ G + L <= written[p]
  BY Zenon DEF StreamInv, DataInv
<1>4. got[e] \o SubSeq(w, 1, n) = Bytes(0, G + n) /\ G + n \in Nat
      /\ G + n \in G + 1 .. written[p]
  <2> HIDE DEF w, G, L, p
  <2> DEFINE b == G + n
             c == G + L
             W == written[p]
  <2>1. 0 \in Nat /\ b \in Nat /\ c \in Nat /\ G <= b /\ b <= c /\ 0 <= G /\ b - G = n
        /\ b >= G + 1
    BY <1>2
  <2>2. W \in Nat /\ c <= W
    BY <1>2, <1>3, Zenon
  <2> HIDE DEF b, c, W
  <2>3. b \in G + 1 .. W
    BY <1>2, <2>1, <2>2
  <2>4. SubSeq(Bytes(G, c), 1, b - G) = Bytes(G, b) /\ Bytes(0, G) \o Bytes(G, b) = Bytes(0, b)
    BY <1>2, <2>1, BytesPrefix, BytesConcat, ZenonT(30)
  <2>5. w = Bytes(G, c)
    BY <1>3, Zenon DEF c
  <2>6. QED
    BY <1>3, <2>1, <2>3, <2>4, <2>5, Zenon DEF b, W
<1>5. got' = [got EXCEPT ![e] = Pipe!Bytes(0, G + n)]
  BY <1>1, <1>4, PipeSame, Zenon
<1>6. \E m \in G + 1 .. written[Pipe!Peer(e)] : got' = [got EXCEPT ![e] = Pipe!Bytes(0, m)]
  BY <1>4, <1>5, PipeSame, Zenon
<1>7. UNCHANGED <<written, fin, eof, cut, raced>> /\ ~eof[e]
  BY Zenon DEF Read
<1>8. QED
  BY <1>6, <1>7, Zenon DEF Pipe!Deliver

LEMMA EOFFinishes ==
  ASSUME TypeOK, StreamInv, NEW e \in Ends, ReadEOF(e), ~raced
  PROVE  Pipe!Finish(e)
<1> DEFINE G == Len(got[e])
<1>1. wire[conn[e]][Peer(e)] = <<>> /\ finWire[conn[e]][Peer(e)]
  BY Zenon DEF ReadEOF, Usable
<1>2. G \in Nat
  BY RelayFacts, LenFacts, Zenon
<1>3. Ended(Peer(e), G + Len(<<>>))
  BY <1>1, Zenon DEF StreamInv, DataInv
<1>4. cut[Peer(e)] \/ (fin[Peer(e)] /\ G = written[Peer(e)])
  <2> HIDE DEF G
  <2>1. G + Len(<<>>) = G
    BY <1>2, EmptySeq
  <2>2. QED
    BY <1>3, <2>1, Zenon DEF Ended
<1>5. QED
  BY <1>4, PipeSame, Zenon DEF ReadEOF, Pipe!Finish

LEMMA PipeStep ==
  ASSUME TypeOK, ControlInv, StreamInv, [Next]_vars
  PROVE  [Pipe!Next]_(Pipe!vars)
<1>1. ASSUME UNCHANGED <<written, got, fin, eof, cut, raced>> PROVE UNCHANGED Pipe!vars
  BY <1>1, Zenon DEF Pipe!vars
<1>2. CASE UNCHANGED vars
  BY <1>1, <1>2, Zenon DEF vars, counters
<1>3. CASE Crash
  BY <1>1, <1>3, Zenon DEF Crash, counters
<1>4. ASSUME NEW e \in Ends, EndStep(e) PROVE [Pipe!Next]_(Pipe!vars)
  <2>1. CASE Write(e)
    <3>1. PICK n \in written[e] + 1 .. MaxBytes[e] : written' = [written EXCEPT ![e] = n]
      BY <2>1, Zenon DEF Write
    <3>2. written'[e] = n /\ written'[e] > written[e]
      BY <3>1, MaxBytesAssumption DEF TypeOK, CounterType
    <3>3. ~cut[e]
      BY <2>1, Zenon DEF Write, Usable, ControlInv, CutInv
    <3>4. Pipe!Send(e)
      BY <2>1, <3>1, <3>2, <3>3, Zenon DEF Write, Pipe!Send
    <3>5. QED
      BY <3>4, PipeSame, Zenon DEF Pipe!Next
  <2>2. CASE Read(e)
    <3>1. CASE raced
      BY <2>2, <3>1, Zenon DEF Read, Pipe!Next, Pipe!Torn
    <3>2. CASE ~raced
      BY <2>2, <3>2, ReadDelivers, PipeSame, Zenon DEF Pipe!Next
    <3>3. QED
      BY <3>1, <3>2, Zenon
  <2>3. CASE ReadEOF(e)
    <3>1. CASE raced
      BY <2>3, <3>1, Zenon DEF ReadEOF, Pipe!Next, Pipe!Torn
    <3>2. CASE ~raced
      BY <2>3, <3>2, EOFFinishes, PipeSame, Zenon DEF Pipe!Next
    <3>3. QED
      BY <3>1, <3>2
  <2>4. CASE CloseWrite(e) \/ Close(e)
    <3>1. Pipe!CloseWrite(e)
      BY <2>4, Zenon DEF CloseWrite, Close, HalfClose, Pipe!CloseWrite
    <3>2. QED
      BY <3>1, PipeSame, Zenon DEF Pipe!Next
  <2>5. CASE SendResume(e) \/ ReadEcho(e)
    <3>1. /\ UNCHANGED <<written, got, fin, eof>> /\ (UNCHANGED raced \/ raced' = TRUE)
          /\ UNCHANGED cut \/ cut' = [cut EXCEPT ![e] = TRUE]
      BY <2>5, Zenon DEF SendResume, ReadEcho, counters, TypeOK, CounterType
    <3>2. CASE UNCHANGED raced
      BY <1>1, <3>1, <3>2, PipeSame, Zenon DEF Pipe!Next, Pipe!CutShort
    <3>3. CASE raced' = TRUE
      BY <3>1, <3>3, Zenon DEF Pipe!Next, Pipe!Tear
    <3>4. QED
      BY <3>1, <3>2, <3>3, Zenon
  <2>6. CASE OnWrite(e) \/ OnRead(e) \/ LoseConn(e) \/ Redial(e) \/ ResumeBroken(e)
             \/ ResumeExpired(e) \/ WriteGap(e) \/ SwapInner(e) \/ EmitCheckpoint(e)
             \/ ApplyCheckpoint(e)
    BY <1>1, <2>6, Zenon DEF OnWrite, OnRead, LoseConn, Redial, ResumeBroken, ResumeExpired, WriteGap,
       SwapInner, EmitCheckpoint, ApplyCheckpoint, counters
  <2>7. QED
    BY <1>4, <2>1, <2>2, <2>3, <2>4, <2>5, <2>6, Zenon DEF EndStep
<1>5. QED
  BY <1>2, <1>3, <1>4, Zenon DEF Next

(* The wrappers, rings, checkpoints, resumes and relays together implement  *)
(* the reliable pipe of BytePipe.                                           *)
THEOREM StreamIsAPipe == Spec => ImplementsPipe
<1>1. Init => Pipe!Init
  BY Zenon DEF Init, Pipe!Init, Ends, Pipe!Ends
<1>2. QED
  BY <1>1, PipeStep, StreamHolds, ControlHolds, TypeCorrect, PTL DEF Spec, Pipe!Spec, ImplementsPipe

================================================================================
