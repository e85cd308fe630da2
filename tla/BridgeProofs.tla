----------------------------- MODULE BridgeProofs -----------------------------
(***************************************************************************)
(* Proofs about Bridge, for any number of bytes, any window and any number *)
(* of failures.                                                            *)
(***************************************************************************)
EXTENDS Bridge, ByteRangeProofs

(* How far the bytes that end b writes have come: to the application at the *)
(* other end, its local connection, its bridge, the stream, b's bridge and  *)
(* b's local connection.                                                    *)
P1(b) == Len(in[Peer(b)])
P2(b) == P1(b) + Len(toApp[Peer(b)])
P3(b) == P2(b) + Len(buf[Peer(b)]["in"])
P4(b) == P3(b) + Len(net[b])
P5(b) == P4(b) + Len(buf[b]["out"])
P6(b) == P5(b) + Len(toAgent[b])

(* The application that reads b's bytes is alive, and its bridge still      *)
(* takes them off the stream.                                               *)
Hears(b) == "app" \notin lost[Peer(b)]
Flows(b) == Hears(b) /\ "in" \in running[Peer(b)]

(* The bridge at b still writes them to the stream. *)
Sends(b) == "out" \in running[b] /\ "stream" \notin lost[b]

(* Each of these places holds the bytes that follow those of the place      *)
(* before it, as far as anybody will still move them on.                    *)
ChainInv(b) ==
  /\ in[Peer(b)] = Bytes(0, P1(b))
  /\ Hears(b) => toApp[Peer(b)] = Bytes(P1(b), P2(b))
  /\ Flows(b) => /\ buf[Peer(b)]["in"] = Bytes(P2(b), P3(b))
                 /\ net[b] = Bytes(P3(b), P4(b))
  /\ Flows(b) /\ Sends(b) =>
       /\ buf[b]["out"] = Bytes(P4(b), P5(b))
       /\ "app" \notin lost[b] => toAgent[b] = Bytes(P5(b), P6(b)) /\ P6(b) = out[b]
  /\ P6(b) <= out[b]

(* Unless something failed, no byte is missing, and an end of file follows  *)
(* the last one from place to place.                                        *)
FinInv(b) ==
  ~Broken =>
    /\ "out" \notin running[b] => fin[b] /\ toAgent[b] = <<>> /\ buf[b]["out"] = <<>>
    /\ netFin[b] => "out" \notin running[b]
    /\ "in" \notin running[Peer(b)] =>
         netFin[b] /\ net[b] = <<>> /\ buf[Peer(b)]["in"] = <<>>
    /\ toAppFin[Peer(b)] => "in" \notin running[Peer(b)]
    /\ P6(b) = out[b]

BridgeInv ==
  /\ TypeOK
  /\ \A b \in Ends : ChainInv(b) /\ FinInv(b)
  /\ \A b \in closed : running[b] = {}

LEMMA ChainFrame ==
  ASSUME NEW x \in Ends, ChainInv(x),
         out'[x] = out[x],
         in'[Peer(x)] = in[Peer(x)], toApp'[Peer(x)] = toApp[Peer(x)],
         buf'[Peer(x)]["in"] = buf[Peer(x)]["in"], net'[x] = net[x],
         buf'[x]["out"] = buf[x]["out"], toAgent'[x] = toAgent[x],
         \A y \in Ends : running'[y] \subseteq running[y] /\ lost[y] \subseteq lost'[y]
  PROVE  ChainInv(x)'
BY PeerFacts, Zenon DEF ChainInv, P1, P2, P3, P4, P5, P6, Hears, Flows, Sends

(* The variables at one end. *)
LEMMA Types ==
  ASSUME TypeOK, NEW e \in Ends
  PROVE  /\ out[e] \in Nat
         /\ in[e] \in Seq(Nat) /\ toAgent[e] \in Seq(Nat)
         /\ net[e] \in Seq(Nat) /\ toApp[e] \in Seq(Nat)
         /\ buf[e]["out"] \in Seq(Nat) /\ buf[e]["in"] \in Seq(Nat)
BY DEF TypeOK, Loops

LEMMA Places ==
  ASSUME TypeOK, NEW b \in Ends
  PROVE  /\ P1(b) \in Nat /\ P2(b) \in Nat /\ P3(b) \in Nat
         /\ P4(b) \in Nat /\ P5(b) \in Nat /\ P6(b) \in Nat
         /\ P1(b) <= P2(b) /\ P2(b) <= P3(b) /\ P3(b) <= P4(b)
         /\ P4(b) <= P5(b) /\ P5(b) <= P6(b)
<1> DEFINE p == Peer(b)
           m == Len(buf[p]["in"])
           n == Len(buf[b]["out"])
<1>0. p \in Ends
  BY PeerFacts, Zenon
<1>1. /\ Len(in[p]) \in Nat /\ Len(toApp[p]) \in Nat /\ m \in Nat
      /\ Len(net[b]) \in Nat /\ n \in Nat /\ Len(toAgent[b]) \in Nat
  BY <1>0, Types, SMTT(30)
<1>a. P3(b) = P2(b) + m /\ P5(b) = P4(b) + n
  BY Zenon DEF P3, P5
<1> HIDE DEF m, n
<1>2. P1(b) \in Nat
  BY <1>1, Zenon DEF P1
<1>3. P2(b) \in Nat /\ P1(b) <= P2(b)
  BY <1>1, <1>2 DEF P2
<1>4. P3(b) \in Nat /\ P2(b) <= P3(b)
  BY <1>1, <1>3, <1>a
<1>5. P4(b) \in Nat /\ P3(b) <= P4(b)
  BY <1>1, <1>4 DEF P4
<1>6. P5(b) \in Nat /\ P4(b) <= P5(b)
  BY <1>1, <1>5, <1>a
<1>7. P6(b) \in Nat /\ P5(b) <= P6(b)
  BY <1>1, <1>6 DEF P6
<1>8. QED
  BY <1>2, <1>3, <1>4, <1>5, <1>6, <1>7, Zenon

(* An assignment to one buffer. *)
SetBuf(e, c, v) == buf' = [buf EXCEPT ![e][c] = v]

LEMMA BufSet ==
  ASSUME TypeOK, NEW e \in Ends, NEW c \in Loops, NEW v \in Seq(Nat), SetBuf(e, c, v)
  PROVE  /\ buf' \in [Ends -> [Loops -> Seq(Nat)]]
         /\ buf'[e][c] = v
         /\ \A y \in Ends, d \in Loops : y # e \/ d # c => buf'[y][d] = buf[y][d]
<1>1. buf \in [Ends -> [Loops -> Seq(Nat)]]
  BY Zenon DEF TypeOK
<1>2. buf[e] \in [Loops -> Seq(Nat)]
  BY <1>1, Zenon
<1>3. buf' = [buf EXCEPT ![e] = [buf[e] EXCEPT ![c] = v]]
  BY <1>1, Zenon DEF SetBuf
<1>4. QED
  BY <1>1, <1>2, <1>3, Zenon

LEMMA LoopFacts == "in" \in Loops /\ "out" \in Loops /\ "in" # "out" /\ <<>> \in Seq(Nat)
BY DEF Loops

LEMMA BufOut ==
  ASSUME TypeOK, NEW e \in Ends, NEW v \in Seq(Nat), SetBuf(e, "out", v)
  PROVE  /\ buf' \in [Ends -> [Loops -> Seq(Nat)]]
         /\ buf'[e]["out"] = v /\ buf'[e]["in"] = buf[e]["in"]
         /\ buf'[Peer(e)]["out"] = buf[Peer(e)]["out"] /\ buf'[Peer(e)]["in"] = buf[Peer(e)]["in"]
<1>1. /\ buf' \in [Ends -> [Loops -> Seq(Nat)]] /\ buf'[e]["out"] = v
      /\ \A y \in Ends, d \in Loops : y # e \/ d # "out" => buf'[y][d] = buf[y][d]
  BY LoopFacts, BufSet, Zenon
<1>2. QED
  BY <1>1, LoopFacts, PeerFacts, Zenon

LEMMA BufIn ==
  ASSUME TypeOK, NEW e \in Ends, NEW v \in Seq(Nat), SetBuf(e, "in", v)
  PROVE  /\ buf' \in [Ends -> [Loops -> Seq(Nat)]]
         /\ buf'[e]["in"] = v /\ buf'[e]["out"] = buf[e]["out"]
         /\ buf'[Peer(e)]["in"] = buf[Peer(e)]["in"] /\ buf'[Peer(e)]["out"] = buf[Peer(e)]["out"]
<1>1. /\ buf' \in [Ends -> [Loops -> Seq(Nat)]] /\ buf'[e]["in"] = v
      /\ \A y \in Ends, d \in Loops : y # e \/ d # "in" => buf'[y][d] = buf[y][d]
  BY LoopFacts, BufSet, ZenonT(30)
<1>2. QED
  BY <1>1, LoopFacts, PeerFacts, Zenon

(* A byte is written to the stream. *)
LEMMA CopyWriteOut ==
  ASSUME BridgeInv, NEW b \in Ends, CopyWrite(b, "out")
  PROVE  BridgeInv'
<1> DEFINE p == Peer(b)
           v == buf[b]["out"]
<1>0. p \in Ends /\ p # b /\ Peer(p) = b /\ TypeOK
  BY PeerFacts, Zenon DEF BridgeInv
<1>1. v \in Seq(Nat) /\ v # <<>>
  BY <1>0, Types, Zenon DEF CopyWrite
<1>2. Head(v) \in Nat /\ Tail(v) \in Seq(Nat) /\ Len(Tail(v)) = Len(v) - 1 /\ Len(v) \in Nat
  BY <1>1
<1>3. /\ net' = [net EXCEPT ![b] = Append(@, Head(v))]
      /\ buf' = [buf EXCEPT ![b]["out"] = Tail(v)]
      /\ UNCHANGED <<out, in, fin, eof, toAgent, netFin, toApp, toAppFin, running, lost, closed>>
      /\ "out" \in running[b] /\ b \notin closed
  BY Zenon DEF CopyWrite, Working, apps
<1> HIDE DEF v
<1>4. /\ buf' \in [Ends -> [Loops -> Seq(Nat)]]
      /\ buf'[b]["out"] = Tail(v) /\ buf'[b]["in"] = buf[b]["in"]
      /\ buf'[p]["out"] = buf[p]["out"] /\ buf'[p]["in"] = buf[p]["in"]
  <2>1. SetBuf(b, "out", Tail(v))
    BY <1>3, Zenon DEF SetBuf
  <2>2. QED
    BY <1>0, <1>2, <2>1, LoopFacts, BufOut, Zenon
<1>5. /\ net' \in [Ends -> Seq(Nat)]
      /\ net'[b] = Append(net[b], Head(v)) /\ net'[p] = net[p]
  BY <1>0, <1>2, <1>3, SMTT(30) DEF TypeOK
<1>6. TypeOK'
  BY <1>0, <1>3, <1>4, <1>5, Zenon DEF TypeOK
<1>7. /\ P1(b)' = P1(b) /\ P2(b)' = P2(b) /\ P3(b)' = P3(b)
      /\ P4(b)' = P4(b) + 1 /\ P5(b)' = P5(b) /\ P6(b)' = P6(b) /\ P5(b) > P4(b)
  <2>1. Len(net'[b]) = Len(net[b]) + 1 /\ Len(net[b]) \in Nat /\ Len(toAgent[b]) \in Nat
    BY <1>0, <1>2, <1>5, Types
  <2>2. P1(b)' = P1(b) /\ P2(b)' = P2(b) /\ P3(b)' = P3(b)
    BY <1>3, <1>4, Zenon DEF P1, P2, P3
  <2>3. P3(b) \in Nat
    BY <1>0, Places, Zenon
  <2>4. P4(b)' = P4(b) + 1
    BY <2>1, <2>2, <2>3 DEF P4
  <2>5. P4(b) \in Nat /\ P5(b)' = P5(b) /\ P5(b) > P4(b)
    <3>1. P5(b) = P4(b) + Len(v) /\ P5(b)' = P4(b)' + Len(Tail(v))
      BY <1>4, Zenon DEF P5, v
    <3>2. P4(b) \in Nat /\ Len(v) # 0
      BY <1>0, <1>1, Places
    <3>3. QED
      BY <3>1, <3>2, <1>2, <2>4
  <2>6. P6(b)' = P6(b)
    BY <1>3, <2>5, Zenon DEF P6
  <2>7. QED
    BY <2>2, <2>4, <2>5, <2>6, Zenon
<1>8. ChainInv(b)'
  <2>1. ASSUME Flows(b)
        PROVE  net'[b] = Bytes(P3(b), P4(b) + 1) /\ buf'[b]["out"] = Bytes(P4(b) + 1, P5(b))
    <3>0. Sends(b)
      BY Zenon DEF CopyWrite, Working, Target, Sends
    <3>1. net[b] = Bytes(P3(b), P4(b)) /\ v = Bytes(P4(b), P5(b))
      BY <2>1, <3>0, <1>3, Zenon DEF BridgeInv, ChainInv, v
    <3>2. P3(b) \in Nat /\ P4(b) \in Nat /\ P5(b) \in Nat /\ P3(b) <= P4(b)
      BY <1>0, Places, Zenon
    <3>3. Head(v) = P4(b) + 1 /\ Tail(v) = Bytes(P4(b) + 1, P5(b))
      BY <3>1, <3>2, <1>7, BytesHeadTail, Zenon
    <3>4. QED
      BY <3>1, <3>2, <3>3, <1>4, <1>5, BytesAppend, Zenon
  <2>2. /\ ChainInv(b) /\ (Flows(b)' <=> Flows(b)) /\ (Hears(b)' <=> Hears(b))
        /\ Sends(b)' => Sends(b)
    BY <1>3, Zenon DEF BridgeInv, Flows, Sends, Hears
  <2>3. QED
    BY <2>1, <2>2, <1>3, <1>4, <1>7, Zenon DEF ChainInv
<1>9. ChainInv(p)'
  BY <1>0, <1>3, <1>4, <1>5, ChainFrame, Zenon DEF BridgeInv
<1>10. FinInv(b)' /\ FinInv(p)'
  <2>1. Broken' <=> Broken
    BY <1>3, Zenon DEF Broken
  <2>2. P6(p)' = P6(p)
    BY <1>0, <1>3, <1>4, <1>5, Zenon DEF P1, P2, P3, P4, P5, P6
  <2>3. FinInv(p)'
    BY <1>0, <1>3, <1>4, <1>5, <2>1, <2>2, SMTT(30) DEF BridgeInv, FinInv
  <2>4. ~Broken => "in" \in running[p]
    BY <1>0, <1>3, Zenon DEF BridgeInv, FinInv
  <2>5. FinInv(b)'
    BY <1>0, <1>3, <1>4, <1>7, <2>1, <2>4, Zenon DEF BridgeInv, FinInv
  <2>6. QED
    BY <2>3, <2>5, Zenon
<1>11. QED
  BY <1>0, <1>3, <1>6, <1>8, <1>9, <1>10, PeerFacts, Zenon DEF BridgeInv

(* A step that leaves the way of end x's bytes alone. *)
LEMMA Frame ==
  ASSUME NEW x \in Ends, ChainInv(x), FinInv(x),
         out'[x] = out[x], fin'[x] = fin[x], netFin'[x] = netFin[x],
         in'[Peer(x)] = in[Peer(x)], toApp'[Peer(x)] = toApp[Peer(x)],
         toAppFin'[Peer(x)] = toAppFin[Peer(x)],
         buf'[Peer(x)]["in"] = buf[Peer(x)]["in"], net'[x] = net[x],
         buf'[x]["out"] = buf[x]["out"], toAgent'[x] = toAgent[x],
         \A y \in Ends : running'[y] = running[y] /\ lost[y] \subseteq lost'[y]
  PROVE  ChainInv(x)' /\ FinInv(x)'
<1>1. ChainInv(x)'
  BY ChainFrame, Zenon
<1>2. Broken => Broken'
  BY Zenon DEF Broken
<1>3. P6(x)' = P6(x)
  BY Zenon DEF P1, P2, P3, P4, P5, P6
<1>4. FinInv(x)'
  BY <1>2, <1>3, PeerFacts, Zenon DEF FinInv
<1>5. QED
  BY <1>1, <1>4, Zenon

LEMMA AppWriteStep ==
  ASSUME BridgeInv, NEW b \in Ends, AppWrite(b)
  PROVE  BridgeInv'
<1> DEFINE p == Peer(b)
           n == out[b] + 1
<1>0. p \in Ends /\ p # b /\ Peer(p) = b /\ TypeOK
  BY PeerFacts, Zenon DEF BridgeInv
<1>1. n \in Nat /\ out[b] \in Nat /\ toAgent[b] \in Seq(Nat)
  BY <1>0, Types
<1>2. /\ out' = [out EXCEPT ![b] = n]
      /\ toAgent' = [toAgent EXCEPT ![b] = Append(@, n)]
      /\ UNCHANGED <<in, fin, eof, net, netFin, toApp, toAppFin, buf, running, lost, closed>>
      /\ ~fin[b]
  BY Zenon DEF AppWrite
<1> HIDE DEF n
<1>3. /\ toAgent' \in [Ends -> Seq(Nat)] /\ out' \in [Ends -> Nat]
      /\ toAgent'[b] = Append(toAgent[b], n) /\ toAgent'[p] = toAgent[p]
      /\ out'[b] = n /\ out'[p] = out[p]
  BY <1>0, <1>1, <1>2, SMTT(30) DEF TypeOK
<1>4. TypeOK'
  BY <1>0, <1>2, <1>3, Zenon DEF TypeOK
<1>5. /\ P1(b)' = P1(b) /\ P2(b)' = P2(b) /\ P3(b)' = P3(b)
      /\ P4(b)' = P4(b) /\ P5(b)' = P5(b) /\ P6(b)' = P6(b) + 1
  <2>1. Len(toAgent'[b]) = Len(toAgent[b]) + 1 /\ Len(toAgent[b]) \in Nat
    BY <1>1, <1>3
  <2>2. /\ P1(b)' = P1(b) /\ P2(b)' = P2(b) /\ P3(b)' = P3(b)
        /\ P4(b)' = P4(b) /\ P5(b)' = P5(b) /\ P5(b) \in Nat
    BY <1>0, <1>2, Places, Zenon DEF P1, P2, P3, P4, P5
  <2>3. QED
    BY <2>1, <2>2 DEF P6
<1>6. /\ ChainInv(b) /\ (Flows(b)' <=> Flows(b)) /\ (Hears(b)' <=> Hears(b))
      /\ Sends(b)' => Sends(b)
      /\ FinInv(b) /\ (Broken' <=> Broken)
  BY <1>2, Zenon DEF BridgeInv, Flows, Sends, Hears, Broken
<1>7. P5(b) \in Nat /\ P6(b) \in Nat /\ P5(b) <= P6(b) /\ P6(b) <= out[b]
  BY <1>0, <1>6, Places, Zenon DEF ChainInv
<1>8. ChainInv(b)'
  <2>1. ASSUME toAgent[b] = Bytes(P5(b), P6(b)), P6(b) = out[b]
        PROVE  toAgent'[b] = Bytes(P5(b), P6(b) + 1) /\ P6(b) + 1 = out'[b]
    BY <2>1, <1>3, <1>7, BytesAppend, Zenon DEF n
  <2>2. P6(b) + 1 <= out'[b]
    BY <1>1, <1>3, <1>7 DEF n
  <2>3. QED
    BY <2>1, <2>2, <1>2, <1>5, <1>6, Zenon DEF ChainInv
<1>9. FinInv(b)'
  <2>1. P6(b) = out[b] => P6(b)' = out'[b]
    BY <1>3, <1>5, <1>7, Zenon DEF n
  <2>2. QED
    BY <2>1, <1>0, <1>2, <1>6, Zenon DEF FinInv
<1>10. ChainInv(p)' /\ FinInv(p)'
  BY <1>0, <1>2, <1>3, Frame, Zenon DEF BridgeInv
<1>11. QED
  BY <1>0, <1>2, <1>4, <1>8, <1>9, <1>10, PeerFacts, Zenon DEF BridgeInv

LEMMA AppReadStep ==
  ASSUME BridgeInv, NEW p \in Ends, AppRead(p)
  PROVE  BridgeInv'
<1> DEFINE b == Peer(p)
           v == toApp[p]
<1>0. b \in Ends /\ p # b /\ Peer(b) = p /\ TypeOK
  BY PeerFacts, Zenon DEF BridgeInv
<1>1. v \in Seq(Nat) /\ in[p] \in Seq(Nat)
  BY <1>0, Types, Zenon
<1>2. /\ in' = [in EXCEPT ![p] = @ \o v]
      /\ toApp' = [toApp EXCEPT ![p] = <<>>]
      /\ UNCHANGED <<out, fin, eof, toAgent, net, netFin, toAppFin, buf, running, lost, closed>>
      /\ "app" \notin lost[p]
  BY Zenon DEF AppRead
<1>3. v = toApp[p]
  OBVIOUS
<1> HIDE DEF v, b
<1>4. /\ in' \in [Ends -> Seq(Nat)] /\ toApp' \in [Ends -> Seq(Nat)]
      /\ in'[p] = in[p] \o v /\ in'[b] = in[b]
      /\ toApp'[p] = <<>> /\ toApp'[b] = toApp[b]
  BY <1>0, <1>1, <1>2, SMTT(30) DEF TypeOK
<1>5. TypeOK'
  BY <1>0, <1>2, <1>4, Zenon DEF TypeOK
<1>6. /\ P1(b)' = P2(b) /\ P2(b)' = P2(b) /\ P3(b)' = P3(b)
      /\ P4(b)' = P4(b) /\ P5(b)' = P5(b) /\ P6(b)' = P6(b)
  <2>1. Len(in'[p]) = Len(in[p]) + Len(v) /\ Len(toApp'[p]) = 0 /\ Len(in[p]) \in Nat /\ Len(v) \in Nat
    BY <1>1, <1>4
  <2>2. P1(b)' = P2(b) /\ P2(b)' = P2(b)
    BY <1>0, <1>3, <2>1 DEF P1, P2
  <2>3. QED
    BY <2>2, <1>2, Zenon DEF P3, P4, P5, P6
<1>7. /\ ChainInv(b) /\ (Flows(b)' <=> Flows(b)) /\ Hears(b) /\ Hears(b)'
      /\ Sends(b)' => Sends(b)
      /\ FinInv(b) /\ (Broken' <=> Broken)
  BY <1>0, <1>2, Zenon DEF BridgeInv, Flows, Sends, Hears, Broken
<1>8. ChainInv(b)'
  <2>1. P1(b) \in Nat /\ P2(b) \in Nat /\ P1(b) <= P2(b) /\ 0 <= P1(b) /\ 0 \in Nat
    BY <1>0, Places
  <2>2. in[p] = Bytes(0, P1(b)) /\ v = Bytes(P1(b), P2(b))
    BY <1>0, <1>3, <1>7, Zenon DEF ChainInv
  <2>3. in'[p] = Bytes(0, P2(b)) /\ toApp'[p] = Bytes(P2(b), P2(b))
    BY <1>4, <2>1, <2>2, BytesConcat, BytesEmpty, ZenonT(30)
  <2>4. QED
    BY <2>3, <1>0, <1>2, <1>6, <1>7, Zenon DEF ChainInv
<1>9. FinInv(b)'
  BY <1>0, <1>2, <1>6, <1>7, Zenon DEF FinInv
<1>10. ChainInv(p)' /\ FinInv(p)'
  BY <1>0, <1>2, <1>4, Frame, Zenon DEF BridgeInv, b
<1>11. QED
  BY <1>0, <1>2, <1>5, <1>8, <1>9, <1>10, PeerFacts, Zenon DEF BridgeInv, b

(* A loop takes what its source holds. *)
LEMMA CopyReadOut ==
  ASSUME BridgeInv, NEW b \in Ends, CopyRead(b, "out")
  PROVE  BridgeInv'
<1> DEFINE p == Peer(b)
           v == toAgent[b]
<1>0. p \in Ends /\ p # b /\ Peer(p) = b /\ TypeOK
  BY PeerFacts, Zenon DEF BridgeInv
<1>1. v \in Seq(Nat)
  BY <1>0, Types, Zenon
<1>2. /\ buf' = [buf EXCEPT ![b]["out"] = v]
      /\ toAgent' = [toAgent EXCEPT ![b] = <<>>]
      /\ UNCHANGED <<out, in, fin, eof, net, netFin, toApp, toAppFin, running, lost, closed>>
      /\ "out" \in running[b] /\ "app" \notin lost[b] /\ buf[b]["out"] = <<>>
  BY Zenon DEF CopyRead, Working, Source, apps
<1>3. v = toAgent[b]
  OBVIOUS
<1> HIDE DEF v
<1>4. /\ buf' \in [Ends -> [Loops -> Seq(Nat)]]
      /\ buf'[b]["out"] = v /\ buf'[b]["in"] = buf[b]["in"]
      /\ buf'[p]["out"] = buf[p]["out"] /\ buf'[p]["in"] = buf[p]["in"]
  <2>1. SetBuf(b, "out", v)
    BY <1>2, Zenon DEF SetBuf
  <2>2. QED
    BY <1>0, <1>1, <2>1, LoopFacts, BufOut, Zenon
<1>5. /\ toAgent' \in [Ends -> Seq(Nat)]
      /\ toAgent'[b] = <<>> /\ toAgent'[p] = toAgent[p]
  BY <1>0, <1>2 DEF TypeOK
<1>6. TypeOK'
  BY <1>0, <1>2, <1>4, <1>5, Zenon DEF TypeOK
<1>7. /\ P1(b)' = P1(b) /\ P2(b)' = P2(b) /\ P3(b)' = P3(b)
      /\ P4(b)' = P4(b) /\ P5(b)' = P6(b) /\ P6(b)' = P6(b) /\ P5(b) = P4(b)
  <2>1. Len(toAgent'[b]) = 0 /\ Len(v) \in Nat
    BY <1>1, <1>5
  <2>2. P1(b)' = P1(b) /\ P2(b)' = P2(b) /\ P3(b)' = P3(b) /\ P4(b)' = P4(b)
    BY <1>2, <1>4, Zenon DEF P1, P2, P3, P4
  <2>3. P5(b) = P4(b) + Len(<<>>) /\ P5(b)' = P4(b)' + Len(v) /\ P6(b) = P5(b) + Len(v)
        /\ P6(b)' = P5(b)' + Len(toAgent'[b])
    BY <1>2, <1>3, <1>4, Zenon DEF P5, P6
  <2>4. P4(b) \in Nat /\ Len(<<>>) = 0
    BY <1>0, Places, Zenon
  <2>5. QED
    BY <2>1, <2>2, <2>3, <2>4
<1>8. /\ ChainInv(b) /\ (Flows(b)' <=> Flows(b)) /\ (Hears(b)' <=> Hears(b))
      /\ Sends(b)' => Sends(b)
      /\ FinInv(b) /\ (Broken' <=> Broken)
  BY <1>2, Zenon DEF BridgeInv, Flows, Sends, Hears, Broken
<1>9. ChainInv(b)'
  <2>1. ASSUME Flows(b), Sends(b)
        PROVE  buf'[b]["out"] = Bytes(P4(b), P6(b)) /\ toAgent'[b] = Bytes(P6(b), P6(b))
               /\ P6(b) = out[b]
    <3>1. v = Bytes(P4(b), P6(b)) /\ P6(b) = out[b]
      BY <2>1, <1>2, <1>3, <1>7, <1>8, Zenon DEF ChainInv
    <3>2. QED
      BY <3>1, <1>0, <1>4, <1>5, Places, BytesEmpty, Zenon
  <2>2. QED
    BY <2>1, <1>2, <1>4, <1>7, <1>8, Zenon DEF ChainInv
<1>10. FinInv(b)'
  BY <1>0, <1>2, <1>4, <1>7, <1>8, Zenon DEF FinInv
<1>11. ChainInv(p)' /\ FinInv(p)'
  BY <1>0, <1>2, <1>4, <1>5, Frame, Zenon DEF BridgeInv
<1>12. QED
  BY <1>0, <1>2, <1>6, <1>9, <1>10, <1>11, PeerFacts, Zenon DEF BridgeInv

LEMMA CopyReadIn ==
  ASSUME BridgeInv, NEW p \in Ends, CopyRead(p, "in")
  PROVE  BridgeInv'
<1> DEFINE b == Peer(p)
           v == net[b]
<1>0. b \in Ends /\ p # b /\ Peer(b) = p /\ TypeOK
  BY PeerFacts, Zenon DEF BridgeInv
<1>1. v \in Seq(Nat)
  BY <1>0, Types, Zenon
<1>2. /\ buf' = [buf EXCEPT ![p]["in"] = v]
      /\ net' = [net EXCEPT ![b] = <<>>]
      /\ UNCHANGED <<out, in, fin, eof, toAgent, netFin, toApp, toAppFin, running, lost, closed>>
      /\ "in" \in running[p] /\ buf[p]["in"] = <<>>
  BY Zenon DEF CopyRead, Working, apps
<1>3. v = net[b]
  OBVIOUS
<1> HIDE DEF v, b
<1>4. /\ buf' \in [Ends -> [Loops -> Seq(Nat)]]
      /\ buf'[p]["in"] = v /\ buf'[p]["out"] = buf[p]["out"]
      /\ buf'[b]["out"] = buf[b]["out"] /\ buf'[b]["in"] = buf[b]["in"]
  <2>1. SetBuf(p, "in", v)
    BY <1>2, Zenon DEF SetBuf
  <2>2. QED
    BY <1>0, <1>1, <2>1, LoopFacts, BufIn, Zenon DEF b
<1>5. /\ net' \in [Ends -> Seq(Nat)]
      /\ net'[b] = <<>> /\ net'[p] = net[p]
  BY <1>0, <1>2 DEF TypeOK
<1>6. TypeOK'
  BY <1>0, <1>2, <1>4, <1>5, Zenon DEF TypeOK
<1>7. /\ P1(b)' = P1(b) /\ P2(b)' = P2(b) /\ P3(b)' = P4(b)
      /\ P4(b)' = P4(b) /\ P5(b)' = P5(b) /\ P6(b)' = P6(b) /\ P3(b) = P2(b)
  <2>1. Len(net'[b]) = 0 /\ Len(v) \in Nat
    BY <1>1, <1>5
  <2>2. P1(b)' = P1(b) /\ P2(b)' = P2(b)
    BY <1>2, Zenon DEF P1, P2
  <2>3. P3(b) = P2(b) + Len(<<>>) /\ P3(b)' = P2(b)' + Len(v) /\ P4(b) = P3(b) + Len(v)
        /\ P4(b)' = P3(b)' + Len(net'[b])
    BY <1>0, <1>2, <1>3, <1>4, Zenon DEF P3, P4
  <2>4. P2(b) \in Nat /\ Len(<<>>) = 0
    BY <1>0, Places, Zenon
  <2>5. P3(b)' = P4(b) /\ P4(b)' = P4(b) /\ P3(b) = P2(b)
    BY <2>1, <2>2, <2>3, <2>4
  <2>6. QED
    BY <2>2, <2>5, <1>2, <1>4, Zenon DEF P5, P6
<1>8. /\ ChainInv(b) /\ (Flows(b)' <=> Flows(b)) /\ (Hears(b)' <=> Hears(b))
      /\ Sends(b)' => Sends(b)
      /\ FinInv(b) /\ (Broken' <=> Broken)
  BY <1>0, <1>2, Zenon DEF BridgeInv, Flows, Sends, Hears, Broken
<1>9. ChainInv(b)'
  <2>1. ASSUME Flows(b)
        PROVE  buf'[p]["in"] = Bytes(P2(b), P4(b)) /\ net'[b] = Bytes(P4(b), P4(b))
    <3>1. v = Bytes(P2(b), P4(b))
      BY <2>1, <1>3, <1>7, <1>8, Zenon DEF ChainInv
    <3>2. QED
      BY <3>1, <1>0, <1>4, <1>5, Places, BytesEmpty, Zenon
  <2>2. QED
    BY <2>1, <1>0, <1>2, <1>4, <1>7, <1>8, Zenon DEF ChainInv
<1>10. FinInv(b)'
  BY <1>0, <1>2, <1>4, <1>7, <1>8, Zenon DEF FinInv
<1>11. ChainInv(p)' /\ FinInv(p)'
  BY <1>0, <1>2, <1>4, <1>5, Frame, SMTT(30) DEF BridgeInv, b
<1>12. QED
  BY <1>0, <1>2, <1>6, <1>9, <1>10, <1>11, PeerFacts, Zenon DEF BridgeInv, b

(* A loop writes what it holds to its application. *)
LEMMA CopyWriteIn ==
  ASSUME BridgeInv, NEW p \in Ends, CopyWrite(p, "in")
  PROVE  BridgeInv'
<1> DEFINE b == Peer(p)
           v == buf[p]["in"]
<1>0. b \in Ends /\ p # b /\ Peer(b) = p /\ TypeOK
  BY PeerFacts, Zenon DEF BridgeInv
<1>1. v \in Seq(Nat) /\ toApp[p] \in Seq(Nat)
  BY <1>0, Types, Zenon
<1>2. /\ toApp' = [toApp EXCEPT ![p] = @ \o v]
      /\ buf' = [buf EXCEPT ![p]["in"] = <<>>]
      /\ UNCHANGED <<out, in, fin, eof, toAgent, net, netFin, toAppFin, running, lost, closed>>
      /\ "in" \in running[p] /\ "app" \notin lost[p]
  BY Zenon DEF CopyWrite, Working, Target, apps
<1>3. v = buf[p]["in"]
  OBVIOUS
<1> HIDE DEF v, b
<1>4. /\ buf' \in [Ends -> [Loops -> Seq(Nat)]]
      /\ buf'[p]["in"] = <<>> /\ buf'[p]["out"] = buf[p]["out"]
      /\ buf'[b]["out"] = buf[b]["out"] /\ buf'[b]["in"] = buf[b]["in"]
  <2>1. SetBuf(p, "in", <<>>)
    BY <1>2, Zenon DEF SetBuf
  <2>2. QED
    BY <1>0, <1>1, <2>1, LoopFacts, BufIn, Zenon DEF b
<1>5. /\ toApp' \in [Ends -> Seq(Nat)]
      /\ toApp'[p] = toApp[p] \o v /\ toApp'[b] = toApp[b]
  BY <1>0, <1>1, <1>2, SMTT(30) DEF TypeOK
<1>6. TypeOK'
  BY <1>0, <1>2, <1>4, <1>5, Zenon DEF TypeOK
<1>7. /\ P1(b)' = P1(b) /\ P2(b)' = P3(b) /\ P3(b)' = P3(b)
      /\ P4(b)' = P4(b) /\ P5(b)' = P5(b) /\ P6(b)' = P6(b)
  <2>1. Len(toApp'[p]) = Len(toApp[p]) + Len(v) /\ Len(v) \in Nat /\ Len(toApp[p]) \in Nat
    BY <1>1, <1>5
  <2>2. P1(b)' = P1(b) /\ P1(b) \in Nat /\ Len(<<>>) = 0
    BY <1>0, <1>2, Places, Zenon DEF P1
  <2>3. /\ P2(b) = P1(b) + Len(toApp[p]) /\ P2(b)' = P1(b)' + Len(toApp'[p])
        /\ P3(b) = P2(b) + Len(v) /\ P3(b)' = P2(b)' + Len(<<>>)
    BY <1>0, <1>3, <1>4, Zenon DEF P2, P3
  <2>4. P2(b)' = P3(b) /\ P3(b)' = P3(b)
    BY <2>1, <2>2, <2>3
  <2>5. QED
    BY <2>2, <2>4, <1>2, <1>4, Zenon DEF P4, P5, P6
<1>8. /\ ChainInv(b) /\ Flows(b) /\ Flows(b)' /\ Hears(b) /\ Hears(b)'
      /\ Sends(b)' => Sends(b)
      /\ FinInv(b) /\ (Broken' <=> Broken)
  BY <1>0, <1>2, Zenon DEF BridgeInv, Flows, Sends, Hears, Broken
<1>9. ChainInv(b)'
  <2>1. P1(b) \in Nat /\ P2(b) \in Nat /\ P3(b) \in Nat /\ P1(b) <= P2(b) /\ P2(b) <= P3(b)
    BY <1>0, Places, Zenon
  <2>2. toApp[p] = Bytes(P1(b), P2(b)) /\ v = Bytes(P2(b), P3(b))
    BY <1>0, <1>3, <1>8, Zenon DEF ChainInv
  <2>3. toApp'[p] = Bytes(P1(b), P3(b)) /\ buf'[p]["in"] = Bytes(P3(b), P3(b))
    BY <1>4, <1>5, <2>1, <2>2, BytesConcat, BytesEmpty, ZenonT(30)
  <2>4. QED
    BY <2>3, <1>0, <1>2, <1>4, <1>7, <1>8, Zenon DEF ChainInv
<1>10. FinInv(b)'
  BY <1>0, <1>2, <1>4, <1>7, <1>8, Zenon DEF FinInv
<1>11. ChainInv(p)' /\ FinInv(p)'
  BY <1>0, <1>2, <1>4, <1>5, Frame, Zenon DEF BridgeInv, b
<1>12. QED
  BY <1>0, <1>2, <1>6, <1>9, <1>10, <1>11, PeerFacts, Zenon DEF BridgeInv, b

(* Bytes that are dropped on the way do not make the others run ahead. *)
LEMMA Drop ==
  ASSUME TypeOK, TypeOK', NEW x \in Ends, in'[Peer(x)] = in[Peer(x)], net'[x] = net[x],
         toApp'[Peer(x)] = toApp[Peer(x)] \/ toApp'[Peer(x)] = <<>>,
         buf'[Peer(x)]["in"] = buf[Peer(x)]["in"] \/ buf'[Peer(x)]["in"] = <<>>,
         buf'[x]["out"] = buf[x]["out"] \/ buf'[x]["out"] = <<>>,
         toAgent'[x] = toAgent[x] \/ toAgent'[x] = <<>>
  PROVE  P6(x)' \in Nat /\ P6(x)' <= P6(x)
<1> DEFINE p == Peer(x)
           b1 == buf[p]["in"]
           b2 == buf[x]["out"]
           c1 == buf'[p]["in"]
           c2 == buf'[x]["out"]
<1>0. p \in Ends
  BY PeerFacts, Zenon
<1>1. /\ in[p] \in Seq(Nat) /\ toApp[p] \in Seq(Nat) /\ net[x] \in Seq(Nat)
      /\ toAgent[x] \in Seq(Nat) /\ b1 \in Seq(Nat) /\ b2 \in Seq(Nat)
  BY <1>0, Types, Zenon
<1>2. /\ P6(x) = Len(in[p]) + Len(toApp[p]) + Len(b1) + Len(net[x]) + Len(b2) + Len(toAgent[x])
      /\ P6(x)' = Len(in'[p]) + Len(toApp'[p]) + Len(c1) + Len(net'[x]) + Len(c2) + Len(toAgent'[x])
  BY Zenon DEF P1, P2, P3, P4, P5, P6
<1>3. (c1 = b1 \/ c1 = <<>>) /\ (c2 = b2 \/ c2 = <<>>)
  BY Zenon
<1> HIDE DEF b1, b2, c1, c2
<1>4. /\ Len(c1) \in Nat /\ Len(c1) <= Len(b1) /\ Len(b1) \in Nat
      /\ Len(c2) \in Nat /\ Len(c2) <= Len(b2) /\ Len(b2) \in Nat
  BY <1>1, <1>3, SMTT(30)
<1>5. /\ Len(toApp'[p]) \in Nat /\ Len(toApp'[p]) <= Len(toApp[p]) /\ Len(toApp[p]) \in Nat
  BY <1>1
<1>6. /\ Len(toAgent'[x]) \in Nat /\ Len(toAgent'[x]) <= Len(toAgent[x]) /\ Len(toAgent[x]) \in Nat
  BY <1>1, SMTT(30)
<1>7. Len(in[p]) \in Nat /\ Len(net[x]) \in Nat /\ Len(in'[p]) = Len(in[p]) /\ Len(net'[x]) = Len(net[x])
  BY <1>1
<1>8. QED
  <2> DEFINE a == Len(in[p])
             n == Len(net[x])
             k1 == Len(toApp[p])
             k2 == Len(b1)
             k3 == Len(b2)
             k4 == Len(toAgent[x])
             l1 == Len(toApp'[p])
             l2 == Len(c1)
             l3 == Len(c2)
             l4 == Len(toAgent'[x])
  <2>1. /\ P6(x) = a + k1 + k2 + n + k3 + k4
        /\ P6(x)' = a + l1 + l2 + n + l3 + l4
    BY <1>2, <1>7, Zenon
  <2>2. /\ a \in Nat /\ n \in Nat
        /\ k1 \in Nat /\ k2 \in Nat /\ k3 \in Nat /\ k4 \in Nat
        /\ l1 \in Nat /\ l2 \in Nat /\ l3 \in Nat /\ l4 \in Nat
        /\ l1 <= k1 /\ l2 <= k2 /\ l3 <= k3 /\ l4 <= k4
    BY <1>4, <1>5, <1>6, <1>7, Zenon
  <2> HIDE DEF a, n, k1, k2, k3, k4, l1, l2, l3, l4
  <2>3. QED
    BY <2>1, <2>2

LEMMA AppLostStep ==
  ASSUME BridgeInv, NEW b \in Ends, AppLost(b)
  PROVE  BridgeInv'
<1> DEFINE p == Peer(b)
<1>0. p \in Ends /\ p # b /\ Peer(p) = b /\ TypeOK
  BY PeerFacts, Zenon DEF BridgeInv
<1>1. /\ lost' = [lost EXCEPT ![b] = @ \cup {"app"}]
      /\ toAgent' = [toAgent EXCEPT ![b] = <<>>]
      /\ toApp' = [toApp EXCEPT ![b] = <<>>]
      /\ UNCHANGED <<out, in, fin, eof, net, netFin, toAppFin, buf, running, closed>>
  BY Zenon DEF AppLost, apps
<1>2. /\ toAgent' \in [Ends -> Seq(Nat)] /\ toApp' \in [Ends -> Seq(Nat)]
      /\ toAgent'[b] = <<>> /\ toAgent'[p] = toAgent[p]
      /\ toApp'[b] = <<>> /\ toApp'[p] = toApp[p]
  BY <1>0, <1>1, SMTT(30) DEF TypeOK
<1>3. /\ lost' \in [Ends -> SUBSET {"app", "stream"}]
      /\ "app" \in lost'[b] /\ lost'[p] = lost[p]
  BY <1>0, <1>1, Zenon DEF TypeOK
<1>4. TypeOK'
  BY <1>0, <1>1, <1>2, <1>3, Zenon DEF TypeOK
<1>5. /\ P6(b)' <= P6(b) /\ P6(p)' <= P6(p) /\ P6(b)' \in Nat /\ P6(p)' \in Nat
      /\ P6(b) \in Nat /\ P6(p) \in Nat /\ out[b] \in Nat /\ out[p] \in Nat
  <2>1. P6(b)' <= P6(b) /\ P6(p)' <= P6(p) /\ P6(b)' \in Nat /\ P6(p)' \in Nat
    BY <1>0, <1>1, <1>2, <1>4, Drop, ZenonT(30)
  <2>2. QED
    BY <1>0, <2>1, Places, Types, Zenon
<1>6. P6(b)' <= out'[b] /\ P6(p)' <= out'[p]
  BY <1>0, <1>1, <1>5, SMTT(30) DEF BridgeInv, ChainInv
<1>7. ChainInv(b)'
  <2>1. /\ P1(b)' = P1(b) /\ P2(b)' = P2(b) /\ P3(b)' = P3(b)
        /\ P4(b)' = P4(b) /\ P5(b)' = P5(b)
    BY <1>1, <1>2, Zenon DEF P1, P2, P3, P4, P5
  <2>2. /\ ChainInv(b) /\ (Flows(b)' <=> Flows(b)) /\ (Hears(b)' <=> Hears(b))
        /\ Sends(b)' => Sends(b)
    BY <1>1, <1>3, Zenon DEF BridgeInv, Flows, Sends, Hears
  <2>3. QED
    BY <2>1, <2>2, <1>1, <1>2, <1>3, <1>6, Zenon DEF ChainInv
<1>8. ChainInv(p)'
  <2>1. P1(p)' = P1(p) /\ in'[b] = in[b] /\ ChainInv(p)
    BY <1>0, <1>1, Zenon DEF P1, BridgeInv
  <2>2. ~Hears(p)' /\ ~Flows(p)'
    BY <1>0, <1>3, Zenon DEF Hears, Flows, Sends
  <2>3. QED
    BY <2>1, <2>2, <1>0, <1>6, Zenon DEF ChainInv
<1>9. Broken'
  BY <1>3, Zenon DEF Broken
<1>10. FinInv(b)' /\ FinInv(p)'
  BY <1>9, Zenon DEF FinInv
<1>11. QED
  BY <1>0, <1>1, <1>4, <1>7, <1>8, <1>10, PeerFacts, ZenonT(30) DEF BridgeInv

LEMMA CopyWriteFailsOut ==
  ASSUME BridgeInv, NEW b \in Ends, CopyWriteFails(b, "out")
  PROVE  BridgeInv'
<1> DEFINE p == Peer(b)
<1>0. p \in Ends /\ p # b /\ Peer(p) = b /\ TypeOK
  BY PeerFacts, Zenon DEF BridgeInv
<1>1. /\ running' = [running EXCEPT ![b] = @ \ {"out"}]
      /\ buf' = [buf EXCEPT ![b]["out"] = <<>>]
      /\ UNCHANGED <<out, in, fin, eof, toAgent, net, netFin, toApp, toAppFin, lost, closed>>
      /\ lost[b] # {}
  BY Zenon DEF CopyWriteFails, Target, apps, links
<1>2. /\ buf' \in [Ends -> [Loops -> Seq(Nat)]] /\ buf'[b]["out"] = <<>>
      /\ buf'[b]["in"] = buf[b]["in"]
      /\ buf'[p]["in"] = buf[p]["in"] /\ buf'[p]["out"] = buf[p]["out"]
  <2>1. SetBuf(b, "out", <<>>)
    BY <1>1, Zenon DEF SetBuf
  <2>2. QED
    BY <1>0, <2>1, LoopFacts, BufOut, Zenon
<1>3. /\ running' \in [Ends -> SUBSET Loops]
      /\ "out" \notin running'[b] /\ running'[p] = running[p] /\ running'[b] \subseteq running[b]
  BY <1>0, <1>1, Zenon DEF TypeOK
<1>4. TypeOK'
  BY <1>0, <1>1, <1>2, <1>3, Zenon DEF TypeOK
<1>5. P6(b)' <= out'[b]
  <2>1. P6(b)' <= P6(b) /\ P6(b)' \in Nat
    BY <1>0, <1>1, <1>2, <1>4, Drop, Zenon
  <2>2. P6(b) <= out[b]
    BY Zenon DEF BridgeInv, ChainInv
  <2>3. P6(b) \in Nat /\ out[b] \in Nat
    BY <1>0, Places, Types, Zenon
  <2>4. QED
    BY <1>1, <2>1, <2>2, <2>3
<1>6. ChainInv(b)'
  <2>1. P1(b)' = P1(b) /\ P2(b)' = P2(b) /\ P3(b)' = P3(b) /\ P4(b)' = P4(b)
    BY <1>1, <1>2, Zenon DEF P1, P2, P3, P4
  <2>2. /\ ChainInv(b) /\ (Flows(b)' <=> Flows(b)) /\ (Hears(b)' <=> Hears(b))
        /\ ~Sends(b)'
    BY <1>1, <1>3, Zenon DEF BridgeInv, Flows, Sends, Hears
  <2>3. QED
    BY <2>1, <2>2, <1>1, <1>2, <1>3, <1>5, Zenon DEF ChainInv
<1>7. ChainInv(p)'
  BY <1>0, <1>1, <1>2, <1>3, ChainFrame, PeerFacts, Zenon DEF BridgeInv
<1>8. FinInv(b)' /\ FinInv(p)'
  BY <1>1, Zenon DEF FinInv, Broken
<1>9. \A y \in closed' : running'[y] = {}
  BY <1>0, <1>1, <1>3, PeerFacts, SMTT(30) DEF BridgeInv, TypeOK
<1>10. QED
  BY <1>0, <1>4, <1>6, <1>7, <1>8, <1>9, PeerFacts, Zenon DEF BridgeInv

LEMMA CopyWriteFailsIn ==
  ASSUME BridgeInv, NEW b \in Ends, CopyWriteFails(b, "in")
  PROVE  BridgeInv'
<1> DEFINE p == Peer(b)
<1>0. p \in Ends /\ p # b /\ Peer(p) = b /\ TypeOK
  BY PeerFacts, Zenon DEF BridgeInv
<1>1. /\ running' = [running EXCEPT ![b] = @ \ {"in"}]
      /\ buf' = [buf EXCEPT ![b]["in"] = <<>>]
      /\ UNCHANGED <<out, in, fin, eof, toAgent, net, netFin, toApp, toAppFin, lost, closed>>
      /\ lost[b] # {}
  BY Zenon DEF CopyWriteFails, Target, apps, links
<1>2. /\ buf' \in [Ends -> [Loops -> Seq(Nat)]] /\ buf'[b]["in"] = <<>>
      /\ buf'[b]["out"] = buf[b]["out"]
      /\ buf'[p]["in"] = buf[p]["in"] /\ buf'[p]["out"] = buf[p]["out"]
  <2>1. SetBuf(b, "in", <<>>)
    BY <1>1, Zenon DEF SetBuf
  <2>2. QED
    BY <1>0, <2>1, LoopFacts, BufIn, Zenon
<1>3. /\ running' \in [Ends -> SUBSET Loops]
      /\ "in" \notin running'[b] /\ running'[p] = running[p] /\ running'[b] \subseteq running[b]
  BY <1>0, <1>1, Zenon DEF TypeOK
<1>4. TypeOK'
  BY <1>0, <1>1, <1>2, <1>3, Zenon DEF TypeOK
<1>5. P6(p)' <= out'[p]
  <2>1. P6(p)' <= P6(p) /\ P6(p)' \in Nat
    BY <1>0, <1>1, <1>2, <1>4, Drop, Zenon
  <2>2. P6(p) <= out[p]
    BY <1>0, Zenon DEF BridgeInv, ChainInv
  <2>3. P6(p) \in Nat /\ out[p] \in Nat
    BY <1>0, Places, Types, Zenon
  <2>4. QED
    BY <1>1, <2>1, <2>2, <2>3
<1>6. ChainInv(p)'
  <2>1. P1(p)' = P1(p) /\ P2(p)' = P2(p)
    BY <1>1, Zenon DEF P1, P2
  <2>2. /\ ChainInv(p) /\ ~Flows(p)' /\ (Hears(p)' <=> Hears(p))
        /\ Sends(p)' => Sends(p)
    BY <1>0, <1>1, <1>3, Zenon DEF BridgeInv, Flows, Sends, Hears
  <2>3. QED
    BY <2>1, <2>2, <1>1, <1>5, Zenon DEF ChainInv
<1>7. ChainInv(b)'
  BY <1>0, <1>1, <1>2, <1>3, ChainFrame, PeerFacts, Zenon DEF BridgeInv
<1>8. FinInv(b)' /\ FinInv(p)'
  BY <1>1, Zenon DEF FinInv, Broken
<1>9. \A y \in closed' : running'[y] = {}
  BY <1>0, <1>1, <1>3, PeerFacts, SMTT(30) DEF BridgeInv, TypeOK
<1>10. QED
  BY <1>0, <1>4, <1>6, <1>7, <1>8, <1>9, PeerFacts, Zenon DEF BridgeInv

(* A loop ends, and the bytes stay where they are. *)
LEMMA EndLoopStep ==
  ASSUME BridgeInv, NEW b \in Ends, NEW c \in Loops, CopyEOF(b, c) \/ CopyReadFails(b, c)
  PROVE  BridgeInv'
<1> DEFINE p == Peer(b)
<1>0. p \in Ends /\ p # b /\ Peer(p) = b /\ TypeOK
  BY PeerFacts, Zenon DEF BridgeInv
<1>1. /\ EndLoop(b, c) /\ running' = [running EXCEPT ![b] = @ \ {c}]
      /\ UNCHANGED <<out, in, fin, eof, toAgent, net, toApp, buf, lost, closed>>
  BY Zenon DEF CopyEOF, CopyReadFails, EndLoop, apps
<1>2. /\ running' \in [Ends -> SUBSET Loops]
      /\ running'[b] = running[b] \ {c} /\ running'[p] = running[p]
  BY <1>0, <1>1, Zenon DEF TypeOK
<1>3. /\ \/ c = "out" /\ netFin' = [netFin EXCEPT ![b] = @ \/ "stream" \notin lost[b]]
         \/ c # "out" /\ netFin' = netFin
      /\ \/ c # "out" /\ toAppFin' = [toAppFin EXCEPT ![b] = @ \/ "app" \notin lost[b]]
         \/ c = "out" /\ toAppFin' = toAppFin
  BY <1>1, Zenon DEF EndLoop
<1>4. /\ netFin' \in [Ends -> BOOLEAN] /\ toAppFin' \in [Ends -> BOOLEAN]
      /\ netFin'[p] = netFin[p] /\ toAppFin'[p] = toAppFin[p]
      /\ c # "out" => netFin'[b] = netFin[b]
      /\ c = "out" => toAppFin'[b] = toAppFin[b]
  BY <1>0, <1>3, ZenonT(30) DEF TypeOK
<1>5. TypeOK'
  BY <1>0, <1>1, <1>2, <1>4, Zenon DEF TypeOK
<1>6. ChainInv(b)' /\ ChainInv(p)'
  BY <1>0, <1>1, <1>2, ChainFrame, PeerFacts, Zenon DEF BridgeInv
<1>7. ASSUME ~Broken'
      PROVE  /\ \A x \in Ends : lost[x] = {}
             /\ FinInv(b) /\ FinInv(p) /\ ~Broken /\ CopyEOF(b, c)
             /\ P6(b)' = P6(b) /\ P6(p)' = P6(p)
  <2>1. /\ \A x \in Ends : lost[x] = {}
        /\ FinInv(b) /\ FinInv(p) /\ ~Broken
    BY <1>0, <1>1, <1>7, Zenon DEF BridgeInv, Broken
  <2>2. CopyEOF(b, c)
    BY <2>1, Zenon DEF CopyReadFails
  <2>3. P6(b)' = P6(b) /\ P6(p)' = P6(p)
    BY <1>1, Zenon DEF P1, P2, P3, P4, P5, P6
  <2>4. QED
    BY <2>1, <2>2, <2>3, Zenon
<1>8. FinInv(b)' /\ FinInv(p)'
  <2>1. CASE c = "out"
    <3>1. SUFFICES ASSUME ~Broken' PROVE FinInv(b)' /\ FinInv(p)'
      BY Zenon DEF FinInv
    <3>2. buf[b]["out"] = <<>> /\ toAgent[b] = <<>> /\ fin[b] /\ "in" # "out"
      BY <3>1, <1>7, <2>1, LoopFacts, Zenon DEF CopyEOF
    <3>3. "out" \notin running'[b] /\ ("in" \in running'[b] <=> "in" \in running[b])
      BY <1>2, <2>1, Zenon
    <3>4. "in" \notin running[p] => netFin'[b]
      BY <3>1, <1>0, <1>3, <1>7, <2>1, Zenon DEF FinInv, TypeOK
    <3>5. FinInv(b)'
      BY <3>1, <3>2, <3>3, <3>4, <1>0, <1>1, <1>2, <1>4, <1>7, <2>1, Zenon DEF FinInv
    <3>6. FinInv(p)'
      BY <3>1, <3>2, <3>3, <1>0, <1>1, <1>2, <1>4, <1>7, <2>1, Zenon DEF FinInv
    <3>7. QED
      BY <3>5, <3>6, Zenon
  <2>2. CASE c = "in"
    <3>1. SUFFICES ASSUME ~Broken' PROVE FinInv(b)' /\ FinInv(p)'
      BY Zenon DEF FinInv
    <3>2. buf[b]["in"] = <<>> /\ net[p] = <<>> /\ netFin[p] /\ "in" # "out"
      BY <3>1, <1>7, <2>2, LoopFacts, Zenon DEF CopyEOF
    <3>3. "in" \notin running'[b] /\ ("out" \in running'[b] <=> "out" \in running[b])
      BY <1>2, <2>2, Zenon
    <3>4. FinInv(b)'
      BY <3>1, <3>2, <3>3, <1>0, <1>1, <1>2, <1>4, <1>7, <2>2, Zenon DEF FinInv
    <3>5. FinInv(p)'
      BY <3>1, <3>2, <3>3, <1>0, <1>1, <1>2, <1>4, <1>7, <2>2, Zenon DEF FinInv
    <3>6. QED
      BY <3>4, <3>5
  <2>3. QED
    BY <2>1, <2>2, Zenon DEF Loops
<1>9. \A y \in closed' : running'[y] = {}
  <2>1. running'[b] \subseteq running[b] /\ running'[p] = running[p]
    BY <1>2, Zenon
  <2>2. closed' = closed /\ closed \subseteq Ends /\ \A y \in closed : running[y] = {}
    BY <1>0, <1>1, Zenon DEF BridgeInv, TypeOK
  <2>3. QED
    BY <2>1, <2>2, PeerFacts
<1>10. QED
  BY <1>0, <1>5, <1>6, <1>8, <1>9, PeerFacts, Zenon DEF BridgeInv

LEMMA BridgeReturnsStep ==
  ASSUME BridgeInv, NEW b \in Ends, BridgeReturns(b)
  PROVE  BridgeInv'
<1> DEFINE p == Peer(b)
<1>0. p \in Ends /\ p # b /\ Peer(p) = b /\ TypeOK
  BY PeerFacts, Zenon DEF BridgeInv
<1>1. /\ running[b] = {} /\ closed' = closed \cup {b}
      /\ netFin' = [netFin EXCEPT ![b] = @ \/ "stream" \notin lost[b]]
      /\ toAppFin' = [toAppFin EXCEPT ![b] = @ \/ "app" \notin lost[b]]
      /\ UNCHANGED <<out, in, fin, eof, toAgent, net, toApp, buf, running, lost>>
  BY Zenon DEF BridgeReturns, apps
<1>2. /\ netFin' \in [Ends -> BOOLEAN] /\ toAppFin' \in [Ends -> BOOLEAN]
      /\ netFin'[p] = netFin[p] /\ toAppFin'[p] = toAppFin[p]
      /\ netFin[b] => netFin'[b]
  BY <1>0, <1>1, ZenonT(30) DEF TypeOK
<1>3. TypeOK'
  <2>1. closed' \subseteq Ends
    BY <1>0, <1>1, Zenon DEF TypeOK
  <2>2. QED
    BY <1>0, <1>1, <1>2, <2>1, Zenon DEF TypeOK
<1>4. ChainInv(b)' /\ ChainInv(p)'
  BY <1>0, <1>1, ChainFrame, PeerFacts, Zenon DEF BridgeInv
<1>5. FinInv(b)' /\ FinInv(p)'
  <2>1. /\ FinInv(b) /\ FinInv(p) /\ (Broken' <=> Broken)
        /\ "out" \notin running[b] /\ "in" \notin running[b]
    BY <1>0, <1>1, Zenon DEF BridgeInv, Broken
  <2>2. P6(b)' = P6(b) /\ P6(p)' = P6(p)
    BY <1>1, Zenon DEF P1, P2, P3, P4, P5, P6
  <2>3. FinInv(b)'
    BY <2>1, <2>2, <1>0, <1>1, <1>2, Zenon DEF FinInv
  <2>4. FinInv(p)'
    BY <2>1, <2>2, <1>0, <1>1, <1>2, Zenon DEF FinInv
  <2>5. QED
    BY <2>3, <2>4, Zenon
<1>6. \A y \in closed' : running'[y] = {}
  BY <1>1, Zenon DEF BridgeInv
<1>7. QED
  BY <1>0, <1>3, <1>4, <1>5, <1>6, PeerFacts, Zenon DEF BridgeInv

LEMMA InvInit == ASSUME Init PROVE BridgeInv
<1>1. TypeOK
  BY DEF Init, TypeOK, Loops
<1>2. ASSUME NEW b \in Ends PROVE ChainInv(b) /\ FinInv(b)
  <2>0. Peer(b) \in Ends
    BY PeerFacts, Zenon
  <2>1. /\ in[Peer(b)] = <<>> /\ toApp[Peer(b)] = <<>> /\ buf[Peer(b)]["in"] = <<>>
        /\ net[b] = <<>> /\ buf[b]["out"] = <<>> /\ toAgent[b] = <<>> /\ out[b] = 0
    BY <2>0, LoopFacts, Zenon DEF Init
  <2>2. /\ running[b] = Loops /\ running[Peer(b)] = Loops
        /\ netFin[b] = FALSE /\ toAppFin[Peer(b)] = FALSE
    BY <2>0, Zenon DEF Init
  <2>3. Len(<<>>) = 0 /\ 0 + 0 = 0 /\ 0 <= 0 /\ 0 \in Nat
    OBVIOUS
  <2>4. P1(b) = 0 /\ P2(b) = 0 /\ P3(b) = 0 /\ P4(b) = 0 /\ P5(b) = 0 /\ P6(b) = 0
    BY <2>1, <2>3, Zenon DEF P1, P2, P3, P4, P5, P6
  <2>5. Bytes(0, 0) = <<>>
    BY <2>3, BytesEmpty, Zenon
  <2>6. ChainInv(b)
    BY <2>1, <2>3, <2>4, <2>5, Zenon DEF ChainInv
  <2>7. FinInv(b)
    BY <2>1, <2>2, <2>4, LoopFacts, Zenon DEF FinInv
  <2>8. QED
    BY <2>6, <2>7, Zenon
<1>3. closed = {}
  BY Zenon DEF Init
<1>4. QED
  BY <1>1, <1>2, <1>3, Zenon DEF BridgeInv

(* A wrapper is given up, with or without a FIN for the peer. *)
LEMMA StreamLostStep ==
  ASSUME BridgeInv, NEW b \in Ends, StreamLost(b)
  PROVE  BridgeInv'
<1> DEFINE p == Peer(b)
<1>0. p \in Ends /\ p # b /\ Peer(p) = b /\ TypeOK
  BY PeerFacts, Zenon DEF BridgeInv
<1>1. /\ lost' = [lost EXCEPT ![b] = @ \cup {"stream"}]
      /\ UNCHANGED <<out, in, fin, eof, toAgent, toApp, toAppFin, buf, running, closed>>
  BY Zenon DEF StreamLost, apps
<1>2. /\ lost' \in [Ends -> SUBSET {"app", "stream"}] /\ "stream" \in lost'[b]
      /\ \A y \in Ends : lost[y] \subseteq lost'[y]
      /\ \A y \in Ends : "app" \in lost'[y] <=> "app" \in lost[y]
  BY <1>0, <1>1 DEF TypeOK
<1>3. /\ net' \in [Ends -> Seq(Nat)] /\ netFin' \in [Ends -> BOOLEAN]
      /\ net'[p] = net[p] /\ (net'[b] = net[b] \/ net'[b] = <<>>)
  <2>1. net \in [Ends -> Seq(Nat)] /\ netFin \in [Ends -> BOOLEAN] /\ <<>> \in Seq(Nat)
    BY <1>0, LoopFacts, Zenon DEF TypeOK
  <2>2. CASE UNCHANGED <<net, netFin>>
    BY <2>1, <2>2, Zenon
  <2>3. CASE net' = [net EXCEPT ![b] = <<>>] /\ netFin' = [netFin EXCEPT ![b] = TRUE]
    BY <1>0, <2>1, <2>3, Zenon
  <2>4. QED
    BY <2>2, <2>3, Zenon DEF StreamLost
<1>4. TypeOK'
  BY <1>0, <1>1, <1>2, <1>3, Zenon DEF TypeOK
<1>5. Broken'
  BY <1>2, Zenon DEF Broken
<1>6. ChainInv(p)'
  BY <1>0, <1>1, <1>2, <1>3, ChainFrame, Zenon DEF BridgeInv
<1>7. ChainInv(b)'
  <2>1. CASE net'[b] = net[b]
    BY <1>0, <1>1, <1>2, <2>1, ChainFrame, Zenon DEF BridgeInv
  <2>2. CASE net'[b] = <<>>
    <3>1. ChainInv(b) /\ (Flows(b)' <=> Flows(b)) /\ (Hears(b)' <=> Hears(b)) /\ ~Sends(b)'
      BY <1>0, <1>1, <1>2, Zenon DEF BridgeInv, Flows, Sends, Hears
    <3>2. P1(b)' = P1(b) /\ P2(b)' = P2(b) /\ P3(b)' = P3(b)
      BY <1>1, Zenon DEF P1, P2, P3
    <3>3. P4(b)' = P3(b)
      BY <1>0, <2>2, <3>2, Places DEF P4
    <3>4. P6(b)' <= out'[b]
      <4> DEFINE n == Len(buf[b]["out"])
                 k == Len(toAgent[b])
      <4>1. n \in Nat /\ k \in Nat
        BY <1>0, Types, SMTT(30)
      <4>2. P6(b) = P4(b) + n + k /\ P6(b)' = P3(b) + n + k
        BY <1>1, <3>3, Zenon DEF P5, P6
      <4>3. P6(b) <= out[b] /\ out[b] \in Nat /\ out'[b] = out[b]
        BY <1>0, <1>1, <3>1, Types, Zenon DEF ChainInv
      <4>4. P3(b) \in Nat /\ P4(b) \in Nat /\ P3(b) <= P4(b)
        BY <1>0, Places, Zenon
      <4> HIDE DEF n, k
      <4>5. QED
        BY <4>1, <4>2, <4>3, <4>4
    <3>5. Bytes(P3(b), P3(b)) = <<>>
      BY <1>0, Places, BytesEmpty, Zenon
    <3>6. QED
      BY <1>1, <2>2, <3>1, <3>2, <3>3, <3>4, <3>5, Zenon DEF ChainInv
  <2>3. QED
    BY <1>3, <2>1, <2>2, Zenon
<1>8. FinInv(b)' /\ FinInv(p)'
  BY <1>5, Zenon DEF FinInv
<1>9. \A x \in Ends : x = b \/ x = p
  BY PeerFacts, Zenon
<1>10. QED
  BY <1>1, <1>4, <1>6, <1>7, <1>8, <1>9, Zenon DEF BridgeInv

LEMMA InvStep == ASSUME BridgeInv, [Next]_vars PROVE BridgeInv'
<1>1. ASSUME UNCHANGED vars PROVE BridgeInv'
  <2>1. UNCHANGED <<out, in, fin, eof, toAgent, net, netFin, toApp, toAppFin, buf, running, lost, closed>>
    BY <1>1, Zenon DEF vars, apps, links
  <2>2. TypeOK'
    BY <2>1, Zenon DEF BridgeInv, TypeOK
  <2>3. \A x \in Ends : ChainInv(x)' /\ FinInv(x)'
    BY <2>1, Frame, Zenon DEF BridgeInv
  <2>4. QED
    BY <2>1, <2>2, <2>3, Zenon DEF BridgeInv
<1>2. ASSUME NEW b \in Ends, AppCloseWrite(b) PROVE BridgeInv'
  <2>0. Peer(b) \in Ends /\ Peer(b) # b /\ Peer(Peer(b)) = b /\ TypeOK
    BY PeerFacts, Zenon DEF BridgeInv
  <2>1. /\ fin' = [fin EXCEPT ![b] = TRUE]
        /\ UNCHANGED <<out, in, eof, toAgent, net, netFin, toApp, toAppFin, buf, running, lost, closed>>
    BY <1>2, Zenon DEF AppCloseWrite, links
  <2>2. fin' \in [Ends -> BOOLEAN] /\ fin'[b] /\ fin'[Peer(b)] = fin[Peer(b)]
    BY <2>0, <2>1, Zenon DEF TypeOK
  <2>3. TypeOK'
    BY <2>0, <2>1, <2>2, Zenon DEF TypeOK
  <2>4. ChainInv(Peer(b))' /\ FinInv(Peer(b))' /\ ChainInv(b)'
    BY <2>0, <2>1, <2>2, Frame, ChainFrame, Zenon DEF BridgeInv
  <2>5. FinInv(b)'
    <3>1. P6(b)' = P6(b) /\ (Broken' <=> Broken)
      BY <2>1, Zenon DEF P1, P2, P3, P4, P5, P6, Broken
    <3>2. QED
      BY <2>1, <2>2, <3>1, Zenon DEF BridgeInv, FinInv
  <2>6. QED
    BY <2>0, <2>1, <2>3, <2>4, <2>5, PeerFacts, Zenon DEF BridgeInv
<1>3. ASSUME NEW b \in Ends, AppReadEOF(b) PROVE BridgeInv'
  <2>1. /\ eof' = [eof EXCEPT ![b] = TRUE]
        /\ UNCHANGED <<out, in, fin, toAgent, net, netFin, toApp, toAppFin, buf, running, lost, closed>>
    BY <1>3, Zenon DEF AppReadEOF, links
  <2>2. eof' \in [Ends -> BOOLEAN]
    BY <2>1, Zenon DEF BridgeInv, TypeOK
  <2>3. TypeOK'
    BY <2>1, <2>2, Zenon DEF BridgeInv, TypeOK
  <2>4. \A x \in Ends : ChainInv(x)' /\ FinInv(x)'
    BY <2>1, Frame, Zenon DEF BridgeInv
  <2>5. QED
    BY <2>1, <2>3, <2>4, Zenon DEF BridgeInv
<1>4. ASSUME NEW b \in Ends, NEW c \in Loops, CopyStep(b, c) PROVE BridgeInv'
  <2>1. CASE c = "out"
    BY <1>4, <2>1, CopyReadOut, CopyWriteOut, CopyWriteFailsOut, EndLoopStep, Zenon DEF CopyStep
  <2>2. CASE c = "in"
    BY <1>4, <2>2, CopyReadIn, CopyWriteIn, CopyWriteFailsIn, EndLoopStep, Zenon DEF CopyStep
  <2>3. QED
    BY <2>1, <2>2, Zenon DEF Loops
<1>5. QED
  BY <1>1, <1>2, <1>3, <1>4, AppWriteStep, AppReadStep, AppLostStep, StreamLostStep,
     BridgeReturnsStep, Zenon DEF Next

LEMMA BridgeHolds == Spec => []BridgeInv
BY InvInit, InvStep, PTL DEF Spec

(* For every amount of data, window and number of failures: a bridge that   *)
(* has closed its connections had, unless one failed, moved all bytes of    *)
(* both directions.                                                         *)
THEOREM RoundTripIsFirst == Spec => []RoundTripFirst
<1>1. ASSUME BridgeInv PROVE RoundTripFirst
  <2>1. SUFFICES ASSUME NEW b \in closed, ~Broken
                 PROVE  /\ fin[b] /\ fin[Peer(b)]
                        /\ Len(in[b]) + Len(toApp[b]) = out[Peer(b)]
                        /\ toAgent[b] = <<>>
    BY Zenon DEF RoundTripFirst
  <2> DEFINE p == Peer(b)
  <2>2. b \in Ends /\ TypeOK /\ running[b] = {}
    BY <1>1, Zenon DEF BridgeInv, TypeOK
  <2>3. p \in Ends /\ Peer(p) = b
    BY <2>2, PeerFacts, Zenon
  <2>4. FinInv(b) /\ FinInv(p) /\ "out" \notin running[b] /\ "in" \notin running[b]
    BY <1>1, <2>2, <2>3, Zenon DEF BridgeInv
  <2>5. fin[b] /\ toAgent[b] = <<>> /\ netFin[p] /\ net[p] = <<>> /\ buf[b]["in"] = <<>>
    BY <2>1, <2>3, <2>4, Zenon DEF FinInv
  <2>6. fin[p] /\ toAgent[p] = <<>> /\ buf[p]["out"] = <<>> /\ P6(p) = out[p]
    BY <2>1, <2>4, <2>5, Zenon DEF FinInv
  <2>7. P2(p) = out[p]
    <3>1. /\ P3(p) = P2(p) + Len(<<>>) /\ P4(p) = P3(p) + Len(<<>>)
          /\ P5(p) = P4(p) + Len(<<>>) /\ P6(p) = P5(p) + Len(<<>>)
      BY <2>3, <2>5, <2>6, Zenon DEF P3, P4, P5, P6
    <3>2. P2(p) \in Nat /\ Len(<<>>) = 0
      BY <2>2, <2>3, Places, Zenon
    <3>3. QED
      BY <3>1, <3>2, <2>6
  <2>8. P2(p) = Len(in[b]) + Len(toApp[b])
    BY <2>3, Zenon DEF P1, P2
  <2>9. QED
    BY <2>5, <2>6, <2>7, <2>8, Zenon
<1>2. QED
  BY <1>1, BridgeHolds, PTL

LEMMA PipeSame ==
  /\ Pipe!Ends = Ends
  /\ \A e \in Ends : Pipe!Peer(e) = Peer(e)
  /\ \A a, b \in Nat : Pipe!Bytes(a, b) = Bytes(a, b)
BY Zenon DEF Pipe!Ends, Pipe!Peer, Pipe!Bytes, Ends, Peer, Bytes

(* Nothing is written behind an end of file. *)
EofInv ==
  \A b \in Ends : /\ toAppFin[b] => "in" \notin running[b]
                  /\ eof[b] => toAppFin[b] /\ toApp[b] = <<>>

LEMMA EofStep ==
  ASSUME BridgeInv, EofInv, [Next]_vars
  PROVE  EofInv'
<1>0. TypeOK /\ (\A b \in closed : running[b] = {}) /\ "in" # "out"
  BY LoopFacts, Zenon DEF BridgeInv
<1>1. ASSUME NEW b \in Ends, AppWrite(b) \/ AppCloseWrite(b) PROVE EofInv'
  BY <1>1, Zenon DEF EofInv, AppWrite, AppCloseWrite, links
<1>2. ASSUME NEW b \in Ends, AppRead(b) \/ AppReadEOF(b) PROVE EofInv'
  <2>1. CASE AppRead(b)
    BY <1>0, <2>1, Zenon DEF EofInv, AppRead, TypeOK
  <2>2. CASE AppReadEOF(b)
    BY <1>0, <2>2, Zenon DEF EofInv, AppReadEOF, links, TypeOK
  <2>3. QED
    BY <1>2, <2>1, <2>2, Zenon
<1>3. ASSUME NEW b \in Ends, AppLost(b) \/ StreamLost(b) PROVE EofInv'
  <2>1. UNCHANGED <<eof, toAppFin, running>> /\ \A y \in Ends : toApp'[y] = toApp[y] \/ toApp'[y] = <<>>
    BY <1>0, <1>3, Zenon DEF AppLost, StreamLost, apps, TypeOK
  <2>2. QED
    BY <2>1, Zenon DEF EofInv
<1>4. ASSUME NEW b \in Ends, BridgeReturns(b) PROVE EofInv'
  BY <1>0, <1>4, Zenon DEF EofInv, BridgeReturns, apps, TypeOK
<1>5. ASSUME NEW b \in Ends, NEW c \in Loops, CopyStep(b, c) PROVE EofInv'
  <2>1. CASE CopyRead(b, c)
    BY <2>1, Zenon DEF EofInv, CopyRead, apps
  <2>2. CASE CopyWrite(b, c)
    <3>1. UNCHANGED <<eof, toAppFin, running>> /\ c \in running[b]
      BY <2>2, Zenon DEF CopyWrite, Working, apps
    <3>2. \A y \in Ends : toApp'[y] = toApp[y] \/ (y = b /\ c = "in")
      BY <1>0, <2>2, Zenon DEF CopyWrite, TypeOK, Loops
    <3>3. QED
      BY <3>1, <3>2, Zenon DEF EofInv
  <2>3. CASE CopyEOF(b, c) \/ CopyReadFails(b, c)
    <3>1. UNCHANGED <<eof, toApp>> /\ EndLoop(b, c)
      BY <2>3, Zenon DEF CopyEOF, CopyReadFails, apps
    <3>2. /\ \A y \in Ends : running'[y] \subseteq running[y] /\ (toAppFin[y] => toAppFin'[y])
          /\ \A y \in Ends : toAppFin'[y] => toAppFin[y] \/ "in" \notin running'[y]
      BY <1>0, <3>1, Zenon DEF EndLoop, TypeOK, Loops
    <3>3. QED
      BY <3>1, <3>2, Zenon DEF EofInv
  <2>4. CASE CopyWriteFails(b, c)
    BY <1>0, <2>4, Zenon DEF EofInv, CopyWriteFails, apps, links, TypeOK
  <2>5. QED
    BY <1>5, <2>1, <2>2, <2>3, <2>4, Zenon DEF CopyStep
<1>6. CASE UNCHANGED vars
  BY <1>6, Zenon DEF EofInv, vars, apps, links
<1>7. QED
  BY <1>1, <1>2, <1>3, <1>4, <1>5, <1>6, Zenon DEF Next

LEMMA EofHolds == Spec => []EofInv
<1>1. Init => EofInv
  BY Zenon DEF Init, EofInv
<1>2. QED
  BY <1>1, EofStep, BridgeHolds, PTL DEF Spec

LEMMA ReadDelivers ==
  ASSUME BridgeInv, EofInv, NEW b \in Ends, AppRead(b), ~Broken
  PROVE  Pipe!Deliver(b)
<1> DEFINE p == Peer(b)
           m == P1(p)
           n == P2(p)
           k == Len(toApp[b])
           o == out[p]
<1>0. p \in Ends /\ Peer(p) = b /\ TypeOK /\ ChainInv(p)
  BY PeerFacts, Zenon DEF BridgeInv
<1>1. /\ in' = [in EXCEPT ![b] = in[b] \o toApp[b]] /\ toApp[b] # <<>>
      /\ UNCHANGED <<out, fin, eof, lost>> /\ "app" \notin lost[b] /\ ~eof[b]
  BY Zenon DEF AppRead, EofInv
<1>2. /\ m \in Nat /\ n \in Nat /\ 0 \in Nat /\ 0 <= m /\ m <= n /\ n <= o /\ o \in Nat
  <2>1. P6(p) <= out[p]
    BY <1>0, Zenon DEF ChainInv
  <2>2. QED
    BY <1>0, <2>1, Places, Types, SMTT(30)
<1>3. m = Len(in[b]) /\ n = m + k
  BY <1>0, Zenon DEF P1, P2
<1>4. k \in Nat \ {0}
  BY <1>0, <1>1, Types
<1>5. in[b] = Bytes(0, m) /\ toApp[b] = Bytes(m, n) /\ out[Pipe!Peer(b)] = o
  BY <1>0, <1>1, PipeSame, Zenon DEF ChainInv, Hears
<1> HIDE DEF m, n, k, o
<1>6. in[b] \o toApp[b] = Bytes(0, n)
  <2>1. Bytes(0, m) \o Bytes(m, n) = Bytes(0, n)
    BY <1>2, BytesConcat, Zenon
  <2>2. QED
    BY <1>5, <2>1, Zenon
<1>7. n \in m + 1 .. o
  BY <1>2, <1>3, <1>4
<1>8. in' = [in EXCEPT ![b] = Pipe!Bytes(0, n)] /\ n \in Len(in[b]) + 1 .. out[Pipe!Peer(b)]
  BY <1>1, <1>2, <1>3, <1>5, <1>6, <1>7, PipeSame, Zenon
<1>9. Broken' = Broken
  BY <1>1, Zenon DEF Broken
<1>10. QED
  BY <1>1, <1>8, <1>9, Zenon DEF Pipe!Deliver

LEMMA EOFFinishes ==
  ASSUME BridgeInv, NEW b \in Ends, AppReadEOF(b), ~Broken
  PROVE  Pipe!Finish(b)
<1> DEFINE p == Peer(b)
<1>0. p \in Ends /\ Peer(p) = b /\ TypeOK /\ FinInv(p)
  BY PeerFacts, Zenon DEF BridgeInv
<1>1. /\ toApp[b] = <<>> /\ toAppFin[b] /\ eof' = [eof EXCEPT ![b] = TRUE]
      /\ UNCHANGED <<out, in, fin, lost>>
  BY Zenon DEF AppReadEOF
<1>2. netFin[p] /\ net[p] = <<>> /\ buf[b]["in"] = <<>>
  BY <1>0, <1>1, Zenon DEF FinInv
<1>3. fin[p] /\ toAgent[p] = <<>> /\ buf[p]["out"] = <<>> /\ P6(p) = out[p]
  BY <1>0, <1>2, Zenon DEF FinInv
<1>4. P1(p) = out[p]
  <2>1. /\ P2(p) = P1(p) + Len(<<>>) /\ P3(p) = P2(p) + Len(<<>>) /\ P4(p) = P3(p) + Len(<<>>)
        /\ P5(p) = P4(p) + Len(<<>>) /\ P6(p) = P5(p) + Len(<<>>)
    BY <1>0, <1>1, <1>2, <1>3, Zenon DEF P2, P3, P4, P5, P6
  <2>2. P1(p) \in Nat /\ Len(<<>>) = 0
    BY <1>0, Places, Zenon
  <2>3. QED
    BY <2>1, <2>2, <1>3
<1>5. P1(p) = Len(in[b])
  BY <1>0, Zenon DEF P1
<1>6. Broken' = Broken
  BY <1>1, Zenon DEF Broken
<1>7. QED
  BY <1>1, <1>3, <1>4, <1>5, <1>6, PipeSame, Zenon DEF Pipe!Finish

LEMMA PipeStep ==
  ASSUME BridgeInv, EofInv, [Next]_vars
  PROVE  [Pipe!Next]_(Pipe!vars)
<1>1. ASSUME UNCHANGED <<out, in, fin, eof, lost>> PROVE UNCHANGED Pipe!vars
  BY <1>1, Zenon DEF Pipe!vars, Broken
<1>2. ASSUME UNCHANGED vars PROVE UNCHANGED Pipe!vars
  BY <1>1, <1>2, Zenon DEF vars, apps
<1>3. ASSUME NEW b \in Ends, AppWrite(b) PROVE Pipe!Next
  <2>1. out[b] \in Nat /\ out \in [Ends -> Nat]
    BY Zenon DEF BridgeInv, TypeOK
  <2>2. out' = [out EXCEPT ![b] = @ + 1] /\ UNCHANGED <<in, fin, eof, lost>> /\ ~fin[b]
    BY <1>3, Zenon DEF AppWrite
  <2>3. out'[b] = out[b] + 1 /\ out' = [out EXCEPT ![b] = out'[b]] /\ out'[b] > out[b]
    BY <2>1, <2>2
  <2>4. Broken' = Broken
    BY <2>2, Zenon DEF Broken
  <2>5. QED
    BY <2>2, <2>3, <2>4, PipeSame, Zenon DEF Pipe!Next, Pipe!Send
<1>4. ASSUME NEW b \in Ends, AppCloseWrite(b) PROVE Pipe!Next
  <2>1. fin' = [fin EXCEPT ![b] = TRUE] /\ UNCHANGED <<out, in, eof, lost>>
    BY <1>4, Zenon DEF AppCloseWrite
  <2>2. Broken' = Broken
    BY <2>1, Zenon DEF Broken
  <2>3. QED
    BY <2>1, <2>2, PipeSame, Zenon DEF Pipe!Next, Pipe!CloseWrite
<1>5. ASSUME NEW b \in Ends, AppRead(b) \/ AppReadEOF(b) PROVE Pipe!Next
  <2>1. CASE Broken
    <3>1. Broken'
      BY <1>5, <2>1, Zenon DEF AppRead, AppReadEOF, Broken
    <3>2. QED
      BY <2>1, <3>1, Zenon DEF Pipe!Next, Pipe!Torn
  <2>2. CASE ~Broken
    BY <1>5, <2>2, ReadDelivers, EOFFinishes, PipeSame, Zenon DEF Pipe!Next
  <2>3. QED
    BY <2>1, <2>2, Zenon
<1>6. ASSUME NEW b \in Ends, AppLost(b) \/ StreamLost(b) PROVE Pipe!Next
  <2>1. \E c : lost' = [lost EXCEPT ![b] = @ \cup {c}]
    BY <1>6, Zenon DEF AppLost, StreamLost
  <2>2. UNCHANGED <<out, in, fin, eof>>
    BY <1>6, Zenon DEF AppLost, StreamLost, apps
  <2>3. lost'[b] # {}
    BY <2>1 DEF BridgeInv, TypeOK
  <2>4. Broken' = TRUE
    BY <2>3, Zenon DEF Broken
  <2>5. QED
    BY <2>2, <2>4, Zenon DEF Pipe!Next, Pipe!Tear
<1>7. ASSUME NEW b \in Ends, BridgeReturns(b) PROVE UNCHANGED Pipe!vars
  BY <1>1, <1>7, Zenon DEF BridgeReturns, apps
<1>8. ASSUME NEW b \in Ends, NEW c \in Loops, CopyStep(b, c) PROVE UNCHANGED Pipe!vars
  BY <1>1, <1>8, Zenon DEF CopyStep, CopyRead, CopyWrite, CopyEOF, CopyReadFails, CopyWriteFails, apps
<1>9. QED
  BY <1>2, <1>3, <1>4, <1>5, <1>6, <1>7, <1>8, Zenon DEF Next

(* For every amount of data, window and number of failures: the bridges,    *)
(* their local connections and the stream implement the pipe of BytePipe,   *)
(* and a failure only truncates what is read.                               *)
THEOREM BridgesAreAPipe == Spec => EndToEndPipe
<1>1. Init => Pipe!Init
  <2>1. SUFFICES ASSUME Init PROVE Pipe!Init
    OBVIOUS
  <2>2. Broken = FALSE
    BY <2>1, Zenon DEF Init, Broken
  <2>3. QED
    BY <2>1, <2>2, PipeSame, Zenon DEF Init, Pipe!Init
<1>2. ASSUME BridgeInv PROVE FailureTruncates
  <2>1. SUFFICES ASSUME NEW b \in Ends
                 PROVE  Len(in[b]) <= out[Peer(b)] /\ in[b] = Bytes(0, Len(in[b]))
    BY Zenon DEF FailureTruncates
  <2> DEFINE p == Peer(b)
  <2>2. p \in Ends /\ Peer(p) = b /\ TypeOK /\ ChainInv(p)
    BY <1>2, PeerFacts, Zenon DEF BridgeInv
  <2>3. P1(p) = Len(in[b])
    BY <2>2, Zenon DEF P1
  <2>4. P1(p) <= out[p]
    <3>1. P6(p) <= out[p]
      BY <2>2, Zenon DEF ChainInv
    <3>2. QED
      BY <2>2, <3>1, Places, Types, SMTT(30)
  <2>5. in[b] = Bytes(0, P1(p))
    BY <2>2, Zenon DEF ChainInv
  <2>6. QED
    BY <2>3, <2>4, <2>5, Zenon
<1>3. QED
  BY <1>1, <1>2, PipeStep, BridgeHolds, EofHolds, PTL DEF Spec, Pipe!Spec, EndToEndPipe

===============================================================================
