-------------------------- MODULE ReconnectProofs --------------------------
(***************************************************************************)
(* Proofs about a reconnect: the control stream of a Session, which it     *)
(* replaces (ControlStream), for any number of controlReaders, writers and *)
(* connections, and the Resume loops of several agents (ResumeRendezvous), *)
(* for any number of agents and streams.                                   *)
(***************************************************************************)
EXTENDS ControlStream, ResumeRendezvous, FiniteSetTheorems, TLAPS

-----------------------------------------------------------------------------
(* The control stream.                                                      *)

(* Whoever is in the middle of a frame holds ctrlWriteMu and writes to the  *)
(* stream of now.  A reader and a writer that share a name would share the  *)
(* lock.                                                                    *)
LockInv ==
    /\ \A w \in Writers : writer[w].at = "write" => mu = w /\ writer[w].on = ctrl
    /\ \A r \in Readers : reader[r].at = "write" => mu = r /\ reader[r].on = ctrl
    /\ \A x \in Readers \cap Writers :
        ~(reader[x].at = "write" /\ writer[x].at = "write")

(* Every stream but the last is dead, and nobody reads ahead.               *)
ChainInv ==
    /\ \A g \in Conns : g < ctrl => g \in dead
    /\ main = "dial" => ctrl \in dead
    /\ \A r \in Readers : reader[r].at = "parse" => reader[r].on <= ctrl

(* A controlReader that reads the stream of now, or is about to.            *)
Active(r) ==
    \/ reader[r].at \in {"top", "handle", "write"}
    \/ reader[r].at = "parse" /\ reader[r].on = ctrl

(* As long as nothing has overlapped there is one such reader, and only     *)
(* from the start of Run to the swap of the stream.                         *)
SingleInv ==
    ~overlap =>
        /\ main \notin {"run", "close", "dial"} => \A r \in Readers : ~Active(r)
        /\ \A r, s \in Readers : Active(r) /\ Active(s) => r = s
        /\ query = "parse" => main = "queryWait"

ControlInv ==
    /\ TypeOK
    /\ LockInv
    /\ ChainInv
    /\ SingleInv

LEMMA ControlInit == ASSUME Init PROVE ControlInv
<1>1. TypeOK
  <2>1. main \in MainPCs
    BY DEF Init, MainPCs
  <2>2. /\ 1 \in Conns
        /\ queue \in [Conns -> Seq(Frames)]
    BY ControlBounds DEF Init, Conns
  <2>3. reader \in [Readers -> [at : {"off", "top", "parse", "handle", "write"},
                              on : Conns, frame : Frames]]
    BY <2>2 DEF Init, Frames
  <2>4. /\ exposes \in BOOLEAN /\ listens \in BOOLEAN
        /\ p2pEnabled \in BOOLEAN /\ overlap \in BOOLEAN
    BY Zenon DEF Init
  <2>5. writer \in [Writers -> [at : {"idle", "write"}, on : Conns]]
    BY <2>2 DEF Init
  <2>6. /\ ctrl \in Conns /\ dead \subseteq Conns
        /\ registered \subseteq Conns /\ notices \in 0..MaxNotices
        /\ query \in {"off", "parse", "done"}
        /\ mu \in Readers \cup Writers \cup {Free}
    BY <2>2, ControlBounds DEF Init
  <2>7. QED
    BY <2>1, <2>2, <2>3, <2>4, <2>5, <2>6, Zenon DEF TypeOK
<1>2. LockInv /\ SingleInv
  BY DEF Init, LockInv, SingleInv, Active
<1>3. ChainInv
  <2>1. main # "dial"
    BY DEF Init
  <2>2. QED
    BY <2>1, ControlBounds DEF Init, ChainInv, Conns
<1>4. QED
  BY <1>1, <1>2, <1>3 DEF ControlInv

ReaderType ==
    [Readers -> [at : {"off", "top", "parse", "handle", "write"},
                 on : Conns, frame : Frames]]

(* Reader r goes to v and is then on control stream g.                      *)
Moved(r, v, g) ==
    /\ reader' \in ReaderType
    /\ \A s \in Readers : reader'[s].at = IF s = r THEN v ELSE reader[s].at
    /\ \A s \in Readers : reader'[s].on = IF s = r THEN g ELSE reader[s].on

LEMMA ReaderMoves ==
    ASSUME TypeOK, NEW r \in Readers
    PROVE  /\ ReaderLoops(r) => Moved(r, "parse", ctrl)
           /\ ReaderReads(r) => \/ Moved(r, "handle", reader[r].on)
                                 \/ Moved(r, "off", reader[r].on)
           /\ ReaderDispatches(r) => Moved(r, "top", reader[r].on)
           /\ ReaderAnswers(r) => Moved(r, "write", ctrl)
           /\ ReaderAnswered(r) => Moved(r, "top", reader[r].on)
<1> DEFINE P == {"off", "top", "parse", "handle", "write"}
<1>1. reader \in ReaderType /\ ctrl \in Conns
  BY DEF TypeOK, ReaderType
<1>2. ASSUME NEW v \in P, reader' = [reader EXCEPT ![r].at = v]
      PROVE  Moved(r, v, reader[r].on)
  <2>1. reader' \in ReaderType
    BY <1>1, <1>2 DEF ReaderType
  <2>2. \A s \in Readers : reader'[s].at = IF s = r THEN v ELSE reader[s].at
    BY <1>1, <1>2 DEF ReaderType
  <2>3. \A s \in Readers : reader'[s].on = IF s = r THEN reader[r].on ELSE reader[s].on
    BY <1>1, <1>2 DEF ReaderType
  <2>4. QED
    BY <2>1, <2>2, <2>3 DEF Moved
<1>3. ASSUME NEW v \in P, reader' = [reader EXCEPT ![r].at = v, ![r].on = ctrl]
      PROVE  Moved(r, v, ctrl)
  <2>1. reader' \in ReaderType
    <3> DEFINE h == [reader EXCEPT ![r].at = v]
    <3>1. h \in ReaderType
      BY <1>1 DEF ReaderType
    <3>2. [h EXCEPT ![r].on = ctrl] \in ReaderType
      <4>1. ASSUME NEW k \in ReaderType
            PROVE  [k EXCEPT ![r].on = ctrl] \in ReaderType
        BY <1>1 DEF ReaderType
      <4> HIDE DEF h
      <4>2. QED
        BY <3>1, <4>1
    <3>3. reader' = [h EXCEPT ![r].on = ctrl]
      BY <1>3
    <3>4. QED
      BY <3>2, <3>3
  <2>2. \A s \in Readers : reader'[s].at = IF s = r THEN v ELSE reader[s].at
    BY <1>1, <1>3 DEF ReaderType
  <2>3. \A s \in Readers : reader'[s].on = IF s = r THEN ctrl ELSE reader[s].on
    BY <1>1, <1>3 DEF ReaderType
  <2>4. QED
    BY <2>1, <2>2, <2>3 DEF Moved
<1>4. ASSUME NEW f \in Frames,
             reader' = [reader EXCEPT ![r].at = "handle", ![r].frame = f]
      PROVE  Moved(r, "handle", reader[r].on)
  <2>1. reader' \in ReaderType
    <3> DEFINE h == [reader EXCEPT ![r].at = "handle"]
    <3>1. h \in ReaderType
      BY <1>1 DEF ReaderType
    <3>2. [h EXCEPT ![r].frame = f] \in ReaderType
      <4>1. ASSUME NEW k \in ReaderType
            PROVE  [k EXCEPT ![r].frame = f] \in ReaderType
        BY <1>4 DEF ReaderType
      <4> HIDE DEF h
      <4>2. QED
        BY <3>1, <4>1
    <3>3. reader' = [h EXCEPT ![r].frame = f]
      BY <1>4
    <3>4. QED
      BY <3>2, <3>3
  <2>2. \A s \in Readers : reader'[s].at = IF s = r THEN "handle" ELSE reader[s].at
    BY <1>1, <1>4 DEF ReaderType
  <2>3. \A s \in Readers : reader'[s].on = IF s = r THEN reader[r].on ELSE reader[s].on
    BY <1>1, <1>4 DEF ReaderType
  <2>4. QED
    BY <2>1, <2>2, <2>3 DEF Moved
<1>5. ReaderLoops(r) => Moved(r, "parse", ctrl)
  BY <1>3 DEF ReaderLoops
<1>6. ReaderReads(r) => \/ Moved(r, "handle", reader[r].on)
                         \/ Moved(r, "off", reader[r].on)
  BY <1>2, <1>4 DEF ReaderReads
<1>7. ReaderDispatches(r) => Moved(r, "top", reader[r].on)
  BY <1>2 DEF ReaderDispatches
<1>8. ReaderAnswers(r) => Moved(r, "write", ctrl)
  BY <1>3 DEF ReaderAnswers
<1>9. ReaderAnswered(r) => Moved(r, "top", reader[r].on)
  BY <1>2 DEF ReaderAnswered
<1>10. QED
  BY <1>5, <1>6, <1>7, <1>8, <1>9

LEMMA ReaderStarts ==
    ASSUME TypeOK, StartReader
    PROVE  \E r \in Readers : reader[r].at = "off" /\ Moved(r, "top", reader[r].on)
<1>1. reader \in ReaderType
  BY DEF TypeOK, ReaderType
<1>2. PICK r \in Readers : /\ reader[r].at = "off"
                          /\ reader' = [reader EXCEPT ![r].at = "top"]
  BY Zenon DEF StartReader
<1>3. reader' \in ReaderType
  BY <1>1, <1>2 DEF ReaderType
<1>4. \A s \in Readers : reader'[s].at = IF s = r THEN "top" ELSE reader[s].at
  BY <1>1, <1>2 DEF ReaderType
<1>5. \A s \in Readers : reader'[s].on = IF s = r THEN reader[r].on ELSE reader[s].on
  BY <1>1, <1>2 DEF ReaderType
<1>6. QED
  BY <1>2, <1>3, <1>4, <1>5 DEF Moved

LEMMA WriterMoves ==
    ASSUME TypeOK, NEW w \in Writers, CtrlWritten(w)
    PROVE  /\ writer' \in [Writers -> [at : {"idle", "write"}, on : Conns]]
           /\ \A x \in Writers :
                /\ writer'[x].at = IF x = w THEN "idle" ELSE writer[x].at
                /\ writer'[x].on = writer[x].on
<1>1. /\ writer \in [Writers -> [at : {"idle", "write"}, on : Conns]]
      /\ writer' = [writer EXCEPT ![w].at = "idle"]
  BY DEF TypeOK, CtrlWritten
<1>2. QED
  BY <1>1

(* Reading or sending a frame keeps the queues well formed.                 *)
LEMMA QueueType ==
    ASSUME TypeOK, NEW g \in Conns, NEW f \in Frames,
           ParseFrame(g, f) \/ Deliver(f)
    PROVE  queue' \in [Conns -> Seq(Frames)]
<1>1. CASE ParseFrame(g, f)
  <2>1. queue[g] \in Seq(Frames) /\ queue[g] # <<>>
    BY <1>1 DEF ParseFrame, TypeOK
  <2>2. Tail(queue[g]) \in Seq(Frames)
    BY <2>1
  <2>3. QED
    BY <1>1, <2>2 DEF ParseFrame, TypeOK
<1>2. CASE Deliver(f)
  <2>1. ctrl \in Conns /\ queue[ctrl] \in Seq(Frames)
    BY DEF TypeOK
  <2>2. Append(queue[ctrl], f) \in Seq(Frames)
    BY <2>1
  <2>3. QED
    BY <1>2, <2>1, <2>2 DEF Deliver, TypeOK
<1>3. QED
  BY <1>1, <1>2

LEMMA ControlType == ASSUME TypeOK, Next PROVE TypeOK'
<1> USE ControlBounds
<1>1. queue' \in [Conns -> Seq(Frames)]
  <2>1. CASE UNCHANGED queue
    BY <2>1 DEF TypeOK
  <2>2. CASE \E g \in Conns, f \in Frames : ParseFrame(g, f) \/ Deliver(f)
    BY <2>2, QueueType
  <2>3. 1 \in Conns /\ ctrl \in Conns
        /\ \A r \in Readers : reader[r].on \in Conns
    BY DEF Conns, TypeOK
  <2>4. /\ "ack" \in Frames /\ "observed" \in Frames
        /\ "offer" \in Frames /\ "notice" \in Frames
    BY DEF Frames
  <2>5. QED
    BY <2>1, <2>2, <2>3, <2>4, Zenon
       DEF Next, MainStep, ReaderStep, Expose, ExposeAck,
           QueryServerReflexive, QueryReturns, EnableP2P, RunReturns,
           CloseConn, SwapCtrl, Register, RegisterWritten,
           RegisterAck, Reconnected, QueryReads, ReaderLoops,
           ReaderReads, ReaderDispatches, ReaderAnswers,
           ReaderAnswered, WriteCtrl, CtrlWritten, RelayNotifies,
           RelayDies
<1>2. overlap' \in BOOLEAN
  BY Zenon
     DEF TypeOK, Next, MainStep, ReaderStep, Expose, ExposeAck,
         QueryServerReflexive, QueryReturns, EnableP2P, RunReturns,
         CloseConn, SwapCtrl, Register, RegisterWritten,
         RegisterAck, Reconnected, QueryReads, ReaderLoops,
         ReaderReads, ReaderDispatches, ReaderAnswers,
         ReaderAnswered, WriteCtrl, CtrlWritten, RelayNotifies,
         RelayDies
<1> USE <1>1, <1>2 DEF TypeOK
<1>3. ASSUME Expose \/ ExposeAck \/ RegisterWritten \/ RegisterAck
      PROVE  TypeOK'
  BY <1>3
     DEF Expose, ExposeAck, RegisterWritten, RegisterAck, goroutines,
         MainPCs
<1>4. ASSUME QueryServerReflexive \/ QueryReturns \/ QueryReads
      PROVE  TypeOK'
  BY <1>4
     DEF QueryServerReflexive, QueryReturns, QueryReads, goroutines,
         MainPCs
<1>5. ASSUME EnableP2P \/ Reconnected PROVE TypeOK'
  <2>1. reader' \in ReaderType
    BY <1>5, ReaderStarts DEF EnableP2P, Reconnected, Moved
  <2>2. QED
    BY <1>5, <2>1, ZenonT(30) DEF EnableP2P, Reconnected, MainPCs, ReaderType
<1>6. ASSUME RunReturns \/ CloseConn \/ SwapCtrl \/ Register
      PROVE  TypeOK'
  <2>1. ctrl' \in Conns
    BY <1>6
       DEF RunReturns, CloseConn, SwapCtrl, Register, Conns
  <2>2. QED
    BY <1>6, <2>1
       DEF RunReturns, CloseConn, SwapCtrl, Register, goroutines,
           MainPCs
<1>7. ASSUME NEW r \in Readers, ReaderStep(r) PROVE TypeOK'
  <2>1. reader' \in ReaderType
    BY <1>7, ReaderMoves DEF ReaderStep, Moved
  <2> HIDE DEF TypeOK
  <2>2. /\ mu' = mu \/ mu' = r \/ mu' = Free
        /\ UNCHANGED <<exposes, listens, main, ctrl, dead, registered, notices,
                       query, p2pEnabled, writer>>
    BY <1>7
       DEF ReaderStep, ReaderLoops, ReaderReads, ReaderDispatches,
           ReaderAnswers, ReaderAnswered
  <2>3. QED
    BY <2>1, <2>2 DEF TypeOK, ReaderType
<1>8. ASSUME NEW w \in Writers, WriteCtrl(w) \/ CtrlWritten(w)
      PROVE  TypeOK'
  <2>1. CASE WriteCtrl(w)
    BY <2>1 DEF WriteCtrl
  <2>2. CASE CtrlWritten(w)
    BY <2>2, WriterMoves, ZenonT(30) DEF CtrlWritten
  <2>3. QED
    BY <1>8, <2>1, <2>2, ZenonT(30)
<1>9. ASSUME NEW f, RelayNotifies(f) \/ RelayDies PROVE TypeOK'
  BY <1>9 DEF RelayNotifies, RelayDies
<1>10. QED
  BY <1>3, <1>4, <1>5, <1>6, <1>7, <1>8, <1>9, Zenon DEF Next, MainStep

(* The lock: SwapCtrl needs it, so a frame stays on its stream.             *)
LEMMA LockStep == ASSUME TypeOK, LockInv, Next PROVE LockInv'
<1> USE FreeAssumption DEF TypeOK, LockInv
<1>1. CASE UNCHANGED <<reader, writer, mu, ctrl>>
  BY <1>1
<1>2. CASE SwapCtrl
  BY <1>2 DEF SwapCtrl, goroutines
<1>3. CASE EnableP2P \/ Reconnected
  <2>1. PICK r \in Readers : reader[r].at = "off" /\ Moved(r, "top", reader[r].on)
    BY <1>3, ReaderStarts DEF EnableP2P, Reconnected
  <2>2. UNCHANGED <<writer, mu, ctrl>>
    BY <1>3 DEF EnableP2P, Reconnected
  <2>3. /\ \A s \in Readers : reader'[s].at = "write" =>
                                reader[s].at = "write" /\ reader'[s].on = reader[s].on
        /\ reader' \in ReaderType
    BY <2>1 DEF Moved
  <2>4. QED
    BY <2>2, <2>3
<1>4. ASSUME NEW r \in Readers, ReaderStep(r) PROVE LockInv'
  <2>1. CASE ReaderLoops(r) \/ ReaderReads(r) \/ ReaderDispatches(r)
    <3>1. \E v \in {"parse", "handle", "off", "top"} : \E g : Moved(r, v, g)
      BY <2>1, ReaderMoves, ZenonT(30)
    <3>2. UNCHANGED <<writer, mu, ctrl>>
      BY <2>1 DEF ReaderLoops, ReaderReads, ReaderDispatches
    <3>3. QED
      BY <3>1, <3>2, ZenonT(30) DEF Moved
  <2>2. CASE ReaderAnswers(r)
    <3>1. mu = Free /\ mu' = r /\ UNCHANGED <<writer, ctrl>>
      BY <2>2 DEF ReaderAnswers
    <3>2. QED
      BY <2>2, <3>1, ReaderMoves DEF Moved
  <2>3. CASE ReaderAnswered(r)
    <3>1. reader[r].at = "write" /\ mu' = Free /\ UNCHANGED <<writer, ctrl>>
      BY <2>3 DEF ReaderAnswered
    <3>2. QED
      BY <2>3, <3>1, ReaderMoves DEF Moved
  <2>4. QED
    BY <1>4, <2>1, <2>2, <2>3 DEF ReaderStep
<1>5. ASSUME NEW w \in Writers, WriteCtrl(w) PROVE LockInv'
  BY <1>5 DEF WriteCtrl
<1>6. ASSUME NEW w \in Writers, CtrlWritten(w) PROVE LockInv'
  <2>1. writer[w].at = "write" /\ mu' = Free /\ UNCHANGED <<reader, ctrl>>
    BY <1>6 DEF CtrlWritten
  <2>2. QED
    BY <1>6, <2>1, WriterMoves, SMTT(30)
<1>7. QED
  BY <1>1, <1>2, <1>3, <1>4, <1>5, <1>6, Zenon
     DEF Next, MainStep, Expose, ExposeAck, QueryServerReflexive,
         QueryReturns, RunReturns, CloseConn, Register,
         RegisterWritten, RegisterAck, QueryReads, RelayNotifies,
         RelayDies, goroutines

LEMMA ChainStep == ASSUME TypeOK, ChainInv, Next PROVE ChainInv'
<1> USE ControlBounds DEF TypeOK, ChainInv, Conns
<1>1. CASE SwapCtrl
  BY <1>1 DEF SwapCtrl, goroutines
<1>2. CASE CloseConn
  BY <1>2 DEF CloseConn, goroutines
<1>3. CASE EnableP2P \/ Reconnected
  <2>1. PICK r \in Readers : Moved(r, "top", reader[r].on)
    BY <1>3, ReaderStarts DEF EnableP2P, Reconnected
  <2>2. main' # "dial" /\ UNCHANGED <<ctrl, dead>>
    BY <1>3 DEF EnableP2P, Reconnected
  <2>3. QED
    BY <2>1, <2>2, ZenonT(30) DEF Moved
<1>4. CASE \E r \in Readers : ReaderStep(r)
  <2>1. PICK r \in Readers : ReaderStep(r)
    BY <1>4
  <2>2. UNCHANGED <<main, ctrl, dead>>
    BY <2>1
       DEF ReaderStep, ReaderLoops, ReaderReads, ReaderDispatches,
           ReaderAnswers, ReaderAnswered
  <2>3. CASE ReaderLoops(r)
    <3>1. Moved(r, "parse", ctrl) /\ ctrl \in Nat
      BY <2>3, ReaderMoves
    <3>2. ASSUME NEW q \in Readers, reader'[q].at = "parse"
          PROVE  reader'[q].on <= ctrl
      <4>1. CASE q = r
        <5>1. reader'[q].on = ctrl
          BY <3>1, <4>1 DEF Moved
        <5>2. QED
          BY <3>1, <5>1
      <4>2. CASE q # r
        BY <3>1, <3>2, <4>2 DEF Moved
      <4>3. QED
        BY <4>1, <4>2
    <3>3. QED
      BY <2>2, <3>2
  <2>4. CASE ~ReaderLoops(r)
    <3>1. \E v \in {"handle", "off", "top", "write"} : \E g : Moved(r, v, g)
      BY <2>1, <2>4, ReaderMoves, ZenonT(30) DEF ReaderStep
    <3>2. QED
      BY <2>2, <3>1, ZenonT(30) DEF Moved
  <2>5. QED
    BY <2>3, <2>4
<1>5. CASE RelayDies
  BY <1>5 DEF RelayDies
<1>6. CASE /\ UNCHANGED <<reader, ctrl>>
           /\ dead \subseteq dead'
           /\ main' # "dial" \/ UNCHANGED main
  BY <1>6
<1>7. QED
  BY <1>1, <1>2, <1>3, <1>4, <1>5, <1>6
     DEF Next, MainStep, Expose, ExposeAck, QueryServerReflexive,
         QueryReturns, RunReturns, Register, RegisterWritten,
         RegisterAck, QueryReads, WriteCtrl, CtrlWritten,
         RelayNotifies, goroutines

LEMMA SingleStep ==
    ASSUME TypeOK, ChainInv, SingleInv, Next
    PROVE  SingleInv'
<1> USE DEF TypeOK, SingleInv, Active
<1>1. CASE SwapCtrl
  <2>1. SUFFICES ASSUME ~overlap'
                 PROVE  /\ \A r \in Readers : ~Active(r)'
                        /\ query' # "parse"
    OBVIOUS
  <2>2. \A r \in Readers : reader[r].at = "parse" => reader[r].on # ctrl + 1
    BY DEF ChainInv, Conns
  <2>3. QED
    BY <1>1, <2>1, <2>2, ZenonT(30) DEF SwapCtrl, goroutines
<1>2. CASE EnableP2P \/ Reconnected
  <2>1. PICK r \in Readers : Moved(r, "top", reader[r].on)
    BY <1>2, ReaderStarts DEF EnableP2P, Reconnected
  <2>2. /\ main \in {"enable", "resume"} /\ main' = "run"
        /\ UNCHANGED <<ctrl, query, overlap>>
    BY <1>2 DEF EnableP2P, Reconnected
  <2>3. QED
    BY <2>1, <2>2 DEF Moved
<1>3. CASE QueryServerReflexive
  BY <1>3 DEF QueryServerReflexive
<1>4. CASE QueryReads
  BY <1>4 DEF QueryReads
<1>5. CASE QueryReturns
  BY <1>5, ZenonT(30) DEF QueryReturns, goroutines
<1>6. ASSUME NEW r \in Readers, ReaderStep(r) PROVE SingleInv'
  <2>1. UNCHANGED <<main, ctrl, query>>
    BY <1>6
       DEF ReaderStep, ReaderLoops, ReaderReads, ReaderDispatches,
           ReaderAnswers, ReaderAnswered
  <2>2. \E v, g : Moved(r, v, g)
    BY <1>6, ReaderMoves, ZenonT(30) DEF ReaderStep
  <2>3. ~overlap' => ~overlap /\ (Active(r)' => Active(r))
    <3>1. CASE ReaderReads(r)
      <4>1. CASE \E f \in Frames : ParseFrame(reader[r].on, f)
                                   /\ overlap' = (overlap \/ reader[r].on # ctrl)
        BY <3>1, <4>1, ZenonT(30) DEF ReaderReads
      <4>2. CASE reader' = [reader EXCEPT ![r].at = "off"] /\ overlap' = overlap
        BY <4>2
      <4>3. QED
        BY <3>1, <4>1, <4>2, Zenon DEF ReaderReads
    <3>2. CASE ~ReaderReads(r)
      BY <1>6, <3>2
         DEF ReaderStep, ReaderLoops, ReaderDispatches, ReaderAnswers,
             ReaderAnswered
    <3>3. QED
      BY <3>1, <3>2
  <2>4. \A s \in Readers \ {r} : Active(s)' <=> Active(s)
    BY <2>1, <2>2 DEF Moved
  <2> HIDE DEF Active
  <2>5. QED
    BY <2>1, <2>3, <2>4, ZenonT(30)
<1>7. CASE Expose \/ ExposeAck \/ RunReturns \/ CloseConn
  BY <1>7 DEF Expose, ExposeAck, RunReturns, CloseConn, goroutines
<1>8. CASE Register \/ RegisterWritten \/ RegisterAck
  BY <1>8 DEF Register, RegisterWritten, RegisterAck, goroutines
<1>9. CASE UNCHANGED <<main, ctrl, reader, query, overlap>>
  BY <1>9
<1>10. QED
  BY <1>1, <1>2, <1>3, <1>4, <1>5, <1>6, <1>7, <1>8, <1>9, Zenon
     DEF Next, MainStep, WriteCtrl, CtrlWritten, RelayNotifies,
         RelayDies

LEMMA ControlInvariant == Spec => []ControlInv
<1>1. Init => ControlInv
  BY ControlInit
<1>2. ControlInv /\ [Next]_(vars) => ControlInv'
  <2>1. CASE Next
    BY <2>1, ControlType, LockStep, ChainStep, SingleStep DEF ControlInv
  <2>2. CASE UNCHANGED vars
    BY <2>2 DEF vars, ControlInv, TypeOK, LockInv, ChainInv, SingleInv, Active
  <2>3. QED
    BY <2>1, <2>2
<1>3. QED
  BY <1>1, <1>2, PTL DEF Spec

(* Reconnect never swaps the control stream under a frame that Promote, the *)
(* emitter or a controlReader is writing, however many of them there are.   *)
THEOREM SwapBetweenFrames == Spec => []NoFrameAcrossSwap
<1>1. ControlInv => NoFrameAcrossSwap
  BY DEF ControlInv, LockInv, NoFrameAcrossSwap
<1>2. QED
  BY <1>1, ControlInvariant, PTL

(* One goroutine at a time reads a live control stream, for any number of   *)
(* controlReaders and connections, unless a swap or a timeout overlapped a  *)
(* reader.                                                                  *)
THEOREM OneReader == Spec => []OneReaderUnlessOverlap
<1>1. ASSUME ControlInv PROVE OneReaderUnlessOverlap
  <2> SUFFICES ASSUME NEW g \in Conns \ dead, ~overlap
               PROVE  Cardinality(Blocked(g))
                      + (IF g = ctrl /\ main \in {"exposeAck", "ack"} THEN 1 ELSE 0)
                      + (IF g = 1 /\ query = "parse" THEN 1 ELSE 0) <= 1
    BY DEF OneReaderUnlessOverlap
  <2>1. query = "parse" => main = "queryWait"
    BY <1>1 DEF ControlInv, SingleInv
  <2>2. \A r \in Blocked(g) : Active(r)
    BY <1>1 DEF ControlInv, ChainInv, TypeOK, Conns, Blocked, Active
  <2>3. CASE Blocked(g) = {}
    <3>1. Cardinality(Blocked(g)) = 0
      BY <2>3, FS_EmptySet
    <3>2. QED
      BY <2>1, <3>1
  <2>4. CASE Blocked(g) # {}
    <3>1. PICK r : r \in Blocked(g)
      BY <2>4
    <3>2. Blocked(g) \subseteq Readers
      BY DEF Blocked
    <3>3. Blocked(g) = {r}
      BY <1>1, <2>2, <3>1, <3>2 DEF ControlInv, SingleInv
    <3>4. Cardinality(Blocked(g)) = 1
      BY <3>3, FS_Singleton
    <3>5. main \in {"run", "close", "dial"}
      BY <1>1, <2>2, <3>1, <3>2 DEF ControlInv, SingleInv
    <3>6. QED
      BY <2>1, <3>4, <3>5
  <2>5. QED
    BY <2>3, <2>4
<1>2. QED
  BY <1>1, ControlInvariant, PTL

-----------------------------------------------------------------------------
(* The Resume loops of several agents.                                      *)

(* What a loop works on: only streams its agent holds, each of which is     *)
(* still to come, under way, matched by the relay, or no longer held.       *)
LoopInv ==
    \A a \in Agents :
        /\ held[a] \subseteq Held(a)
        /\ pending[a] \subseteq held[a]
        /\ cur[a] # NoStream => at[a] = "loop" /\ cur[a] \in held[a] \ pending[a]
        /\ at[a] # "loop" => pending[a] = {}
        /\ at[a] \in {"loop", "run"} =>
            \A s \in held[a] : s \in pending[a] \/ s = cur[a] \/ s \in paired

(* End b has taken another stream than s, which it held when its loop       *)
(* began.                                                                   *)
Behind(b, s) ==
    \E t \in Held(b) \ ({s} \cup pending[b]) : t \in held[b] \/ <<b, t>> \in dropped

(* A half that has waited for longer than anybody stays away has waited     *)
(* while every agent in its loop was waiting too, for another stream.       *)
LateInv ==
    \A a \in Agents :
        Waiting(a) =>
            /\ waited[a] <= MaxDelay => waited[a] <= now
            /\ waited[a] > MaxDelay =>
                \A b \in Agents :
                    /\ at[b] \notin {"lost", "dialed"}
                    /\ b # a /\ at[b] = "loop" => Behind(b, cur[a])

RendezvousInv ==
    /\ LoopsTypeOK
    /\ LoopInv
    /\ LateInv

LEMMA RendezvousInit == ASSUME LoopsInit PROVE RendezvousInv
<1>1. LoopsTypeOK
  BY SettingAssumption DEF Setting, LoopsInit, LoopsTypeOK, Held
<1>2. LoopInv
  BY DEF LoopsInit, LoopInv
<1>3. LateInv
  BY DEF LoopsInit, LateInv, Waiting
<1>4. QED
  BY <1>1, <1>2, <1>3 DEF RendezvousInv

(* Every step keeps the types.                                              *)
LEMMA RendezvousType ==
    ASSUME LoopsTypeOK, LoopInv, LoopsNext
    PROVE  LoopsTypeOK'
<1> USE SettingAssumption DEF Setting, LoopsTypeOK
<1>1. ASSUME NEW a \in Agents, Go(a) \/ Redial(a) \/ BackToRun(a)
      PROVE  LoopsTypeOK'
  BY <1>1 DEF Go, Redial, BackToRun
<1>2. ASSUME NEW a \in Agents, NEW s \in Streams, Close(a, s) PROVE LoopsTypeOK'
  BY <1>2 DEF Close
<1>3. ASSUME NEW a \in Agents, ActiveStreams(a) PROVE LoopsTypeOK'
  BY <1>3 DEF ActiveStreams
<1>4. ASSUME NEW a \in Agents, NEW s \in Streams, SendResume(a, s)
      PROVE  LoopsTypeOK'
  BY <1>4 DEF SendResume
<1>5. ASSUME NEW s \in Streams, Pair(s) PROVE LoopsTypeOK'
  BY <1>5 DEF Pair
<1>6. ASSUME NEW a \in Agents, SwapInner(a) PROVE LoopsTypeOK'
  <2>1. <<a, cur[a]>> \in Agents \X Streams
    BY <1>6 DEF SwapInner
  <2>2. QED
    BY <1>6, <2>1 DEF SwapInner
<1>7. ASSUME NEW a \in Agents, ResumeExpired(a) PROVE LoopsTypeOK'
  BY <1>7 DEF ResumeExpired
<1>8. ASSUME Tick PROVE LoopsTypeOK'
  <2>1. now' \in 0..MaxDelay
    BY <1>8 DEF Tick
  <2>2. ASSUME NEW a \in Agents
        PROVE  waited[a] + (IF Waiting(a) THEN 1 ELSE 0) \in 0..Window
    <3>1. CASE Waiting(a)
      <4>1. at[a] = "loop"
        BY <3>1 DEF LoopInv, Waiting
      <4>2. waited[a] < Window
        BY <4>1, <1>8 DEF Tick, Quiet
      <4>3. QED
        BY <3>1, <4>2
    <3>2. CASE ~Waiting(a)
      BY <3>2
    <3>3. QED
      BY <3>1, <3>2
  <2>3. waited' \in [Agents -> 0..Window]
    BY <1>8, <2>2 DEF Tick
  <2>4. QED
    BY <1>8, <2>1, <2>3 DEF Tick
<1>9. QED
  BY <1>1, <1>2, <1>3, <1>4, <1>5, <1>6, <1>7, <1>8, Zenon
     DEF LoopsNext, AgentStep

LEMMA LoopStep ==
    ASSUME LoopsTypeOK, LoopInv, LoopsNext
    PROVE  LoopInv'
<1> USE SettingAssumption DEF Setting, LoopsTypeOK, LoopInv
<1>1. ASSUME NEW a \in Agents, Go(a) \/ Redial(a) \/ BackToRun(a)
      PROVE  LoopInv'
  <2>1. CASE Go(a)
    BY <2>1 DEF Go
  <2>2. CASE Redial(a)
    BY <2>2 DEF Redial
  <2>3. CASE BackToRun(a)
    BY <2>3 DEF BackToRun
  <2>4. QED
    BY <1>1, <2>1, <2>2, <2>3
<1>2. ASSUME NEW a \in Agents, NEW s \in Streams, Close(a, s) PROVE LoopInv'
  BY <1>2 DEF Close
<1>3. ASSUME NEW a \in Agents, ActiveStreams(a) PROVE LoopInv'
  BY <1>3 DEF ActiveStreams
<1>4. ASSUME NEW a \in Agents, NEW s \in Streams, SendResume(a, s)
      PROVE  LoopInv'
  BY <1>4 DEF SendResume
<1>5. ASSUME NEW s \in Streams, Pair(s) PROVE LoopInv'
  BY <1>5 DEF Pair
<1>6. ASSUME NEW a \in Agents, SwapInner(a) PROVE LoopInv'
  BY <1>6 DEF SwapInner
<1>7. ASSUME NEW a \in Agents, ResumeExpired(a) PROVE LoopInv'
  BY <1>7 DEF ResumeExpired
<1>8. ASSUME Tick PROVE LoopInv'
  BY <1>8 DEF Tick
<1>9. QED
  BY <1>1, <1>2, <1>3, <1>4, <1>5, <1>6, <1>7, <1>8, ZenonT(30)
     DEF LoopsNext, AgentStep

(* What a step of an agent leaves alone: nobody gets lost again, and what   *)
(* was taken stays taken.                                                   *)
LEMMA BehindStep ==
    ASSUME LoopsTypeOK, LoopInv, LoopsNext, NEW b \in Agents,
           at[b] \notin {"lost", "dialed"}
    PROVE  /\ at'[b] \notin {"lost", "dialed"}
           /\ at'[b] = "loop" => at[b] = "loop"
           /\ \A s \in Streams : at[b] = "loop" /\ Behind(b, s) => Behind(b, s)'
<1> USE SettingAssumption DEF Setting, LoopsTypeOK
<1>1. ASSUME NEW a \in Agents, Go(a) \/ Redial(a) \/ BackToRun(a) \/ ActiveStreams(a)
      PROVE  /\ at'[b] = at[b] \/ at'[b] = "run"
             /\ pending'[b] = pending[b] /\ held'[b] = held[b] /\ dropped' = dropped
  BY <1>1 DEF Go, Redial, BackToRun, ActiveStreams, LoopInv
<1>2. ASSUME NEW a \in Agents, NEW s \in Streams, Close(a, s)
      PROVE  /\ at'[b] = at[b]
             /\ pending'[b] = pending[b] /\ held'[b] = held[b] /\ dropped' = dropped
  BY <1>2 DEF Close
<1>3. ASSUME NEW a \in Agents, NEW s \in Streams, SendResume(a, s)
      PROVE  /\ at'[b] = at[b] /\ held'[b] = held[b] /\ dropped' = dropped
             /\ pending'[b] \subseteq pending[b]
  BY <1>3 DEF SendResume
<1>4. ASSUME NEW a \in Agents, ResumeExpired(a)
      PROVE  /\ at'[b] = at[b] /\ pending'[b] = pending[b] /\ dropped \subseteq dropped'
             /\ \A t \in held[b] : t \in held'[b] \/ <<b, t>> \in dropped'
  BY <1>4 DEF ResumeExpired
<1>5. ASSUME \/ \E s \in Streams : Pair(s)
             \/ \E a \in Agents : SwapInner(a)
             \/ Tick
      PROVE  UNCHANGED <<at, pending, held, dropped>>
  BY <1>5, Zenon DEF Pair, SwapInner, Tick
<1>6. /\ at'[b] = at[b] \/ at'[b] = "run"
      /\ pending'[b] \subseteq pending[b] /\ dropped \subseteq dropped'
      /\ \A t \in held[b] : t \in held'[b] \/ <<b, t>> \in dropped'
  BY <1>1, <1>2, <1>3, <1>4, <1>5, Zenon DEF LoopsNext, AgentStep
<1>7. ASSUME NEW s \in Streams, Behind(b, s) PROVE Behind(b, s)'
  BY <1>6, <1>7, Zenon DEF Behind
<1>8. QED
  BY <1>6, <1>7

LEMMA LateStep ==
    ASSUME RendezvousInv, LoopsNext
    PROVE  LateInv'
<1> USE SettingAssumption DEF Setting, RendezvousInv, LoopsTypeOK
<1> SUFFICES ASSUME NEW a \in Agents, Waiting(a)'
             PROVE  /\ waited'[a] <= MaxDelay => waited'[a] <= now'
                    /\ waited'[a] > MaxDelay =>
                        \A b \in Agents :
                            /\ at'[b] \notin {"lost", "dialed"}
                            /\ b # a /\ at'[b] = "loop" => Behind(b, cur[a])'
  BY DEF LateInv
<1>1. CASE \E s \in Streams : SendResume(a, s)
  BY <1>1 DEF SendResume
<1>2. CASE Tick
  <2>1. /\ Waiting(a) /\ cur' = cur /\ at' = at /\ UNCHANGED <<pending, held, dropped>>
        /\ waited'[a] = waited[a] + 1
        /\ now' = IF now < MaxDelay THEN now + 1 ELSE now
    BY <1>2 DEF Tick, Waiting
  <2>2. waited'[a] <= MaxDelay => waited'[a] <= now'
    BY <2>1 DEF LateInv
  <2>3. ASSUME waited'[a] > MaxDelay, NEW b \in Agents
        PROVE  /\ at[b] \notin {"lost", "dialed"}
               /\ b # a /\ at[b] = "loop" => Behind(b, cur[a])
    <3>1. now = MaxDelay \/ waited[a] > MaxDelay
      BY <2>1, <2>3 DEF LateInv
    <3>2. at[b] \notin {"lost", "dialed"}
      BY <1>2, <2>1, <3>1 DEF LateInv, Tick, Quiet
    <3>3. ASSUME b # a, at[b] = "loop" PROVE Behind(b, cur[a])
      <4>1. Waiting(b) /\ cur[b] # cur[a]
        BY <1>2, <2>1, <3>3 DEF Tick, Quiet
      <4>2. cur[b] \in held[b] \ pending[b] /\ cur[b] \in Held(b)
        BY <4>1 DEF Waiting, LoopInv
      <4>3. QED
        BY <4>1, <4>2, Zenon DEF Behind
    <3>4. QED
      BY <3>2, <3>3
  <2>4. ASSUME NEW b \in Agents, Behind(b, cur[a]) PROVE Behind(b, cur[a])'
    BY <2>1, <2>4, Zenon DEF Behind
  <2>5. QED
    BY <2>1, <2>2, <2>3, <2>4, Zenon
<1>3. CASE ~Tick /\ ~(\E s \in Streams : SendResume(a, s))
  <2> DEFINE Keeps == /\ now' = now /\ waited'[a] = waited[a]
                      /\ cur'[a] = cur[a] \/ cur'[a] = NoStream
                      /\ paired \subseteq paired'
  <2>1. ASSUME NEW b \in Agents, Go(b) \/ Redial(b) \/ BackToRun(b) \/ ActiveStreams(b)
        PROVE  Keeps
    BY <2>1 DEF Go, Redial, BackToRun, ActiveStreams
  <2>2. ASSUME NEW b \in Agents, NEW s \in Streams, Close(b, s) PROVE Keeps
    BY <2>2 DEF Close
  <2>3. ASSUME NEW b \in Agents, NEW s \in Streams, SendResume(b, s) PROVE Keeps
    <3>1. b # a
      BY <1>3, <2>3
    <3>2. QED
      BY <2>3, <3>1 DEF SendResume
  <2>4. ASSUME NEW b \in Agents, SwapInner(b) \/ ResumeExpired(b) PROVE Keeps
    BY <2>4 DEF SwapInner, ResumeExpired
  <2>5. ASSUME NEW s \in Streams, Pair(s) PROVE Keeps
    BY <2>5 DEF Pair
  <2>6. Keeps
    BY <1>3, <2>1, <2>2, <2>3, <2>4, <2>5, Zenon DEF LoopsNext, AgentStep
  <2>7. cur'[a] = cur[a] /\ Waiting(a) /\ cur[a] \in Streams
    BY <2>6 DEF Waiting
  <2>8. waited'[a] <= MaxDelay => waited'[a] <= now'
    BY <2>6, <2>7 DEF LateInv
  <2>9. ASSUME waited'[a] > MaxDelay, NEW b \in Agents
        PROVE  /\ at'[b] \notin {"lost", "dialed"}
               /\ b # a /\ at'[b] = "loop" => Behind(b, cur[a])'
    <3>1. /\ at[b] \notin {"lost", "dialed"}
          /\ b # a /\ at[b] = "loop" => Behind(b, cur[a])
      BY <2>6, <2>7, <2>9 DEF LateInv
    <3>2. PICK s \in Streams : s = cur[a]
      BY <2>7
    <3>3. b # a /\ at'[b] = "loop" => Behind(b, s)'
      BY <3>1, <3>2, BehindStep, Zenon
    <3>4. s = cur'[a]
      BY <2>7, <3>2
    <3>5. Behind(b, s)' => Behind(b, cur[a])'
      BY <3>4, Zenon DEF Behind
    <3>6. QED
      BY <3>1, <3>3, <3>5, BehindStep, Zenon
  <2>10. QED
    BY <2>8, <2>9, Zenon
<1>4. QED
  BY <1>1, <1>2, <1>3, Zenon

(* For any number of agents and streams, any order of their loops, and any  *)
(* window that is longer than an agent stays away: Reconnect drops a stream *)
(* that both ends replay only when the other end is in its loop, or gave    *)
(* the stream up there, and has put another stream first.                   *)
THEOREM OnlyLoopsBlockLoops == LoopsSpec => DropsBehindAnother
<1>1. LoopsInit => RendezvousInv
  BY RendezvousInit
<1>2. RendezvousInv /\ [LoopsNext]_loopVars => RendezvousInv'
  <2>1. CASE LoopsNext
    BY <2>1, RendezvousType, LoopStep, LateStep, SMTT(30) DEF RendezvousInv
  <2>2. CASE UNCHANGED loopVars
    BY <2>2
       DEF loopVars, RendezvousInv, LoopsTypeOK, LoopInv, LateInv, Waiting, Behind
  <2>3. QED
    BY <2>1, <2>2
<1> DEFINE Explained == \A a \in Agents, s \in Streams :
             <<a, s>> \in dropped' \ dropped /\ Replayed(s) =>
               \A b \in Ends[s] \ {a} :
                 \/ <<b, s>> \in dropped
                 \/ /\ at[b] = "loop"
                    /\ s \in pending[b] \/ cur[b] = s
                    /\ Behind(b, s)
<1>3. RendezvousInv /\ LoopsNext => Explained
  <2> SUFFICES ASSUME RendezvousInv, LoopsNext, NEW a \in Agents, NEW s \in Streams,
                      <<a, s>> \in dropped' \ dropped, Replayed(s),
                      NEW b \in Ends[s] \ {a}, <<b, s>> \notin dropped
               PROVE  /\ at[b] = "loop"
                      /\ s \in pending[b] \/ cur[b] = s
                      /\ Behind(b, s)
    BY Zenon
  <2> USE SettingAssumption DEF Setting, RendezvousInv, LoopsTypeOK
  <2>1. PICK x \in Agents : ResumeExpired(x)
    BY Zenon DEF LoopsNext, AgentStep, Go, Redial, BackToRun, Close, ActiveStreams, SendResume,
       Pair, SwapInner, Tick
  <2>2. <<a, s>> = <<x, cur[x]>>
    BY <2>1, Zenon DEF ResumeExpired
  <2>3. cur[a] = s /\ s \notin paired /\ waited[a] = Window /\ s # NoStream /\ Waiting(a)
    BY <2>1, <2>2 DEF ResumeExpired, Waiting
  <2>4. b \in Agents /\ b # a /\ at[b] \notin {"kept", "gone"} /\ s \in held[b]
    BY DEF Replayed
  <2>5. at[b] \notin {"lost", "dialed"} /\ (at[b] = "loop" => Behind(b, s))
    BY <2>3, <2>4 DEF LateInv
  <2>6. s \in pending[b] \/ cur[b] = s
    BY <2>3, <2>4, <2>5 DEF LoopInv
  <2>7. at[b] = "loop"
    BY <2>3, <2>4, <2>6 DEF LoopInv
  <2>8. QED
    BY <2>5, <2>6, <2>7
<1>4. RendezvousInv /\ [LoopsNext]_loopVars => [Explained]_loopVars
  BY <1>3, Zenon
<1> HIDE DEF Explained
<1>5. LoopsSpec => [][Explained]_loopVars
  BY <1>1, <1>2, <1>4, PTL DEF LoopsSpec
<1>6. QED
  BY <1>5 DEF Explained, Behind, DropsBehindAnother
=============================================================================
