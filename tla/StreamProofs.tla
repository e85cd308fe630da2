---------------------------- MODULE StreamProofs ----------------------------
(***************************************************************************)
(* Proofs about the streams of a Session: the registry (StreamTable), for  *)
(* any number of wrappers, ids and connections, and the choice of a        *)
(* stream's data path with the teardown of forward sessions (StreamMode).  *)
(* StreamMode has no constants: what its proofs add to the run is the      *)
(* argument, which is in the invariants.                                   *)
(***************************************************************************)
EXTENDS StreamTable, StreamMode, TLAPS

-----------------------------------------------------------------------------
(* The stream registry.                                                     *)


(* w has been in the map, or was given up before it got there. *)
Used(w) == pc[w] \in {"bridge", "mark", "closed"}

(* What the map holds is in use and has the id it is registered under. *)
MapInv ==
    /\ \A i \in Ids, w \in Wrappers : streams[i] = w => id[w] = i /\ pc[w] = "bridge"
    /\ \A w \in Wrappers : id[w] = None => pc[w] \in {"unused", "dial"}

(* Who is being torn down: a wrapper in use, by its own Close or failed     *)
(* Resume, or by that of a namesake.                                        *)
VictimInv ==
    /\ \A t \in Wrappers \cup {None}, w \in Wrappers :
        victim[t] = w => Used(w) /\ (w \in ended \/ Namesakes(w) # {})
    /\ phase # "mark" => victim[None] = None

(* Only a wrapper in use is marked, and its owner knows. *)
MarkInv ==
    /\ \A w \in Wrappers : abandoned[w] => Used(w)
    /\ \A w \in Wrappers : pc[w] = "mark" => w \in ended
    /\ AbandonedByOwner

(* The streams of a Reconnect are in use, and each one is still to do,      *)
(* resumed, or no longer in the map.                                        *)
ListInv ==
    /\ \A w \in todo \cup listed : Used(w)
    /\ phase \in {"resume", "mark"} =>
        \A w \in listed : \/ w \in todo
                          \/ inner[w] = conn
                          \/ streams[id[w]] # w

TableInv ==
    /\ TypeOK
    /\ MapInv
    /\ VictimInv
    /\ MarkInv
    /\ ListInv
    /\ DroppedIsTold

LEMMA TableInit == Init => TableInv
<1> SUFFICES ASSUME Init PROVE TableInv
  OBVIOUS
<1> USE NoneAssumption, MaxConnsAssumption
<1>1. TypeOK
  BY DEF Init, TypeOK, Phases, PCs
<1>2. MapInv
  BY DEF Init, MapInv
<1>3. VictimInv
  BY DEF Init, VictimInv
<1>4. MarkInv
  BY DEF Init, MarkInv, AbandonedByOwner
<1>5. ListInv
  BY DEF Init, ListInv
<1>6. DroppedIsTold
  BY DEF Init, DroppedIsTold
<1>7. QED
  BY <1>1, <1>2, <1>3, <1>4, <1>5, <1>6 DEF TableInv

LEMMA TypeStep == ASSUME TypeOK, MapInv, ListInv, [Next]_vars PROVE TypeOK'
<1> USE NoneAssumption, MaxConnsAssumption
<1>1. CASE \E w \in Wrappers : OpenStream(w) \/ FreshStreamID(w) \/ SendOpenStream(w) \/ HandleIncoming(w)
  BY <1>1 DEF TypeOK, PCs, Phases, OpenStream, FreshStreamID, SendOpenStream,
              HandleIncoming, reconnectVars
<1>2. CASE \E w \in Wrappers : WrapStream(w) \/ MarkAbandoned(w)
  <2> PICK w \in Wrappers : WrapStream(w) \/ MarkAbandoned(w)
    BY <1>2
  <2>1. CASE WrapStream(w)
    <3>1. id[w] \in Ids
      BY <2>1 DEF TypeOK, MapInv, WrapStream
    <3>2. QED
      BY <2>1, <3>1 DEF TypeOK, PCs, Phases, WrapStream, reconnectVars
  <2>2. CASE MarkAbandoned(w)
    <3>1. abandoned' \in [Wrappers -> BOOLEAN]
      BY <2>2, Zenon DEF TypeOK, MarkAbandoned
    <3>2. QED
      BY <2>2, <3>1 DEF TypeOK, PCs, Phases, MarkAbandoned, reconnectVars
  <2>3. QED
    BY <2>1, <2>2
<1>3. CASE \E w \in Wrappers : Close(w) \/ Resume(w) \/ ResumeFails(w)
  <2> PICK w \in Wrappers : Close(w) \/ Resume(w) \/ ResumeFails(w)
    BY <1>3
  <2>1. CASE Close(w)
    <3>1. id[w] \in Ids
      BY <2>1 DEF TypeOK, MapInv, Close
    <3>2. QED
      BY <2>1, <3>1 DEF TypeOK, PCs, Phases, Close, ForgetStream, reconnectVars
  <2>2. CASE Resume(w)
    BY <2>2 DEF TypeOK, PCs, Phases, Resume
  <2>3. CASE ResumeFails(w)
    <3>1. id[w] \in Ids
      BY <2>3 DEF TypeOK, MapInv, ListInv, Used, ResumeFails
    <3>2. QED
      BY <2>3, <3>1 DEF TypeOK, PCs, Phases, ResumeFails, ForgetStream
  <2>4. QED
    BY <2>1, <2>2, <2>3
<1>4. CASE LoseConn \/ RegisterFails \/ Reconnected
  BY <1>4, ZenonT(30) DEF TypeOK, PCs, Phases, LoseConn, RegisterFails, Reconnected
<1>9. CASE Redial
  <2>1. conn' \in 1..MaxConns
    BY <1>9 DEF TypeOK, Redial
  <2>2. QED
    BY <1>9, <2>1 DEF TypeOK, Phases, Redial
<1>5. CASE ActiveStreams
  BY <1>5 DEF TypeOK, PCs, Phases, ActiveStreams
<1>8. CASE MarkDropped
  <2>1. abandoned' \in [Wrappers -> BOOLEAN]
    BY <1>8, Zenon DEF TypeOK, MarkDropped
  <2>2. QED
    BY <1>8, <2>1 DEF TypeOK, PCs, Phases, MarkDropped
<1>6. CASE UNCHANGED vars
  BY <1>6 DEF TypeOK, vars
<1>7. QED
  BY <1>1, <1>2, <1>3, <1>4, <1>5, <1>6, <1>8, <1>9 DEF Next, WrapperStep

(* What no step undoes: a wrapper in use keeps its id and stays in use, and *)
(* what is marked stays marked.                                             *)
LEMMA Mono ==
    ASSUME TypeOK, [Next]_vars, NEW w \in Wrappers
    PROVE  /\ Used(w) => Used(w)' /\ id'[w] = id[w]
           /\ abandoned[w] => abandoned'[w]
           /\ w \in ended => w \in ended'
<1>1. CASE \E v \in Wrappers : WrapperStep(v)
  <2> PICK v \in Wrappers : WrapperStep(v)
    BY <1>1
  <2>1. CASE OpenStream(v) \/ FreshStreamID(v) \/ SendOpenStream(v) \/ HandleIncoming(v)
    BY <2>1 DEF TypeOK, Used, OpenStream, FreshStreamID, SendOpenStream, HandleIncoming
  <2>2. CASE WrapStream(v) \/ Close(v) \/ Resume(v) \/ ResumeFails(v)
    BY <2>2 DEF TypeOK, Used, WrapStream, Close, Resume, ResumeFails
  <2>3. CASE MarkAbandoned(v)
    BY <2>3 DEF TypeOK, Used, MarkAbandoned
  <2>4. QED
    BY <2>1, <2>2, <2>3 DEF WrapperStep
<1>2. CASE LoseConn \/ Redial \/ RegisterFails \/ ActiveStreams \/ Reconnected
  BY <1>2 DEF Used, LoseConn, Redial, RegisterFails, ActiveStreams, Reconnected
<1>3. CASE MarkDropped
  BY <1>3, ZenonT(30) DEF Used, MarkDropped
<1>4. CASE UNCHANGED vars
  BY <1>4 DEF Used, vars
<1>5. QED
  BY <1>1, <1>2, <1>3, <1>4 DEF Next

(* In particular a wrapper in use never loses its namesakes. *)
LEMMA NamesakesStay ==
    ASSUME TypeOK, [Next]_vars, NEW w \in Wrappers, Used(w)
    PROVE  Namesakes(w) \subseteq Namesakes(w)'
<1> SUFFICES ASSUME NEW v \in Namesakes(w) PROVE v \in Namesakes(w)'
  OBVIOUS
<1>1. v \in Wrappers \ {w} /\ id[v] = id[w] /\ Used(v)
  BY DEF Namesakes, Used
<1>2. id'[v] = id[v] /\ Used(v)' /\ id'[w] = id[w]
  BY <1>1, Mono
<1>3. QED
  BY <1>1, <1>2 DEF Namesakes, Used

(* The map: entries come from WrapStream and go with ForgetStream. *)
LEMMA MapStep == ASSUME TableInv, [Next]_vars PROVE MapInv'
<1> USE NoneAssumption DEF TableInv, TypeOK, MapInv
<1>1. CASE \E v \in Wrappers : WrapperStep(v)
  <2> PICK v \in Wrappers : WrapperStep(v)
    BY <1>1
  <2>1. CASE OpenStream(v)
    BY <2>1 DEF OpenStream
  <2>2. CASE FreshStreamID(v)
    BY <2>2 DEF FreshStreamID
  <2>3. CASE SendOpenStream(v)
    BY <2>3 DEF SendOpenStream
  <2>4. CASE HandleIncoming(v)
    BY <2>4 DEF HandleIncoming
  <2>5. CASE WrapStream(v)
    BY <2>5 DEF WrapStream
  <2>6. CASE Close(v)
    BY <2>6 DEF Close, ForgetStream
  <2>7. CASE MarkAbandoned(v)
    BY <2>7 DEF MarkAbandoned
  <2>8. CASE Resume(v)
    BY <2>8 DEF Resume
  <2>9. CASE ResumeFails(v)
    BY <2>9 DEF ResumeFails, ForgetStream, ListInv, Used
  <2>10. QED
    BY <2>1, <2>2, <2>3, <2>4, <2>5, <2>6, <2>7, <2>8, <2>9 DEF WrapperStep
<1>2. CASE UNCHANGED <<streams, id, pc>>
  BY <1>2
<1>3. CASE LoseConn \/ Redial \/ RegisterFails \/ ActiveStreams \/ Reconnected \/ MarkDropped
  BY <1>2, <1>3, Zenon DEF LoseConn, Redial, RegisterFails, ActiveStreams, Reconnected, MarkDropped
<1>4. QED
  BY <1>1, <1>2, <1>3 DEF Next, vars

(* Tearing down: what ForgetStream takes out is the caller's wrapper or one *)
(* of its namesakes.                                                        *)
LEMMA Taken ==
    ASSUME TableInv, NEW v \in Wrappers, Used(v),
           NEW w \in Wrappers, streams[id[v]] = w
    PROVE  Used(w) /\ (w = v \/ v \in Namesakes(w))
BY NoneAssumption DEF TableInv, TypeOK, MapInv, Used, Namesakes

LEMMA VictimStep == ASSUME TableInv, [Next]_vars PROVE VictimInv'
<1> USE NoneAssumption DEF TableInv
<1>1. ASSUME NEW t \in Wrappers \cup {None}, NEW w \in Wrappers, victim'[t] = w
      PROVE  Used(w)' /\ (w \in ended' \/ Namesakes(w)' # {})
  <2>1. CASE victim[t] = w
    BY <2>1, Mono, NamesakesStay DEF VictimInv
  <2>2. CASE \E v \in Wrappers : Close(v) \/ ResumeFails(v)
    <3> PICK v \in Wrappers : Close(v) \/ ResumeFails(v)
      BY <2>2
    <3>1. Used(v) /\ v \in ended'
      BY DEF Close, ResumeFails, Used, ListInv
    <3>2. victim[t] = w \/ streams[id[v]] = w
      BY <1>1 DEF Close, ResumeFails, ForgetStream, TypeOK
    <3>3. QED
      BY <2>1, <3>1, <3>2, Taken, Mono, NamesakesStay
  <2>3. CASE ~ \E v \in Wrappers : Close(v) \/ ResumeFails(v)
    <3>1. victim'[t] \in {victim[t], None}
      <4>1. CASE \E v \in Wrappers : WrapperStep(v)
        <5> PICK v \in Wrappers : WrapperStep(v)
          BY <4>1
        <5>1. CASE MarkAbandoned(v)
          BY <5>1 DEF MarkAbandoned, TypeOK
        <5>2. CASE UNCHANGED victim
          BY <5>2
        <5>3. QED
          BY <2>3, <5>1, <5>2, Zenon DEF WrapperStep, OpenStream, FreshStreamID,
             SendOpenStream, HandleIncoming, WrapStream, Resume
      <4>2. CASE MarkDropped
        BY <4>2 DEF MarkDropped, TypeOK
      <4>3. CASE UNCHANGED victim
        BY <4>3
      <4>4. QED
        BY <4>1, <4>2, <4>3, Zenon DEF Next, vars, LoseConn, Redial,
           RegisterFails, ActiveStreams, Reconnected
    <3>2. QED
      BY <1>1, <2>1, <3>1
  <2>4. QED
    BY <2>2, <2>3
<1>2. phase' # "mark" => victim'[None] = None
  <2>1. CASE \E v \in Wrappers : WrapperStep(v)
    <3> PICK v \in Wrappers : WrapperStep(v)
      BY <2>1
    <3>1. CASE ResumeFails(v)
      BY <3>1 DEF ResumeFails
    <3>2. CASE Close(v) \/ MarkAbandoned(v)
      BY <3>2 DEF Close, MarkAbandoned, ForgetStream, reconnectVars, TypeOK, VictimInv
    <3>3. CASE UNCHANGED <<victim, phase>>
      BY <3>3 DEF VictimInv
    <3>4. QED
      BY <3>1, <3>2, <3>3, Zenon DEF WrapperStep, OpenStream, FreshStreamID,
         SendOpenStream, HandleIncoming, WrapStream, Resume, reconnectVars
  <2>2. CASE MarkDropped
    BY <2>2 DEF MarkDropped, TypeOK
  <2>3. CASE UNCHANGED victim /\ (phase' # "mark" => phase # "mark")
    BY <2>3 DEF VictimInv
  <2>4. CASE LoseConn \/ Redial \/ RegisterFails \/ ActiveStreams \/ Reconnected \/ UNCHANGED vars
    BY <2>3, <2>4 DEF vars, LoseConn, Redial, RegisterFails, ActiveStreams, Reconnected
  <2>5. QED
    BY <2>1, <2>2, <2>4 DEF Next
<1>3. QED
  BY <1>1, <1>2 DEF VictimInv

(* Marking: MarkAbandoned marks its own wrapper and its victim, MarkDropped *)
(* Reconnect's victim.                                                      *)
LEMMA MarkStep == ASSUME TableInv, [Next]_vars PROVE MarkInv'
<1> USE NoneAssumption DEF TableInv
<1>1. ASSUME NEW w \in Wrappers, abandoned'[w]
      PROVE  Used(w)' /\ (Namesakes(w)' = {} => w \in ended')
  <2>1. CASE abandoned[w]
    BY <2>1, Mono, NamesakesStay DEF MarkInv, AbandonedByOwner
  <2>2. ASSUME NEW t \in Wrappers \cup {None}, victim[t] = w
        PROVE  Used(w)' /\ (Namesakes(w)' = {} => w \in ended')
    BY <2>2, Mono, NamesakesStay DEF VictimInv
  <2>3. CASE MarkAbandoned(w)
    BY <2>3, Mono DEF MarkAbandoned, MarkInv, Used
  <2>4. CASE \E v \in Wrappers : MarkAbandoned(v)
    BY <1>1, <2>1, <2>2, <2>3, <2>4, ZenonT(30) DEF MarkAbandoned
  <2>5. CASE MarkDropped
    BY <1>1, <2>1, <2>2, <2>5, ZenonT(30) DEF MarkDropped
  <2>6. CASE UNCHANGED abandoned
    BY <1>1, <2>1, <2>6
  <2>7. QED
    BY <2>4, <2>5, <2>6, Zenon DEF Next, WrapperStep, vars, OpenStream, FreshStreamID,
       SendOpenStream, HandleIncoming, WrapStream, Close, Resume, ResumeFails,
       LoseConn, Redial, RegisterFails, ActiveStreams, Reconnected
<1>2. ASSUME NEW w \in Wrappers, pc'[w] = "mark" PROVE w \in ended'
  <2>1. CASE pc[w] = "mark"
    BY <2>1, Mono DEF MarkInv
  <2>2. CASE \E v \in Wrappers : Close(v)
    BY <1>2, <2>1, <2>2 DEF Close, TypeOK
  <2>3. CASE UNCHANGED pc
    BY <1>2, <2>1, <2>3
  <2>4. CASE \E v \in Wrappers : OpenStream(v) \/ FreshStreamID(v) \/ SendOpenStream(v)
                \/ HandleIncoming(v) \/ WrapStream(v) \/ MarkAbandoned(v)
    <3>1. pc[w] = "mark"
      BY <1>2, <2>4 DEF OpenStream, FreshStreamID, SendOpenStream,
         HandleIncoming, WrapStream, MarkAbandoned, TypeOK
    <3>2. QED
      BY <2>1, <3>1
  <2>5. QED
    BY <2>2, <2>3, <2>4, Zenon DEF Next, WrapperStep, vars, Resume, ResumeFails,
       LoseConn, Redial, RegisterFails, ActiveStreams, MarkDropped, Reconnected
<1>3. QED
  BY <1>1, <1>2 DEF MarkInv, AbandonedByOwner

(* Reconnect: a stream that has been resumed, or is out of the map, stays   *)
(* so until the loop is over.                                               *)
LEMMA ListStep == ASSUME TableInv, [Next]_vars PROVE ListInv'
<1> USE NoneAssumption DEF TableInv
<1>1. ASSUME ActiveStreams PROVE ListInv'
  BY <1>1 DEF ActiveStreams, ListInv, MapInv, Used, TypeOK
<1>2. ASSUME ~ActiveStreams PROVE ListInv'
  <2>1. listed' = listed /\ todo' \subseteq todo
    BY <1>2, Zenon DEF Next, WrapperStep, vars, OpenStream, FreshStreamID,
       SendOpenStream, HandleIncoming, WrapStream, Close, MarkAbandoned, Resume,
       ResumeFails, LoseConn, Redial, RegisterFails, MarkDropped, Reconnected,
       reconnectVars
  <2>2. \A w \in todo' \cup listed' : Used(w)'
    BY <2>1, Mono DEF ListInv, TypeOK
  <2>3. ASSUME phase' \in {"resume", "mark"}, NEW w \in listed
        PROVE  w \in todo' \/ inner'[w] = conn' \/ streams'[id'[w]] # w
    <3>1. phase \in {"resume", "mark"} /\ conn' = conn
      BY <1>2, <2>3 DEF Next, WrapperStep, vars, OpenStream, FreshStreamID,
         SendOpenStream, HandleIncoming, WrapStream, Close, MarkAbandoned, Resume,
         ResumeFails, LoseConn, Redial, RegisterFails, MarkDropped, Reconnected,
         reconnectVars, TypeOK
    <3>2. w \in Wrappers /\ Used(w) /\ id'[w] = id[w] /\ id[w] \in Ids
      BY <2>3, Mono DEF ListInv, TypeOK, MapInv, Used
    <3>3. streams[id[w]] # w => streams'[id[w]] # w
      <4>1. CASE \E v \in Wrappers : WrapStream(v)
        BY <3>2, <4>1 DEF WrapStream, TypeOK, Used
      <4>2. CASE \E v \in Wrappers : Close(v) \/ ResumeFails(v)
        BY <3>2, <4>2 DEF Close, ResumeFails, ForgetStream, TypeOK
      <4>3. CASE UNCHANGED streams
        BY <4>3
      <4>4. QED
        BY <4>1, <4>2, <4>3, Zenon DEF Next, WrapperStep, vars, OpenStream,
           FreshStreamID, SendOpenStream, HandleIncoming, MarkAbandoned, Resume,
           LoseConn, Redial, RegisterFails, ActiveStreams, MarkDropped, Reconnected
    <3>4. inner[w] = conn => inner'[w] = conn
      <4>1. CASE \E v \in Wrappers : OpenStream(v) \/ HandleIncoming(v) \/ Resume(v)
        BY <3>2, <4>1 DEF OpenStream, HandleIncoming, Resume, TypeOK
      <4>2. CASE UNCHANGED inner
        BY <4>2
      <4>3. QED
        BY <4>1, <4>2, Zenon DEF Next, WrapperStep, vars, FreshStreamID,
           SendOpenStream, WrapStream, Close, MarkAbandoned, ResumeFails, LoseConn,
           Redial, RegisterFails, ActiveStreams, MarkDropped, Reconnected
    <3>5. w \in todo => w \in todo' \/ inner'[w] = conn \/ streams'[id[w]] # w
      <4>1. CASE \E v \in Wrappers : Resume(v)
        BY <3>2, <4>1 DEF Resume, TypeOK
      <4>2. CASE \E v \in Wrappers : ResumeFails(v)
        BY <3>2, <4>2 DEF ResumeFails, ForgetStream, TypeOK
      <4>3. CASE UNCHANGED todo
        BY <4>3
      <4>4. QED
        BY <1>2, <4>1, <4>2, <4>3, Zenon DEF Next, WrapperStep, vars, OpenStream,
           FreshStreamID, SendOpenStream, HandleIncoming, WrapStream, Close,
           MarkAbandoned, LoseConn, Redial, RegisterFails, MarkDropped,
           Reconnected, reconnectVars
    <3>6. QED
      BY <2>3, <3>1, <3>2, <3>3, <3>4, <3>5, SMTT(30) DEF ListInv
  <2>4. QED
    BY <2>1, <2>2, <2>3 DEF ListInv
<1>3. QED
  BY <1>1, <1>2

(* Leaving the map: by ForgetStream under w's own id, called for w itself   *)
(* or for a namesake.                                                       *)
LEMMA ToldStep == ASSUME TableInv, [Next]_vars PROVE DroppedIsTold'
<1> USE NoneAssumption DEF TableInv
<1> SUFFICES ASSUME NEW w \in Wrappers, pc'[w] = "bridge", Namesakes(w)' = {},
                    streams'[id'[w]] # w
             PROVE  abandoned'[w] \/ victim'[None] = w
  BY DEF DroppedIsTold
<1>1. CASE \E v \in Wrappers : WrapStream(v)
  <2> PICK v \in Wrappers : WrapStream(v)
    BY <1>1
  <2>1. id[v] \in Ids
    BY DEF WrapStream, TypeOK, MapInv
  <2>2. v # w
    BY <2>1 DEF WrapStream, TypeOK
  <2>3. pc[w] = "bridge" /\ Used(w)
    BY <2>2 DEF WrapStream, TypeOK, Used
  <2>4. Namesakes(w) = {}
    BY <2>3, NamesakesStay
  <2>5. id[v] # id[w]
    BY <2>2 DEF WrapStream, Namesakes, TypeOK
  <2>6. streams[id[w]] # w
    BY <2>1, <2>5 DEF WrapStream, TypeOK
  <2>7. QED
    BY <2>3, <2>4, <2>6 DEF DroppedIsTold, WrapStream
<1>2. ASSUME ~ \E v \in Wrappers : WrapStream(v)
      PROVE  abandoned'[w] \/ victim'[None] = w
  <2>1. pc[w] = "bridge" /\ Used(w)
    <3>1. CASE UNCHANGED pc
      BY <3>1 DEF Used
    <3>2. CASE \E v \in Wrappers : OpenStream(v) \/ FreshStreamID(v)
                 \/ SendOpenStream(v) \/ HandleIncoming(v) \/ Close(v) \/ MarkAbandoned(v)
      BY <3>2 DEF OpenStream, FreshStreamID, SendOpenStream, HandleIncoming,
         Close, MarkAbandoned, TypeOK, Used
    <3>3. QED
      BY <1>2, <3>1, <3>2, Zenon DEF Next, WrapperStep, vars, Resume, ResumeFails,
         LoseConn, Redial, RegisterFails, ActiveStreams, MarkDropped, Reconnected
  <2>2. Namesakes(w) = {} /\ id'[w] = id[w] /\ id[w] \in Ids
    BY <2>1, NamesakesStay, Mono, SMTT(30) DEF TypeOK, MapInv
  <2>3. streams[id[w]] # w => abandoned[w] \/ victim[None] = w
    BY <2>1, <2>2 DEF DroppedIsTold
  <2>4. CASE \E v \in Wrappers : Close(v)
    <3> PICK v \in Wrappers : Close(v)
      BY <2>4
    <3>1. id[v] \in Ids /\ id[v] # id[w]
      BY <2>1, <2>2 DEF Close, Namesakes, TypeOK, MapInv
    <3>2. streams[id[w]] # w /\ abandoned' = abandoned /\ victim'[None] = victim[None]
      BY <2>2, <3>1 DEF Close, ForgetStream, TypeOK
    <3>3. QED
      BY <2>3, <3>2
  <2>5. CASE \E v \in Wrappers : ResumeFails(v)
    <3> PICK v \in Wrappers : ResumeFails(v)
      BY <2>5
    <3>1. Used(v) /\ id[v] \in Ids /\ victim[None] = None
      BY DEF ResumeFails, ListInv, VictimInv, TypeOK, MapInv, Used
    <3>2. CASE v = w
      BY <2>3, <3>1, <3>2, SMTT(30) DEF ResumeFails, ForgetStream, TypeOK
    <3>3. CASE v # w
      <4>1. id[v] # id[w]
        BY <2>2, <3>1, <3>3 DEF Namesakes, Used
      <4>2. streams[id[w]] # w /\ abandoned' = abandoned
        BY <2>2, <3>1, <4>1 DEF ResumeFails, ForgetStream, TypeOK
      <4>3. QED
        BY <2>3, <3>1, <4>2, ZenonT(30)
    <3>4. QED
      BY <3>2, <3>3
  <2>6. CASE UNCHANGED streams
    <3>1. abandoned[w] => abandoned'[w]
      BY Mono
    <3>2. victim[None] = w => abandoned'[w] \/ victim'[None] = w
      <4>1. CASE MarkDropped
        BY <4>1, ZenonT(30) DEF MarkDropped
      <4>2. CASE \E v \in Wrappers : MarkAbandoned(v) \/ Close(v) \/ ResumeFails(v)
        BY <2>4, <2>5, <4>2 DEF MarkAbandoned, TypeOK
      <4>3. CASE UNCHANGED victim
        BY <4>3
      <4>4. QED
        BY <4>1, <4>2, <4>3, Zenon DEF Next, WrapperStep, vars, OpenStream,
           FreshStreamID, SendOpenStream, HandleIncoming, WrapStream, Resume,
           LoseConn, Redial, RegisterFails, ActiveStreams, Reconnected
    <3>3. QED
      BY <2>2, <2>3, <2>6, <3>1, <3>2
  <2>7. QED
    BY <1>2, <2>4, <2>5, <2>6, Zenon DEF Next, WrapperStep, vars, OpenStream,
       FreshStreamID, SendOpenStream, HandleIncoming, MarkAbandoned, Resume,
       LoseConn, Redial, RegisterFails, ActiveStreams, MarkDropped, Reconnected
<1>3. QED
  BY <1>1, <1>2

LEMMA TableInvariant == Spec => []TableInv
<1>1. ASSUME TableInv, [Next]_vars PROVE TableInv'
  <2>1. TypeOK'
    BY <1>1, TypeStep DEF TableInv
  <2>2. QED
    BY <1>1, <2>1, MapStep, VictimStep, MarkStep, ListStep, ToldStep, Zenon
    DEF TableInv
<1>2. QED
  BY <1>1, TableInit, PTL DEF Spec

(* Close and the failed Resume of one stream tear down no other stream,     *)
(* unless the two have had the same id.                                     *)
THEOREM OwnerTearsDown == Spec => []AbandonedByOwner
<1>1. TableInv => AbandonedByOwner
  BY DEF TableInv, MarkInv
<1>2. QED
  BY <1>1, TableInvariant, PTL

(* A stream in use is in the map where Reconnect finds it, or its Read and  *)
(* Write are told by markAbandoned, unless another stream took its id.      *)
THEOREM DropIsTold == Spec => []DroppedIsTold
<1>1. TableInv => DroppedIsTold
  BY DEF TableInv
<1>2. QED
  BY <1>1, TableInvariant, PTL

(* Once Close has called forgetStream the map never holds the wrapper       *)
(* again, so that no Reconnect resumes it.                                  *)
THEOREM CloseIsFinal == Spec => []ClosedIsForgotten
<1>1. TableInv => ClosedIsForgotten
  BY DEF TableInv, MapInv, ClosedIsForgotten
<1>2. QED
  BY <1>1, TableInvariant, PTL

(* Reconnect returns only when each stream it listed is on the connection   *)
(* it dialed, given up, or no longer in the map.                            *)
THEOREM ReconnectIsComplete == Spec => ListedIsResumed
<1>1. TableInv /\ [Next]_vars =>
        [Reconnected => \A w \in listed : streams[id[w]] = w /\ ~abandoned[w]
                                             => inner[w] = conn]_vars
  BY DEF TableInv, ListInv, Reconnected
<1>2. QED
  BY <1>1, TableInvariant, PTL DEF Spec, ListedIsResumed

-----------------------------------------------------------------------------
(* The mode of a stream, which the relay announces on the control stream.   *)

(* The types of what the choice of a path depends on, and of the rest.      *)
WaitType ==
    /\ tls \subseteq Ends
    /\ at \in [Ends -> {"idle", "in", "open", "wait", "udp", "listen", "conn",
                        "stream", "splice", "forward", "done"}]
    /\ opened \in BOOLEAN
    /\ mode \in Modes
    /\ notice \in [Ends -> Modes]
    /\ waiter \subseteq Ends
    /\ box \in [Ends -> Modes]
    /\ dropped \subseteq Ends
    /\ timedOut \subseteq Ends

HoldType ==
    /\ held \in [Ends -> SUBSET Parts]
    /\ deferred \in [Ends -> SUBSET Parts]

(* An end has a waiter exactly while it is between its registration and the *)
(* end of its wait.                                                         *)
WaiterInv == \A e \in Ends : e \in waiter <=> at[e] \in {"open", "wait"}

(* The order of the frames: OPEN_STREAM, then STREAM_ACCEPT, then notices.  *)
(* A consumer that has left its wait before the relay chose has timed out.  *)
OrderInv ==
    /\ opened => at["consumer"] \notin {"idle", "open"}
    /\ ~opened => at["provider"] = "idle" /\ at["consumer"] \in {"idle", "open", "done"}
    /\ at["provider"] \in {"idle", "in", "open"} => mode = "none"
    /\ mode = "none" =>
        /\ at["provider"] \in {"idle", "in", "open", "done"}
        /\ opened => at["consumer"] = "wait" \/ "consumer" \in timedOut

(* Where a notice is, and that it says what the relay chose: on its way to  *)
(* an end that waits with an empty box or has timed out, or in the box of   *)
(* an end that waits.                                                       *)
NoticeInv ==
    \A e \in Ends :
        /\ notice[e] # "none" =>
            /\ notice[e] = mode
            /\ e \in timedOut \/ (at[e] = "wait" /\ box[e] = "none")
        /\ box[e] # "none" => box[e] = mode /\ at[e] = "wait"

(* An end is on the path that the relay chose, with the two exceptions.     *)
PathInv ==
    /\ \A e \in Ends : at[e] \in ForwardPath => mode = "forward"
    /\ at["consumer"] = "splice" => mode = "splice" \/ "consumer" \in timedOut
    /\ at["provider"] = "splice" =>
        mode = "splice" \/ "provider" \in timedOut \/ "provider" \notin tls

ModeInv ==
    /\ WaitType
    /\ WaiterInv
    /\ OrderInv
    /\ NoticeInv
    /\ PathInv
    /\ dropped \subseteq timedOut

(* How far an end must have come to hold a part.                            *)
MayHold(e, s, part) ==
    /\ s # "done"
    /\ part = "local" => e = "consumer" \/ s \notin {"idle", "in"}
    /\ part = "relay" => s # "idle"
    /\ part \in {"udp", "transport"} => s \in {"listen", "conn", "stream", "forward"}
    /\ part = "listener" => e = "provider" /\ s \in {"conn", "stream"}
    /\ part = "conn" => s \in {"stream", "forward"}
    /\ part = "stream" => s = "forward"

(* What its deferred calls close by then, whatever else a return closes.    *)
Defers(e, s) ==
    /\ e = "consumer" => "local" \in deferred[e]
    /\ s \notin {"idle", "in", "open", "done"} => "relay" \in deferred[e]
    /\ s = "forward" => SessionParts \subseteq deferred[e]

HeldInv ==
    /\ HoldType
    /\ \A e \in Ends : /\ \A part \in held[e] : MayHold(e, at[e], part)
                       /\ Defers(e, at[e])

LEMMA ModeStart == ModeInit => ModeInv /\ HeldInv
<1> SUFFICES ASSUME ModeInit PROVE ModeInv /\ HeldInv
  OBVIOUS
<1>1. WaitType
  BY ZenonT(30) DEF ModeInit, WaitType, Modes
<1>2. WaiterInv /\ NoticeInv
  BY DEF ModeInit, WaiterInv, NoticeInv
<1>3. OrderInv /\ PathInv
  BY DEF ModeInit, OrderInv, PathInv, Ends, ForwardPath
<1>4. HeldInv
  BY DEF ModeInit, HeldInv, HoldType, MayHold, Defers, Ends, Parts, SessionParts
<1>5. QED
  BY <1>1, <1>2, <1>3, <1>4 DEF ModeInit, ModeInv

-----------------------------------------------------------------------------
(* The choice of the path.                                                  *)

(* An end that is past its wait moves on or returns.                        *)
LEMMA MoveStep ==
    ASSUME ModeInv, NEW e \in Ends, UNCHANGED waiting,
           NEW s \in {"listen", "conn", "stream", "forward", "done"},
           at' = [at EXCEPT ![e] = s],
           at[e] \notin {"idle", "open", "wait"},
           s = "done" \/ at[e] \in ForwardPath
    PROVE  ModeInv'
<1> USE DEF ModeInv, WaitType, waiting
<1>1. WaitType' /\ (dropped \subseteq timedOut)'
  OBVIOUS
<1>2. WaiterInv'
  BY DEF WaiterInv
<1>3. OrderInv'
  BY DEF OrderInv, Ends, ForwardPath
<1>4. NoticeInv'
  BY DEF NoticeInv
<1>5. PathInv'
  BY DEF PathInv, ForwardPath
<1>6. QED
  BY <1>1, <1>2, <1>3, <1>4, <1>5

(* Registration, the frames, the notices and the wait.                      *)
LEMMA WaitStep ==
    ASSUME ModeInv, NEW e \in Ends,
           \/ RegisterStreamModeWaiter(e)
           \/ SendFails(e)
           \/ LoseNotice(e)
           \/ DeliverMode(e)
           \/ WaitForStreamMode(e)
           \/ WaitTimesOut(e)
    PROVE  ModeInv'
<1> USE DEF ModeInv, WaitType, WaiterInv, OrderInv, NoticeInv, PathInv, Ends, Modes,
            ForwardPath
<1>1. CASE RegisterStreamModeWaiter(e)
  BY <1>1, SMTT(30) DEF RegisterStreamModeWaiter
<1>2. CASE SendFails(e)
  BY <1>2 DEF SendFails, Return
<1>3. CASE LoseNotice(e)
  BY <1>3 DEF LoseNotice
<1>4. CASE DeliverMode(e)
  <2>1. WaitType'
    <3>1. /\ box' = box \/ box' = [box EXCEPT ![e] = notice[e]]
          /\ dropped' = dropped \/ dropped' = dropped \cup {e}
      BY <1>4, Zenon DEF DeliverMode
    <3>2. notice' \in [Ends -> Modes]
      BY <1>4 DEF DeliverMode
    <3>3. box' \in [Ends -> Modes]
      BY <3>1
    <3>4. dropped' \subseteq Ends
      BY <3>1, ZenonT(30)
    <3>5. QED
      BY <1>4, <3>2, <3>3, <3>4, Zenon DEF DeliverMode
  <2>2. WaiterInv'
    BY <1>4 DEF DeliverMode
  <2>3. OrderInv'
    BY <1>4 DEF DeliverMode
  <2>4. NoticeInv'
    BY <1>4 DEF DeliverMode
  <2>5. PathInv' /\ (dropped \subseteq timedOut)'
    BY <1>4, ZenonT(30) DEF DeliverMode
  <2>6. QED
    BY <2>1, <2>2, <2>3, <2>4, <2>5
<1>5. CASE WaitForStreamMode(e)
  <2>1. WaitType'
    <3>1. /\ waiter' \subseteq Ends
          /\ box' \in [Ends -> Modes]
      BY <1>5, SMTT(30) DEF WaitForStreamMode
    <3>2. at' \in [Ends -> {"idle", "in", "open", "wait", "udp", "listen", "conn",
                           "stream", "splice", "forward", "done"}]
      BY <1>5, SMTT(30) DEF WaitForStreamMode, Return
    <3>3. QED
      BY <1>5, <3>1, <3>2, Zenon DEF WaitForStreamMode
  <2>2. WaiterInv'
    BY <1>5, SMTT(30) DEF WaitForStreamMode, Return
  <2>3. OrderInv'
    BY <1>5, SMTT(30) DEF WaitForStreamMode, Return
  <2>4. NoticeInv'
    BY <1>5, SMTT(30) DEF WaitForStreamMode, Return
  <2>5. PathInv' /\ (dropped \subseteq timedOut)'
    BY <1>5 DEF WaitForStreamMode, Return
  <2>6. QED
    BY <2>1, <2>2, <2>3, <2>4, <2>5
<1>6. CASE WaitTimesOut(e)
  BY <1>6 DEF WaitTimesOut
<1>7. QED
  BY <1>1, <1>2, <1>3, <1>4, <1>5, <1>6, ZenonT(30)

LEMMA FrameStep ==
    ASSUME ModeInv,
           \/ OpenFails
           \/ IncomingStream
           \/ RejectStream
           \/ WriteOpenStream
           \/ \E m \in {"splice", "forward"} : SendStreamAccept(m)
    PROVE  ModeInv'
<1> USE DEF ModeInv, WaitType, WaiterInv, OrderInv, NoticeInv, PathInv, Ends, Modes,
            ForwardPath
<1>1. CASE OpenFails
  BY <1>1 DEF OpenFails, Return, waiting
<1>2. CASE IncomingStream
  BY <1>2, SMTT(30) DEF IncomingStream, waiting
<1>3. CASE RejectStream
  BY <1>3 DEF RejectStream, Return, waiting
<1>4. CASE WriteOpenStream
  BY <1>4 DEF WriteOpenStream
<1>5. ASSUME NEW m \in {"splice", "forward"}, SendStreamAccept(m) PROVE ModeInv'
  BY <1>5 DEF SendStreamAccept
<1>6. QED
  BY <1>1, <1>2, <1>3, <1>4, <1>5, ZenonT(30)

LEMMA ModeSame ==
    ASSUME ModeInv, UNCHANGED <<waiting, at>>
    PROVE  ModeInv'
<1>1. /\ tls' = tls /\ at' = at /\ opened' = opened /\ mode' = mode /\ notice' = notice
      /\ waiter' = waiter /\ box' = box /\ dropped' = dropped /\ timedOut' = timedOut
  BY DEF waiting
<1>2. WaitType' /\ WaiterInv' /\ OrderInv'
  BY <1>1, Zenon DEF ModeInv, WaitType, WaiterInv, OrderInv
<1>3. NoticeInv' /\ PathInv' /\ (dropped \subseteq timedOut)'
  BY <1>1, Zenon DEF ModeInv, NoticeInv, PathInv
<1>4. QED
  BY <1>2, <1>3, Zenon DEF ModeInv

(* The bring-up and the end of the data path.                               *)
LEMMA ForwardStep ==
    ASSUME ModeInv,
           \/ \E e \in Ends : ForwardDial(e) \/ CopyInEnds(e) \/ CopyOutEnds(e) \/ BridgeReturns(e)
           \/ ForwardListen \/ Handshake \/ OpenForwardStream \/ DialForwardFails
           \/ AcceptForwardConn \/ AcceptForwardStream \/ AcceptForwardFails
           \/ Speak \/ QuicDies
    PROVE  ModeInv'
<1>0. "consumer" \in Ends /\ "provider" \in Ends
  BY DEF Ends
<1>1. ASSUME NEW e \in Ends, ForwardDial(e) PROVE ModeInv'
  BY <1>1, MoveStep, ZenonT(30) DEF ForwardDial, ForwardPath
<1>2. ASSUME NEW e \in Ends, BridgeReturns(e) PROVE ModeInv'
  BY <1>2, MoveStep, ZenonT(30) DEF BridgeReturns, Bridging, Return
<1>3. ASSUME NEW e \in Ends, CopyInEnds(e) \/ CopyOutEnds(e) PROVE ModeInv'
  BY <1>3, ModeSame, Zenon DEF CopyInEnds, CopyOutEnds
<1>4. CASE ForwardListen
  BY <1>0, <1>4, MoveStep, ZenonT(30) DEF ForwardListen, ForwardPath
<1>5. CASE Handshake
  BY <1>0, <1>5, MoveStep, ZenonT(30) DEF Handshake, ForwardPath
<1>6. CASE OpenForwardStream
  BY <1>0, <1>6, MoveStep, ZenonT(30) DEF OpenForwardStream, ForwardPath
<1>7. CASE DialForwardFails
  BY <1>0, <1>7, MoveStep, ZenonT(30) DEF DialForwardFails, Return
<1>8. CASE AcceptForwardConn
  BY <1>0, <1>8, MoveStep, ZenonT(30) DEF AcceptForwardConn, ForwardPath
<1>9. CASE AcceptForwardStream
  BY <1>0, <1>9, MoveStep, ZenonT(30) DEF AcceptForwardStream, ForwardPath
<1>10. CASE AcceptForwardFails
  BY <1>0, <1>10, MoveStep, ZenonT(30) DEF AcceptForwardFails, Return
<1>11. CASE Speak \/ QuicDies
  BY <1>11, ModeSame, Zenon DEF Speak, QuicDies
<1>12. QED
  BY <1>1, <1>2, <1>3, <1>4, <1>5, <1>6, <1>7, <1>8, <1>9, <1>10, <1>11, Zenon

LEMMA ModeInvariant == ModeSpec => []ModeInv
<1>1. ModeInv /\ ModeNext => ModeInv'
  BY WaitStep, FrameStep, ForwardStep, Zenon DEF ModeNext
<1>2. ModeInv /\ UNCHANGED modeVars => ModeInv'
  BY ModeSame DEF modeVars, waiting
<1>3. QED
  BY <1>1, <1>2, ModeStart, PTL DEF ModeSpec

(* The ends agree on the path, and no notice misses its waiter, unless a    *)
(* wait has timed out or the provider has no TLS configuration.             *)
THEOREM EndsAgree == ModeSpec => []SamePath
<1>1. ModeInv => SamePath
  BY DEF ModeInv, PathInv, SamePath, Ends, ForwardPath
<1>2. QED
  BY <1>1, ModeInvariant, PTL

-----------------------------------------------------------------------------
(* What the ends hold.                                                      *)

(* A return that closes what the end may hold and does not defer leaves     *)
(* nothing.                                                                 *)
LEMMA ReturnStep ==
    ASSUME WaitType, HeldInv, NEW e \in Ends, NEW parts, Return(e, parts),
           \A part \in Parts \ parts : MayHold(e, at[e], part) => part \in deferred[e]
    PROVE  HeldInv'
<1> DEFINE rest == held[e] \ (held[e] \cap (parts \cup deferred[e]))
<1>0. /\ at' = [at EXCEPT ![e] = "done"] /\ held' = [held EXCEPT ![e] = rest]
      /\ deferred' = deferred
      /\ held \in [Ends -> SUBSET Parts] /\ deferred \in [Ends -> SUBSET Parts]
      /\ at \in [Ends -> {"idle", "in", "open", "wait", "udp", "listen", "conn",
                           "stream", "splice", "forward", "done"}]
  BY DEF Return, WaitType, HeldInv, HoldType
<1>7. \A part \in held[e] : MayHold(e, at[e], part) /\ part \in Parts
  BY <1>0 DEF HeldInv
<1>8. rest = {}
  BY <1>7
<1> HIDE DEF rest
<1>1. held'[e] = {} /\ at'[e] = "done" /\ deferred' = deferred
  BY <1>0, <1>8
<1>2. \A x \in Ends : x # e => held'[x] = held[x] /\ at'[x] = at[x]
  BY <1>0
<1>3. held' \in [Ends -> SUBSET Parts]
  BY <1>0, <1>8
<1>4. ASSUME NEW x \in Ends
      PROVE  (\A part \in held'[x] : MayHold(x, at'[x], part)) /\ Defers(x, at[x])'
  <2>1. CASE x = e
    BY <1>1, <2>1 DEF HeldInv, Defers
  <2>2. CASE x # e
    BY <1>1, <1>2, <2>2, Zenon DEF HeldInv, Defers
  <2>3. QED
    BY <2>1, <2>2, ZenonT(30)
<1>5. QED
  BY <1>1, <1>3, <1>4, Zenon DEF HeldInv, HoldType

(* An end opens or closes something, and its deferred calls grow.           *)
LEMMA HoldStep ==
    ASSUME WaitType, HeldInv, NEW e \in Ends, NEW s, NEW h \in SUBSET Parts, NEW d \in SUBSET Parts,
           at' = [at EXCEPT ![e] = s],
           held' = [held EXCEPT ![e] = h] \/ (held' = held /\ h = held[e]),
           deferred' = [deferred EXCEPT ![e] = d] \/ (deferred' = deferred /\ d = deferred[e]),
           \A part \in h : MayHold(e, s, part),
           e = "consumer" => "local" \in d,
           s \notin {"idle", "in", "open", "done"} => "relay" \in d,
           s = "forward" => SessionParts \subseteq d
    PROVE  HeldInv'
<1>0. /\ held \in [Ends -> SUBSET Parts] /\ deferred \in [Ends -> SUBSET Parts]
      /\ at \in [Ends -> {"idle", "in", "open", "wait", "udp", "listen", "conn",
                           "stream", "splice", "forward", "done"}]
  BY DEF WaitType, HeldInv, HoldType
<1>1. /\ held'[e] = h /\ at'[e] = s /\ deferred'[e] = d
      /\ held' \in [Ends -> SUBSET Parts] /\ deferred' \in [Ends -> SUBSET Parts]
  BY <1>0
<1>2. \A x \in Ends : x # e => held'[x] = held[x] /\ at'[x] = at[x] /\ deferred'[x] = deferred[x]
  BY <1>0
<1>3. ASSUME NEW x \in Ends
      PROVE  (\A part \in held'[x] : MayHold(x, at'[x], part)) /\ Defers(x, at[x])'
  <2>1. CASE x = e
    BY <1>1, <2>1, Zenon DEF Defers
  <2>2. CASE x # e
    BY <1>2, <2>2, Zenon DEF HeldInv, Defers
  <2>3. QED
    BY <2>1, <2>2, Zenon
<1>4. QED
  BY <1>1, <1>3, Zenon DEF HeldInv, HoldType

LEMMA HeldSame ==
    ASSUME HeldInv, at' = at, held' = held, deferred' = deferred
    PROVE  HeldInv'
BY Zenon DEF HeldInv, HoldType, Defers

(* However a bring-up or a wait ends, the end that is done has closed what  *)
(* it opened.                                                               *)
THEOREM DoneHoldsNothing == ModeSpec => []DoneReleasesAll
<1> DEFINE Inv == WaitType /\ HeldInv
           Left(e, parts) ==
               \A part \in Parts \ parts : MayHold(e, at[e], part) => part \in deferred[e]
<1>0. "consumer" \in Ends /\ "provider" \in Ends /\ \A e \in Ends : e = "consumer" \/ e = "provider"
  BY DEF Ends
<1> USE <1>0
<1>1. ASSUME Inv, NEW e \in Ends, RegisterStreamModeWaiter(e) PROVE HeldInv'
  <2> DEFINE h == held[e] \cup {IF e = "consumer" THEN "relay" ELSE "local"}
             d == deferred[e]
  <2>1. h \in SUBSET Parts /\ d \in SUBSET Parts
    BY <1>1 DEF HeldInv, HoldType, Parts
  <2>2. \A part \in h : MayHold(e, "open", part)
    BY <1>1 DEF RegisterStreamModeWaiter, HeldInv, MayHold
  <2>3. e = "consumer" => "local" \in d
    BY <1>1, Zenon DEF HeldInv, Defers
  <2>4. /\ at' = [at EXCEPT ![e] = "open"] /\ held' = [held EXCEPT ![e] = h]
        /\ deferred' = deferred
    BY <1>1, Zenon DEF RegisterStreamModeWaiter
  <2> HIDE DEF h, d
  <2>5. QED
    BY <1>1, <2>1, <2>2, <2>3, <2>4, HoldStep, ZenonT(30) DEF d
<1>2. ASSUME Inv, NEW e \in Ends, SendFails(e) PROVE HeldInv'
  <2>1. Left(e, IF e = "consumer" THEN {"relay"} ELSE {"local", "relay"})
    BY <1>2 DEF SendFails, HeldInv, Defers, MayHold, Parts, SessionParts
  <2>2. QED
    BY <1>2, <2>1, ReturnStep, ZenonT(30) DEF SendFails
<1>3. ASSUME Inv, NEW e \in Ends,
             LoseNotice(e) \/ DeliverMode(e) \/ CopyInEnds(e) \/ CopyOutEnds(e) PROVE HeldInv'
  BY <1>3, HeldSame, Zenon DEF LoseNotice, DeliverMode, CopyInEnds, CopyOutEnds, holding
<1>4. ASSUME Inv, NEW e \in Ends, WaitForStreamMode(e) \/ WaitTimesOut(e) PROVE HeldInv'
  <2>0. at[e] = "wait"
    BY <1>4, Zenon DEF WaitForStreamMode, WaitTimesOut
  <2>1. CASE Return(e, {}) /\ e = "consumer"
    <3>1. Left(e, {})
      BY <1>4, <2>0, <2>1 DEF HeldInv, Defers, MayHold, Parts, SessionParts
    <3>2. QED
      BY <1>4, <2>1, <3>1, ReturnStep, ZenonT(30)
  <2>2. ASSUME NEW s \in {"udp", "splice"}, at' = [at EXCEPT ![e] = s], UNCHANGED holding
        PROVE  HeldInv'
    <3>1. \A part \in held[e] : MayHold(e, s, part)
      BY <1>4, <2>0 DEF HeldInv, MayHold
    <3>2. /\ e = "consumer" => "local" \in deferred[e]
          /\ "relay" \in deferred[e] /\ s # "forward"
          /\ held[e] \in SUBSET Parts /\ deferred[e] \in SUBSET Parts
      BY <1>4, <2>0 DEF HeldInv, HoldType, Defers
    <3>3. QED
      BY <1>4, <2>2, <3>1, <3>2, HoldStep, Zenon DEF holding
  <2>3. QED
    BY <1>4, <2>1, <2>2 DEF WaitForStreamMode, WaitTimesOut
<1>5. ASSUME Inv, NEW e \in Ends, ForwardDial(e) PROVE HeldInv'
  <2> DEFINE h == held[e] \cup {"udp", "transport"}
             s == IF e = "provider" THEN "listen" ELSE "conn"
  <2>1. /\ h \in SUBSET Parts /\ \A part \in h : MayHold(e, s, part)
    BY <1>5 DEF ForwardDial, HeldInv, HoldType, MayHold, Parts, SessionParts
  <2>2. /\ e = "consumer" => "local" \in deferred[e]
        /\ "relay" \in deferred[e] /\ deferred[e] \in SUBSET Parts /\ s # "forward"
    BY <1>5 DEF ForwardDial, HeldInv, HoldType, Defers
  <2>3. /\ at' = [at EXCEPT ![e] = s] /\ held' = [held EXCEPT ![e] = h]
        /\ deferred' = deferred
    BY <1>5, Zenon DEF ForwardDial
  <2> HIDE DEF h, s
  <2>4. QED
    BY <1>5, <2>1, <2>2, <2>3, HoldStep, Zenon
<1>6. ASSUME Inv, NEW e \in Ends, BridgeReturns(e) PROVE HeldInv'
  <2>1. at[e] = "splice" => Left(e, {"local", PathOf(e)})
    BY <1>6 DEF PathOf, HeldInv, Defers, MayHold, Parts, SessionParts
  <2>2. at[e] = "forward" => Left(e, {"local", PathOf(e)})
    BY <1>6 DEF PathOf, HeldInv, Defers, MayHold, Parts, SessionParts
  <2>3. Left(e, {"local", PathOf(e)})
    BY <1>6, <2>1, <2>2, Zenon DEF BridgeReturns, Bridging
  <2>4. QED
    BY <1>6, <2>3, ReturnStep, ZenonT(30) DEF BridgeReturns
<1>7. ASSUME Inv, OpenFails \/ RejectStream PROVE HeldInv'
  <2>1. at["consumer"] = "idle" => Left("consumer", {})
    BY <1>7 DEF HeldInv, Defers, MayHold, Parts, SessionParts
  <2>2. at["provider"] = "in" => Left("provider", {"relay"})
    BY <1>7 DEF HeldInv, Defers, MayHold, Parts, SessionParts
  <2>3. QED
    BY <1>7, <2>1, <2>2, ReturnStep, ZenonT(30) DEF OpenFails, RejectStream
<1>8. ASSUME Inv, IncomingStream PROVE HeldInv'
  <2> DEFINE e == "provider"
             h == held[e] \cup {"relay"}
  <2>1. h \in SUBSET Parts /\ deferred[e] \in SUBSET Parts /\ \A part \in h : MayHold(e, "in", part)
    BY <1>8 DEF IncomingStream, HeldInv, HoldType, MayHold, Parts
  <2>2. QED
    BY <1>8, <2>1, HoldStep, ZenonT(30) DEF IncomingStream
<1>9. ASSUME Inv, WriteOpenStream PROVE HeldInv'
  <2> DEFINE e == "consumer"
             d == deferred[e] \cup {"relay"}
  <2>1. held[e] \in SUBSET Parts /\ d \in SUBSET Parts /\ \A part \in held[e] : MayHold(e, "wait", part)
    BY <1>9 DEF WriteOpenStream, HeldInv, HoldType, MayHold, Parts
  <2>2. "local" \in d
    BY <1>9 DEF HeldInv, Defers
  <2>3. QED
    BY <1>9, <2>1, <2>2, HoldStep, ZenonT(30) DEF WriteOpenStream
<1>10. ASSUME Inv, NEW m \in {"splice", "forward"}, SendStreamAccept(m) PROVE HeldInv'
  <2> DEFINE e == "provider"
             d == deferred[e] \cup {"relay"}
  <2>1. held[e] \in SUBSET Parts /\ d \in SUBSET Parts /\ \A part \in held[e] : MayHold(e, "wait", part)
    BY <1>10 DEF SendStreamAccept, HeldInv, HoldType, MayHold, Parts
  <2>2. QED
    BY <1>10, <2>1, HoldStep, ZenonT(30) DEF SendStreamAccept
<1>11. ASSUME Inv, ForwardListen PROVE HeldInv'
  <2> DEFINE e == "provider"
             h == held[e] \cup {"listener"}
  <2>1. h \in SUBSET Parts /\ deferred[e] \in SUBSET Parts /\ \A part \in h : MayHold(e, "conn", part)
    BY <1>11 DEF ForwardListen, HeldInv, HoldType, MayHold, Parts
  <2>2. "relay" \in deferred[e]
    BY <1>11 DEF ForwardListen, HeldInv, Defers
  <2>3. QED
    BY <1>11, <2>1, <2>2, HoldStep, ZenonT(30) DEF ForwardListen
<1>12. ASSUME Inv, Handshake PROVE HeldInv'
  <2> DEFINE e == "consumer"
             h == held[e] \cup {"conn"}
  <2>1. h \in SUBSET Parts /\ deferred[e] \in SUBSET Parts /\ \A part \in h : MayHold(e, "stream", part)
    BY <1>12 DEF Handshake, HeldInv, HoldType, MayHold, Parts, SessionParts
  <2>2. "local" \in deferred[e] /\ "relay" \in deferred[e]
    BY <1>12 DEF Handshake, HeldInv, Defers
  <2>3. QED
    BY <1>12, <2>1, <2>2, HoldStep, ZenonT(30) DEF Handshake
<1>13. ASSUME Inv, OpenForwardStream PROVE HeldInv'
  <2> DEFINE e == "consumer"
             h == held[e] \cup {"stream"}
             d == deferred[e] \cup SessionParts
  <2>1. h \in SUBSET Parts /\ d \in SUBSET Parts /\ \A part \in h : MayHold(e, "forward", part)
    BY <1>13 DEF OpenForwardStream, HeldInv, HoldType, MayHold, Parts, SessionParts
  <2>2. "local" \in d /\ "relay" \in d /\ SessionParts \subseteq d
    BY <1>13 DEF OpenForwardStream, HeldInv, Defers
  <2>3. QED
    BY <1>13, <2>1, <2>2, HoldStep, ZenonT(30) DEF OpenForwardStream
<1>14. ASSUME Inv, DialForwardFails PROVE HeldInv'
  <2>1. at["consumer"] = "udp" => Left("consumer", {})
    BY <1>14 DEF HeldInv, Defers, MayHold, Parts, SessionParts
  <2>2. at["consumer"] = "conn" => Left("consumer", {"transport", "udp"})
    BY <1>14 DEF HeldInv, Defers, MayHold, Parts, SessionParts
  <2>3. at["consumer"] = "stream" => Left("consumer", {"conn", "transport", "udp"})
    BY <1>14 DEF HeldInv, Defers, MayHold, Parts, SessionParts
  <2>4. QED
    BY <1>14, <2>1, <2>2, <2>3, ReturnStep, ZenonT(30) DEF DialForwardFails
<1>15. ASSUME Inv, AcceptForwardConn PROVE HeldInv'
  <2> DEFINE e == "provider"
             h == held[e] \cup {"conn"}
  <2>1. h \in SUBSET Parts /\ deferred[e] \in SUBSET Parts /\ \A part \in h : MayHold(e, "stream", part)
    BY <1>15 DEF AcceptForwardConn, HeldInv, HoldType, MayHold, Parts, SessionParts
  <2>2. "relay" \in deferred[e]
    BY <1>15 DEF AcceptForwardConn, HeldInv, Defers
  <2>3. QED
    BY <1>15, <2>1, <2>2, HoldStep, ZenonT(30) DEF AcceptForwardConn
<1>16. ASSUME Inv, AcceptForwardStream PROVE HeldInv'
  <2> DEFINE e == "provider"
             h == (held[e] \cup {"stream"}) \ {"listener"}
             d == deferred[e] \cup SessionParts
  <2>1. h \in SUBSET Parts /\ d \in SUBSET Parts /\ \A part \in h : MayHold(e, "forward", part)
    BY <1>16 DEF AcceptForwardStream, HeldInv, HoldType, MayHold, Parts, SessionParts
  <2>2. "relay" \in d /\ SessionParts \subseteq d
    BY <1>16 DEF AcceptForwardStream, HeldInv, Defers
  <2>3. QED
    BY <1>16, <2>1, <2>2, HoldStep, ZenonT(30) DEF AcceptForwardStream
<1>17. ASSUME Inv, AcceptForwardFails PROVE HeldInv'
  <2>1. at["provider"] = "udp" => Left("provider", {"local"})
    BY <1>17 DEF HeldInv, Defers, MayHold, Parts, SessionParts
  <2>2. at["provider"] = "listen" => Left("provider", {"transport", "udp", "local"})
    BY <1>17 DEF HeldInv, Defers, MayHold, Parts, SessionParts
  <2>3. at["provider"] = "conn" => Left("provider", {"transport", "udp", "listener", "local"})
    BY <1>17 DEF HeldInv, Defers, MayHold, Parts, SessionParts
  <2>4. at["provider"] = "stream" => Left("provider", {"conn", "transport", "udp", "listener", "local"})
    BY <1>17 DEF HeldInv, Defers, MayHold, Parts, SessionParts
  <2>5. QED
    BY <1>17, <2>1, <2>2, <2>3, <2>4, ReturnStep, ZenonT(30) DEF AcceptForwardFails
<1>18. ASSUME Inv, Speak \/ QuicDies \/ UNCHANGED modeVars PROVE HeldInv'
  BY <1>18, HeldSame, Zenon DEF Speak, QuicDies, holding, modeVars
<1>19. Inv /\ [ModeNext]_modeVars => HeldInv'
  BY <1>1, <1>2, <1>3, <1>4, <1>5, <1>6, <1>7, <1>8, <1>9, <1>10, <1>11, <1>12, <1>13, <1>14,
     <1>15, <1>16, <1>17, <1>18, Zenon DEF ModeNext
<1>20. ModeInv => WaitType
  BY Zenon DEF ModeInv
<1>21. ModeInv /\ HeldInv => DoneReleasesAll
  BY DEF ModeInv, WaiterInv, HeldInv, HoldType, MayHold, DoneReleasesAll
<1>22. QED
  BY <1>19, <1>20, <1>21, ModeStart, ModeInvariant, PTL DEF ModeSpec
=============================================================================
