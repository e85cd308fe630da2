---------------------------- MODULE StreamTable ----------------------------
(***************************************************************************)
(* The stream registry of one Session (pkg/session/session.go): the map    *)
(* s.streams from stream ids to ResumableStream wrappers, the goroutines   *)
(* that fill it (Dial on the consumer side, handleIncoming on the provider *)
(* side), the ones that empty it (ResumableStream.Close and the Resume     *)
(* loop of Reconnect) and the connection the wrappers' inner streams live  *)
(* on.  Bytes are left out (module StreamResume counts them); a wrapper is *)
(* an identity, its id is what the two sides of a stream agree on.         *)
(***************************************************************************)
EXTENDS Naturals, FiniteSets

CONSTANTS
    Wrappers,   \* wrapper objects that may be allocated
    Ids,        \* stream ids: resume.StreamID values
    None,       \* no wrapper, or no id
    MaxConns    \* bound: connections dialed in a behaviour

ASSUME NoneAssumption == None \notin Wrappers \cup Ids

ASSUME MaxConnsAssumption == MaxConns \in Nat \ {0}

VARIABLES
    streams,    \* s.streams
    id,         \* rs.state.ID, None before the wrapper has one
    pc,         \* where the goroutine that owns the wrapper is
    abandoned,  \* rs.abandoned
    inner,      \* the connection that carries rs.inner, 0 before OpenStream
    conn,       \* s.conn: the newest connection
    alive,      \* whether that connection still works
    phase,      \* where RunWithReconnect is
    todo,       \* the wrappers Reconnect has yet to Resume
    victim,     \* what a forgetStream in progress took out of the map:
                \* indexed by the wrapper being closed, None for Reconnect
    ended,      \* history: wrappers whose own Close or Resume failure began
    listed      \* history: what ActiveStreams returned to the last Reconnect

vars == <<streams, id, pc, abandoned, inner, conn, alive, phase, todo,
          victim, ended, listed>>

reconnectVars == <<conn, alive, phase, todo>>

Phases == {"run", "register", "resume", "mark"}

PCs == {"unused", "dial", "open", "dialed", "accepted", "bridge", "mark",
        "closed"}

(* One type invariant: every variable keeps the shape the Session fields    *)
(* have.                                                                    *)
TypeOK ==
    /\ streams \in [Ids -> Wrappers \cup {None}]
    /\ id \in [Wrappers -> Ids \cup {None}]
    /\ pc \in [Wrappers -> PCs]
    /\ abandoned \in [Wrappers -> BOOLEAN]
    /\ inner \in [Wrappers -> 0..MaxConns]
    /\ conn \in 1..MaxConns
    /\ alive \in BOOLEAN
    /\ phase \in Phases
    /\ todo \subseteq Wrappers
    /\ victim \in [Wrappers \cup {None} -> Wrappers \cup {None}]
    /\ ended \subseteq Wrappers
    /\ listed \subseteq Wrappers

Init ==
    /\ streams = [i \in Ids |-> None]
    /\ id = [w \in Wrappers |-> None]
    /\ pc = [w \in Wrappers |-> "unused"]
    /\ abandoned = [w \in Wrappers |-> FALSE]
    /\ inner = [w \in Wrappers |-> 0]
    /\ conn = 1
    /\ alive = TRUE
    /\ phase = "run"
    /\ todo = {}
    /\ victim = [t \in Wrappers \cup {None} |-> None]
    /\ ended = {}
    /\ listed = {}

-----------------------------------------------------------------------------
(* Opening a stream.                                                        *)

(* Dial: s.conn.OpenStream.  On a dead connection it fails and Dial         *)
(* returns, which leaves everything as it was.                              *)
OpenStream(w) ==
    /\ pc[w] = "unused"
    /\ alive
    /\ pc' = [pc EXCEPT ![w] = "dial"]
    /\ inner' = [inner EXCEPT ![w] = conn]
    /\ UNCHANGED <<streams, id, abandoned, reconnectVars, victim, ended, listed>>

(* freshStreamID: an id that is not in the map while s.mu is held for       *)
(* reading.  The lock is released before wrapStream uses the id.            *)
FreshStreamID(w) ==
    /\ pc[w] = "dial"
    /\ \E i \in Ids :
        /\ streams[i] = None
        /\ id' = [id EXCEPT ![w] = i]
    /\ pc' = [pc EXCEPT ![w] = "open"]
    /\ UNCHANGED <<streams, abandoned, inner, reconnectVars, victim, ended, listed>>

(* Dial writes OPEN_STREAM.  Either may happen once the connection is lost: *)
(* the frame was handed to it just before, or the write fails and Dial      *)
(* closes the stream and returns without a wrapper.                         *)
SendOpenStream(w) ==
    /\ pc[w] = "open"
    /\ \/ pc' = [pc EXCEPT ![w] = "dialed"]
       \/ /\ ~(alive /\ inner[w] = conn)
          /\ pc' = [pc EXCEPT ![w] = "closed"]
    /\ UNCHANGED <<streams, id, abandoned, inner, reconnectVars, victim,
                   ended, listed>>

(* Run accepts a stream and handleIncoming parses INCOMING_STREAM, calls    *)
(* the handler and writes STREAM_ACCEPT; every error path ends before       *)
(* wrapStream and leaves no wrapper.  The id is the consumer's: any id, the *)
(* one of a stream this agent dialed included, since an agent may consume   *)
(* the service it exposes.                                                  *)
HandleIncoming(w) ==
    /\ pc[w] = "unused"
    /\ phase = "run"
    /\ alive
    /\ \E i \in Ids : id' = [id EXCEPT ![w] = i]
    /\ inner' = [inner EXCEPT ![w] = conn]
    /\ pc' = [pc EXCEPT ![w] = "accepted"]
    /\ UNCHANGED <<streams, abandoned, reconnectVars, victim, ended, listed>>

(* wrapStream: the new wrapper replaces whatever has the id.                *)
WrapStream(w) ==
    /\ pc[w] \in {"dialed", "accepted"}
    /\ streams' = [streams EXCEPT ![id[w]] = w]
    /\ pc' = [pc EXCEPT ![w] = "bridge"]
    /\ UNCHANGED <<id, abandoned, inner, reconnectVars, victim, ended, listed>>

-----------------------------------------------------------------------------
(* forgetStream takes what is registered under an id out of the map under   *)
(* s.mu and marks it abandoned after the unlock.  t says who called.        *)

(* forgetStream that marks the wrapper but leaves the map entry.            *)
ForgetStreamKeepsEntry(t, i) ==
    /\ victim' = [victim EXCEPT ![t] = streams[i]]
    /\ streams' = streams

ForgetStream(t, i) ==
    /\ victim' = [victim EXCEPT ![t] = streams[i]]
    /\ streams' = [streams EXCEPT ![i] = None]

(* Close, its first part: the bridge is over and forgetStream runs.         *)
Close(w) ==
    /\ pc[w] = "bridge"
    /\ ForgetStream(w, id[w])
    /\ pc' = [pc EXCEPT ![w] = "mark"]
    /\ ended' = ended \cup {w}
    /\ UNCHANGED <<id, abandoned, inner, reconnectVars, listed>>

(* Close, the rest: forgetStream marks what it took out, Close marks its    *)
(* own wrapper and closes the inner stream.                                 *)
MarkAbandoned(w) ==
    /\ pc[w] = "mark"
    /\ abandoned' = [v \in Wrappers |-> abandoned[v] \/ v \in {w, victim[w]}]
    /\ victim' = [victim EXCEPT ![w] = None]
    /\ pc' = [pc EXCEPT ![w] = "closed"]
    /\ UNCHANGED <<streams, id, inner, reconnectVars, ended, listed>>

-----------------------------------------------------------------------------
(* RunWithReconnect.                                                        *)

(* The relay, or the path to it, dies.  External.                           *)
LoseConn ==
    /\ alive
    /\ alive' = FALSE
    /\ UNCHANGED <<streams, id, pc, abandoned, inner, conn, phase, todo,
                   victim, ended, listed>>

(* Run has returned an error; Reconnect dials, says HELLO and swaps s.conn. *)
(* A failed attempt only backs off and tries again.                         *)
Redial ==
    /\ phase = "run"
    /\ ~alive
    /\ conn < MaxConns
    /\ conn' = conn + 1
    /\ alive' = TRUE
    /\ phase' = "register"
    /\ UNCHANGED <<streams, id, pc, abandoned, inner, todo, victim, ended, listed>>

(* A REGISTER or its ack fails: Reconnect returns and will be called again. *)
RegisterFails ==
    /\ phase = "register"
    /\ ~alive
    /\ phase' = "run"
    /\ UNCHANGED <<streams, id, pc, abandoned, inner, conn, alive, todo,
                   victim, ended, listed>>

(* Every REGISTER is acknowledged (or nothing is exposed) and Reconnect     *)
(* takes the streams that are registered now: ActiveStreams.                *)
ActiveStreams ==
    /\ phase = "register"
    /\ todo' = {w \in Wrappers : \E i \in Ids : streams[i] = w}
    /\ listed' = todo'
    /\ phase' = "resume"
    /\ UNCHANGED <<streams, id, pc, abandoned, inner, conn, alive, victim,
                   ended>>

(* Resume of one stream succeeds: STREAM_RESUME, the echo, the gap,         *)
(* SwapInner.  The order is that of a Go map: any.                          *)
Resume(w) ==
    /\ phase = "resume"
    /\ w \in todo
    /\ alive
    /\ inner' = [inner EXCEPT ![w] = conn]
    /\ todo' = todo \ {w}
    /\ UNCHANGED <<streams, id, pc, abandoned, conn, alive, phase, victim,
                   ended, listed>>

(* A Resume that gives up is passed over and the stream stays in the map.   *)
ResumeFailsSkipped(w) ==
    /\ phase = "resume"
    /\ w \in todo
    /\ todo' = todo \ {w}
    /\ UNCHANGED <<streams, id, pc, abandoned, inner, conn, alive, phase,
                   victim, ended, listed>>

(* Resume of one stream fails (the connection died again, the matcher's     *)
(* window passed, the gap is not in the ring): Reconnect calls forgetStream *)
(* with its id and goes on.                                                 *)
ResumeFails(w) ==
    /\ phase = "resume"
    /\ w \in todo
    /\ ForgetStream(None, id[w])
    /\ todo' = todo \ {w}
    /\ phase' = "mark"
    /\ ended' = ended \cup {w}
    /\ UNCHANGED <<id, pc, abandoned, inner, conn, alive, listed>>

(* Reconnect forgetting a stream without telling its wrapper.               *)
MarkDroppedSilently ==
    /\ phase = "mark"
    /\ abandoned' = abandoned
    /\ victim' = [victim EXCEPT ![None] = None]
    /\ phase' = "resume"
    /\ UNCHANGED <<streams, id, pc, inner, conn, alive, todo, ended, listed>>

(* Reconnect giving up on every stream left once one has failed.            *)
MarkDroppedAll ==
    /\ phase = "mark"
    /\ abandoned' = [v \in Wrappers |-> abandoned[v] \/ v = victim[None]
                                                   \/ v \in todo]
    /\ victim' = [victim EXCEPT ![None] = None]
    /\ phase' = "resume"
    /\ UNCHANGED <<streams, id, pc, inner, conn, alive, todo, ended, listed>>

(* The markAbandoned of the forgetStream that Reconnect called.             *)
MarkDropped ==
    /\ phase = "mark"
    /\ abandoned' = [v \in Wrappers |-> abandoned[v] \/ v = victim[None]]
    /\ victim' = [victim EXCEPT ![None] = None]
    /\ phase' = "resume"
    /\ UNCHANGED <<streams, id, pc, inner, conn, alive, todo, ended, listed>>

(* The loop is over: Reconnect returns nil and Run accepts again.           *)
Reconnected ==
    /\ phase = "resume"
    /\ todo = {}
    /\ phase' = "run"
    /\ UNCHANGED <<streams, id, pc, abandoned, inner, conn, alive, todo,
                   victim, ended, listed>>

-----------------------------------------------------------------------------
WrapperStep(w) ==
    \/ OpenStream(w)
    \/ FreshStreamID(w)
    \/ SendOpenStream(w)
    \/ HandleIncoming(w)
    \/ WrapStream(w)
    \/ Close(w)
    \/ MarkAbandoned(w)
    \/ Resume(w)
    \/ ResumeFails(w)

Next ==
    \/ \E w \in Wrappers : WrapperStep(w)
    \/ LoseConn
    \/ Redial
    \/ RegisterFails
    \/ ActiveStreams
    \/ MarkDropped
    \/ Reconnected

Spec == Init /\ [][Next]_vars

-----------------------------------------------------------------------------
(* Properties.                                                              *)

(* The wrappers that have been registered and share w's id.                 *)
Namesakes(w) ==
    {v \in Wrappers \ {w} : id[v] = id[w] /\ pc[v] \in {"bridge", "mark",
                                                        "closed"}}

(* Nobody else tears a stream down: a wrapper is marked abandoned only      *)
(* after its own Close or its own failed Resume, unless another stream used *)
(* its id (forgetStream goes by id, not by wrapper).                        *)
AbandonedByOwner ==
    \A w \in Wrappers :
        abandoned[w] /\ Namesakes(w) = {} => w \in ended

(* A wrapper in use is in the map, where Reconnect finds it; when Reconnect *)
(* drops it, its parked Read and Write are told through markAbandoned,      *)
(* at the latest by the call that is still running.  The exception again is *)
(* a wrapper that another one replaced.                                     *)
DroppedIsTold ==
    \A w \in Wrappers :
        /\ pc[w] = "bridge"
        /\ Namesakes(w) = {}
        /\ streams[id[w]] # w
        => abandoned[w] \/ victim[None] = w

(* A closed stream is never resumed by a later Reconnect: once Close has    *)
(* called forgetStream the map does not hold the wrapper again, whatever    *)
(* other streams came and went under its id.                                *)
ClosedIsForgotten ==
    \A w \in Wrappers, i \in Ids :
        pc[w] \in {"mark", "closed"} => streams[i] # w

(* Reconnect leaves no stream that it took on behind: when it returns, each *)
(* one is closed or given up, has been replaced under its id, or is carried *)
(* by the connection it dialed.                                             *)
ListedIsResumed ==
    [][Reconnected =>
        \A w \in listed :
            streams[id[w]] = w /\ ~abandoned[w] => inner[w] = conn]_vars

-----------------------------------------------------------------------------
(* Claims of comments that the code does not keep.                          *)

(* Reconnect's comment: STREAM_RESUME is replayed on every active stream.   *)
(* When Reconnect returns, every stream in the map that was not given up is *)
(* carried by the connection it dialed.                                     *)
ResumesEveryActive ==
    [][Reconnected =>
        \A i \in Ids :
            streams[i] # None /\ ~abandoned[streams[i]] =>
                inner[streams[i]] = conn]_vars

(* wrapStream's comment: the new stream of a collision stays functional.    *)
(* A wrapper that has the map entry of its id is abandoned only after its   *)
(* own Close or its own failed Resume.                                      *)
NewStreamSurvives ==
    [][\A w \in Wrappers :
        abandoned'[w] /\ ~abandoned[w] => w \in ended']_vars

(* freshStreamID's promise: an id it returned is not in the map when        *)
(* wrapStream registers it, so a Dial replaces no active stream.            *)
FreshIdsNeverCollide ==
    [][\A w \in Wrappers :
        pc[w] = "dialed" /\ WrapStream(w) => streams[id[w]] = None]_vars
=============================================================================
