--------------------------- MODULE ControlStream ---------------------------
(***************************************************************************)
(* The control stream of one Session and everyone who reads or writes it:  *)
(* main and RunWithReconnect (Expose, QueryServerReflexive, EnableP2P, the *)
(* REGISTERs that Reconnect replays, restartControlReaderIfEnabled), the   *)
(* controlReader goroutines, the goroutine that QueryServerReflexive       *)
(* starts, and the goroutines that send frames through writeCtrl (Promote, *)
(* the checkpoint emitter).  Sources: cmd/outrelay-agent/main.go and       *)
(* pkg/session/{session,promote,checkpoints}.go, pkg/candidate.            *)
(*                                                                         *)
(* A control stream is the number of the connection it belongs to.  Of a   *)
(* frame only its class counts: the answer to a REGISTER ("ack") or to an  *)
(* OBSERVED_ADDR_QUERY ("observed"), a CANDIDATE_OFFER, which makes the    *)
(* reader write, and everything else the relay sends ("notice").           *)
(***************************************************************************)
EXTENDS Naturals, Sequences, FiniteSets

CONSTANTS
    Readers,     \* controlReader goroutines that may be started
    Writers,     \* goroutines that call writeCtrl
    Free,        \* ctrlWriteMu is unlocked
    MaxConns,    \* bound: connections dialed in a behaviour
    MaxNotices   \* bound: frames the relay sends of its own accord

ASSUME ControlBounds == MaxConns \in Nat \ {0} /\ MaxNotices \in Nat

ASSUME FreeAssumption == Free \notin Readers \cup Writers

VARIABLES
    exposes,     \* --expose-service is set
    listens,     \* --p2p-listen is set, so main queries its reflexive address
    main,        \* where main, later RunWithReconnect, is
    ctrl,        \* s.ctrl
    dead,        \* control streams whose connection is gone
    queue,       \* frames on their way to the agent, per control stream
    registered,  \* the relay knows the service, per control stream
    notices,     \* frames the relay sent of its own accord
    reader,      \* [at, on, frame] of each controlReader
    query,       \* the goroutine of QueryServerReflexive
    p2pEnabled,  \* s.p2pEnabled
    mu,          \* who holds ctrlWriteMu
    writer,      \* [at, on] of each goroutine in writeCtrl
    overlap      \* history: Reconnect swapped s.ctrl under a controlReader
                 \* that was not done with the old stream, or a query outlived
                 \* its timeout

vars == <<exposes, listens, main, ctrl, dead, queue, registered, notices,
          reader, query, p2pEnabled, mu, writer, overlap>>

Conns == 1..MaxConns

Frames == {"ack", "observed", "offer", "notice"}

MainPCs == {"expose", "exposeAck", "query", "queryWait", "enable", "run",
            "close", "dial", "register", "writing", "ack", "resume", "exit"}

(* One type invariant.                                                      *)
TypeOK ==
    /\ exposes \in BOOLEAN /\ listens \in BOOLEAN
    /\ main \in MainPCs
    /\ ctrl \in Conns
    /\ dead \subseteq Conns
    /\ queue \in [Conns -> Seq(Frames)]
    /\ registered \subseteq Conns
    /\ notices \in 0..MaxNotices
    /\ reader \in [Readers ->
        [at : {"off", "top", "parse", "handle", "write"},
         on : Conns, frame : Frames]]
    /\ query \in {"off", "parse", "done"}
    /\ p2pEnabled \in BOOLEAN
    /\ mu \in Readers \cup Writers \cup {Free}
    /\ writer \in [Writers -> [at : {"idle", "write"}, on : Conns]]
    /\ overlap \in BOOLEAN

(* DialAnyHappy has returned a session with its HELLO done.                 *)
Init ==
    /\ exposes \in BOOLEAN
    /\ listens \in BOOLEAN
    /\ main = IF exposes THEN "expose" ELSE "query"
    /\ ctrl = 1
    /\ dead = {}
    /\ queue = [g \in Conns |-> <<>>]
    /\ registered = {}
    /\ notices = 0
    /\ reader = [r \in Readers |-> [at |-> "off", on |-> 1, frame |-> "notice"]]
    /\ query = "off"
    /\ p2pEnabled = FALSE
    /\ mu = Free
    /\ writer = [w \in Writers |-> [at |-> "idle", on |-> 1]]
    /\ overlap = FALSE

-----------------------------------------------------------------------------
(* ParseFrame on control stream g returns frame f: any goroutine that is    *)
(* blocked in it may be the one.                                            *)
ParseFrame(g, f) ==
    /\ queue[g] # <<>>
    /\ f = Head(queue[g])
    /\ queue' = [queue EXCEPT ![g] = Tail(@)]

(* The relay's part.  External.                                             *)
Deliver(f) == queue' = [queue EXCEPT ![ctrl] = Append(@, f)]

RelayNotifies(f) ==
    /\ ctrl \notin dead
    /\ notices < MaxNotices
    /\ \/ f = "offer" /\ ctrl \in registered
       \/ f = "notice" /\ p2pEnabled
    /\ Deliver(f)
    /\ notices' = notices + 1
    /\ UNCHANGED <<exposes, listens, main, ctrl, dead, registered, reader,
                   query, p2pEnabled, mu, writer, overlap>>

RelayDies ==
    /\ ctrl \notin dead
    /\ dead' = dead \cup {ctrl}
    /\ UNCHANGED <<exposes, listens, main, ctrl, queue, registered, notices,
                   reader, query, p2pEnabled, mu, writer, overlap>>

-----------------------------------------------------------------------------
(* main, up to Run.                                                         *)

goroutines == <<reader, query, p2pEnabled, mu, writer>>

(* Expose writes REGISTER and then reads the stream itself.                 *)
Expose ==
    /\ main = "expose"
    /\ main' = "exposeAck"
    /\ IF ctrl \in dead
       THEN UNCHANGED <<queue, registered>>
       ELSE /\ Deliver("ack")
            /\ registered' = registered \cup {ctrl}
    /\ UNCHANGED <<exposes, listens, ctrl, dead, notices, goroutines, overlap>>

(* An error, or a frame that is not REGISTER_ACK, ends the program.         *)
ExposeAck ==
    /\ main = "exposeAck"
    /\ \/ \E f \in Frames :
            /\ ParseFrame(ctrl, f)
            /\ main' = IF f = "ack" THEN "query" ELSE "exit"
            /\ dead' = IF f = "ack" THEN dead ELSE dead \cup {ctrl}
       \/ /\ ctrl \in dead
          /\ main' = "exit"
          /\ UNCHANGED <<queue, dead>>
    /\ UNCHANGED <<exposes, listens, ctrl, registered, notices, goroutines,
                   overlap>>

(* QueryServerReflexive writes the query and starts a goroutine that reads  *)
(* one frame.                                                               *)
QueryServerReflexive ==
    /\ main = "query"
    /\ IF listens
       THEN /\ main' = "queryWait"
            /\ query' = "parse"
            /\ IF ctrl \in dead THEN UNCHANGED queue ELSE Deliver("observed")
       ELSE /\ main' = "enable"
            /\ UNCHANGED <<query, queue>>
    /\ UNCHANGED <<exposes, listens, ctrl, dead, registered, notices, reader,
                   p2pEnabled, mu, writer, overlap>>

(* That goroutine: whatever it reads, it sends a result and ends.           *)
QueryReads ==
    /\ query = "parse"
    /\ \/ \E f \in Frames : ParseFrame(1, f)
       \/ 1 \in dead /\ UNCHANGED queue
    /\ query' = "done"
    /\ UNCHANGED <<exposes, listens, main, ctrl, dead, registered, notices,
                   reader, p2pEnabled, mu, writer, overlap>>

(* The result arrives, or the timeout does and the goroutine is left        *)
(* behind.  main goes on either way.                                        *)
QueryReturns ==
    /\ main = "queryWait"
    /\ main' = "enable"
    /\ overlap' = (overlap \/ query = "parse")
    /\ UNCHANGED <<exposes, listens, ctrl, dead, queue, registered, notices,
                   goroutines>>

(* go s.controlReader(ctx).                                                 *)
StartReader ==
    \E r \in Readers :
        /\ reader[r].at = "off"
        /\ reader' = [reader EXCEPT ![r].at = "top"]

EnableP2P ==
    /\ main = "enable"
    /\ p2pEnabled' = TRUE
    /\ StartReader
    /\ main' = "run"
    /\ UNCHANGED <<exposes, listens, ctrl, dead, queue, registered, notices,
                   query, mu, writer, overlap>>

-----------------------------------------------------------------------------
(* RunWithReconnect.                                                        *)

(* Run's AcceptStream fails.                                                *)
RunReturns ==
    /\ main = "run"
    /\ ctrl \in dead
    /\ main' = "close"
    /\ UNCHANGED <<exposes, listens, ctrl, dead, queue, registered, notices,
                   goroutines, overlap>>

(* Reconnect closes the connection it has, working or not.                  *)
CloseConn ==
    /\ main = "close"
    /\ dead' = dead \cup {ctrl}
    /\ main' = "dial"
    /\ UNCHANGED <<exposes, listens, ctrl, queue, registered, notices,
                   goroutines, overlap>>

(* s.conn and s.ctrl swapped without ctrlWriteMu.                           *)
SwapCtrlUnlocked ==
    /\ main = "dial"
    /\ ctrl < MaxConns
    /\ ctrl' = ctrl + 1
    /\ main' = IF exposes THEN "register" ELSE "resume"
    /\ overlap' = (overlap \/ \E r \in Readers :
                                reader[r].at \in {"top", "handle", "write"})
    /\ UNCHANGED <<exposes, listens, dead, queue, registered, notices,
                   goroutines>>

(* Reconnect has dialed and said HELLO: it swaps s.conn and s.ctrl under    *)
(* ctrlWriteMu.  A controlReader that is handling a frame now will read the *)
(* new stream when it gets back to the top of its loop.                     *)
SwapCtrl ==
    /\ main = "dial"
    /\ mu = Free
    /\ ctrl < MaxConns
    /\ ctrl' = ctrl + 1
    /\ main' = IF exposes THEN "register" ELSE "resume"
    /\ overlap' = (overlap \/ \E r \in Readers :
                                reader[r].at \in {"top", "handle", "write"})
    /\ UNCHANGED <<exposes, listens, dead, queue, registered, notices,
                   goroutines>>

(* The REGISTER of the exposed service is written without ctrlWriteMu.      *)
Register ==
    /\ main = "register"
    /\ main' = "writing"
    /\ UNCHANGED <<exposes, listens, ctrl, dead, queue, registered, notices,
                   goroutines, overlap>>

RegisterWritten ==
    /\ main = "writing"
    /\ main' = "ack"
    /\ IF ctrl \in dead
       THEN UNCHANGED <<queue, registered>>
       ELSE /\ Deliver("ack")
            /\ registered' = registered \cup {ctrl}
    /\ UNCHANGED <<exposes, listens, ctrl, dead, notices, goroutines, overlap>>

(* A wait for the ack that reads on after an error.                         *)
RegisterAckInsists ==
    /\ main = "ack"
    /\ \E f \in Frames :
        /\ ParseFrame(ctrl, f)
        /\ main' = IF f = "ack" THEN "resume" ELSE "close"
    /\ UNCHANGED <<exposes, listens, ctrl, dead, registered, notices,
                   goroutines, overlap>>

(* Reconnect reads the stream for the ack.  An error or another frame makes *)
(* it return, and RunWithReconnect calls it again after a pause.            *)
RegisterAck ==
    /\ main = "ack"
    /\ \/ \E f \in Frames :
            /\ ParseFrame(ctrl, f)
            /\ main' = IF f = "ack" THEN "resume" ELSE "close"
       \/ /\ ctrl \in dead
          /\ main' = "close"
          /\ UNCHANGED queue
    /\ UNCHANGED <<exposes, listens, ctrl, dead, registered, notices,
                   goroutines, overlap>>

(* RunWithReconnect without restartControlReaderIfEnabled.                  *)
ReconnectedNoReader ==
    /\ main = "resume"
    /\ main' = "run"
    /\ UNCHANGED <<exposes, listens, ctrl, dead, queue, registered, notices,
                   goroutines, overlap>>

(* The streams are resumed (module ResumeRendezvous), Reconnect returns and *)
(* restartControlReaderIfEnabled starts a reader.                           *)
Reconnected ==
    /\ main = "resume"
    /\ StartReader
    /\ main' = "run"
    /\ UNCHANGED <<exposes, listens, ctrl, dead, queue, registered, notices,
                   query, p2pEnabled, mu, writer, overlap>>

-----------------------------------------------------------------------------
(* controlReader.                                                           *)

(* The top of the loop: ParseFrame is called with the s.ctrl of now.        *)
ReaderLoops(r) ==
    /\ reader[r].at = "top"
    /\ reader' = [reader EXCEPT ![r].at = "parse", ![r].on = ctrl]
    /\ UNCHANGED <<exposes, listens, main, ctrl, dead, queue, registered,
                   notices, query, p2pEnabled, mu, writer, overlap>>

(* A controlReader that tries again after an error.                         *)
ReaderReadsStubborn(r) ==
    /\ reader[r].at = "parse"
    /\ \/ \E f \in Frames :
            /\ ParseFrame(reader[r].on, f)
            /\ reader' = [reader EXCEPT ![r].at = "handle", ![r].frame = f]
            /\ overlap' = (overlap \/ reader[r].on # ctrl)
       \/ /\ reader[r].on \in dead
          /\ reader' = [reader EXCEPT ![r].at = "top"]
          /\ UNCHANGED <<queue, overlap>>
    /\ UNCHANGED <<exposes, listens, main, ctrl, dead, registered, notices,
                   query, p2pEnabled, mu, writer>>

(* ParseFrame returns a frame, or an error that ends the reader.            *)
ReaderReads(r) ==
    /\ reader[r].at = "parse"
    /\ \/ \E f \in Frames :
            /\ ParseFrame(reader[r].on, f)
            /\ reader' = [reader EXCEPT ![r].at = "handle", ![r].frame = f]
            /\ overlap' = (overlap \/ reader[r].on # ctrl)
       \/ /\ reader[r].on \in dead
          /\ reader' = [reader EXCEPT ![r].at = "off"]
          /\ UNCHANGED <<queue, overlap>>
    /\ UNCHANGED <<exposes, listens, main, ctrl, dead, registered, notices,
                   query, p2pEnabled, mu, writer>>

(* Everything but an offer is delivered to a waiter, applied to a stream or *)
(* dropped with a log line, and the reader loops.                           *)
ReaderDispatches(r) ==
    /\ reader[r].at = "handle"
    /\ reader[r].frame # "offer"
    /\ reader' = [reader EXCEPT ![r].at = "top"]
    /\ UNCHANGED <<exposes, listens, main, ctrl, dead, queue, registered,
                   notices, query, p2pEnabled, mu, writer, overlap>>

(* An offer is answered through writeCtrl.                                  *)
ReaderAnswers(r) ==
    /\ reader[r].at = "handle"
    /\ reader[r].frame = "offer"
    /\ mu = Free
    /\ mu' = r
    /\ reader' = [reader EXCEPT ![r].at = "write", ![r].on = ctrl]
    /\ UNCHANGED <<exposes, listens, main, ctrl, dead, queue, registered,
                   notices, query, p2pEnabled, writer, overlap>>

(* The answer is written, or the write fails with a log line.               *)
ReaderAnswered(r) ==
    /\ reader[r].at = "write"
    /\ mu' = Free
    /\ reader' = [reader EXCEPT ![r].at = "top"]
    /\ UNCHANGED <<exposes, listens, main, ctrl, dead, queue, registered,
                   notices, query, p2pEnabled, writer, overlap>>

-----------------------------------------------------------------------------
(* writeCtrl, from Promote or emitOnce.                                     *)
WriteCtrl(w) ==
    /\ p2pEnabled
    /\ writer[w].at = "idle"
    /\ mu = Free
    /\ mu' = w
    /\ writer' = [writer EXCEPT ![w] = [at |-> "write", on |-> ctrl]]
    /\ UNCHANGED <<exposes, listens, main, ctrl, dead, queue, registered,
                   notices, reader, query, p2pEnabled, overlap>>

CtrlWritten(w) ==
    /\ writer[w].at = "write"
    /\ mu' = Free
    /\ writer' = [writer EXCEPT ![w].at = "idle"]
    /\ UNCHANGED <<exposes, listens, main, ctrl, dead, queue, registered,
                   notices, reader, query, p2pEnabled, overlap>>

-----------------------------------------------------------------------------
MainStep ==
    \/ Expose
    \/ ExposeAck
    \/ QueryServerReflexive
    \/ QueryReturns
    \/ EnableP2P
    \/ RunReturns
    \/ CloseConn
    \/ SwapCtrl
    \/ Register
    \/ RegisterWritten
    \/ RegisterAck
    \/ Reconnected

ReaderStep(r) ==
    \/ ReaderLoops(r)
    \/ ReaderReads(r)
    \/ ReaderDispatches(r)
    \/ ReaderAnswers(r)
    \/ ReaderAnswered(r)

Next ==
    \/ MainStep
    \/ QueryReads
    \/ \E r \in Readers : ReaderStep(r)
    \/ \E w \in Writers : WriteCtrl(w) \/ CtrlWritten(w)
    \/ \E f \in {"offer", "notice"} : RelayNotifies(f)
    \/ RelayDies

(* Goroutines that can run do, and ctrlWriteMu is handed out fairly (Go's   *)
(* mutex does not starve a waiter).  The relay may die or stay silent.      *)
Fairness ==
    /\ SF_vars(MainStep)
    /\ WF_vars(QueryReads)
    /\ \A r \in Readers : SF_vars(ReaderStep(r))
    /\ \A w \in Writers : WF_vars(CtrlWritten(w))

Spec == Init /\ [][Next]_vars

FairSpec == Spec /\ Fairness

-----------------------------------------------------------------------------
(* Properties.                                                              *)

(* The goroutines blocked in ParseFrame on control stream g.                *)
Blocked(g) ==
    {r \in Readers : reader[r].at = "parse" /\ reader[r].on = g}

(* One goroutine reads the control stream at a time, be it a controlReader, *)
(* Expose, Reconnect or the query, as long as no controlReader had a frame  *)
(* of the old stream in hand, or yet to read, when Reconnect swapped the    *)
(* stream and no query outlived its timeout.  A second reader would take    *)
(* frames the first one waits for.                                          *)
OneReaderUnlessOverlap ==
    \A g \in Conns \ dead :
        ~overlap => Cardinality(Blocked(g))
                    + (IF g = ctrl /\ main \in {"exposeAck", "ack"} THEN 1 ELSE 0)
                    + (IF g = 1 /\ query = "parse" THEN 1 ELSE 0) <= 1

(* Reconnect swaps the control stream only between frames of writeCtrl: a   *)
(* frame that Promote, the emitter or a reader began on one stream is never *)
(* in progress when s.ctrl names another.                                   *)
NoFrameAcrossSwap ==
    /\ \A w \in Writers : writer[w].at = "write" => writer[w].on = ctrl
    /\ \A r \in Readers : reader[r].at = "write" => reader[r].on = ctrl

(* Frames do not sit in the control stream for ever: what the relay sends   *)
(* after EnableP2P is read, or the connection is lost.  This is what        *)
(* restartControlReaderIfEnabled is for.                                    *)
FramesAreRead ==
    \A g \in Conns :
        p2pEnabled /\ queue[g] # <<>> ~> queue[g] = <<>> \/ g \in dead

(* Reconnect and Expose get their REGISTER_ACK, or the connection fails,    *)
(* unless an older reader was still busy when the stream was swapped.       *)
AckComesUnlessOverlap ==
    \A step \in {"exposeAck", "ack"} : main = step ~> main # step \/ overlap

-----------------------------------------------------------------------------
(* Claims of comments that the code does not keep.                          *)

(* StartResume's comment: at most one control-stream reader is alive at a   *)
(* time.                                                                    *)
AtMostOneReader ==
    Cardinality({r \in Readers : reader[r].at # "off"}) <= 1

(* Reconnect's comment: the ack of a replayed REGISTER is drained by        *)
(* Reconnect, so its wait for it ends.                                      *)
AckIsDrained == main = "ack" ~> main # "ack"

(* ctrlWriteMu's comment: no two goroutines write frames onto the control   *)
(* stream at once.                                                          *)
WritesSerialized ==
    main = "writing" =>
        /\ \A w \in Writers : writer[w].at # "write"
        /\ \A r \in Readers : reader[r].at # "write"
=============================================================================
