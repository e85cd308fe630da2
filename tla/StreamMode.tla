----------------------------- MODULE StreamMode -----------------------------
(***************************************************************************)
(* How the two ends of one new stream choose its data path: the stream     *)
(* mode waiters (pkg/session/promote.go) that Dial and handleIncoming      *)
(* install, the relay's notice to each end, the timeouts of runConsumer    *)
(* and handleIncoming, the bring-up of a ForwardSession                    *)
(* (pkg/session/forward.go, pkg/forward/conn.go), and what every return of *)
(* these functions closes, explicitly or by a deferred call.  The two      *)
(* agents are different processes that have called EnableP2P, as main does *)
(* before it serves a stream.  Times are left out: a timeout may fire at   *)
(* any moment of its wait.  The end of the program's context is left out   *)
(* too.                                                                    *)
(***************************************************************************)
Ends == {"consumer", "provider"}

Other(e) == CHOOSE x \in Ends : x # e

(* What a ForwardSession owns and its Close closes.                         *)
SessionParts == {"stream", "conn", "transport", "udp"}

(* All that an end has to close: "local" is the intercepted connection or   *)
(* the back end, "relay" the relay-mediated stream.                         *)
Parts == {"local", "relay", "listener"} \cup SessionParts

VARIABLES
    tls,       \* ends that have a TLS configuration for forward mode
    at,        \* where the goroutine of each end is
    opened,    \* the relay has OPEN_STREAM
    mode,      \* what the relay chose, "none" before it has
    notice,    \* the mode notice on its way to each end, or "none"
    waiter,    \* ends that have an entry in pendingMode
    box,       \* what the channel of that entry holds, or "none"
    dropped,   \* ends whose notice found no room
    timedOut,  \* ends that stopped waiting for the notice
    plane,     \* ends whose registration reached the forwarding plane
    quic,      \* the end-to-end connection: "none", "up" or "dead"
    spoken,    \* the consumer has sent something on it
    held,      \* what each end has opened and not closed
    deferred,  \* what the deferred calls of each end will close
    finished,  \* the streams whose write side each end has ended
    copies     \* copies of each end's bridge that have not ended

modeVars == <<tls, at, opened, mode, notice, waiter, box, dropped, timedOut,
          plane, quic, spoken, held, deferred, finished, copies>>

waiting == <<tls, opened, mode, notice, waiter, box, dropped, timedOut>>
holding == <<held, deferred, finished>>
path == <<plane, quic, spoken, copies>>

Modes == {"splice", "forward", "none"}

(* One type invariant.                                                      *)
ModeTypeOK ==
    /\ tls \subseteq Ends
    /\ at \in [Ends -> {"idle", "in", "open", "wait", "udp", "listen", "conn",
                        "stream", "splice", "forward", "done"}]
    /\ opened \in BOOLEAN
    /\ mode \in Modes
    /\ notice \in [Ends -> Modes]
    /\ waiter \subseteq Ends
    /\ box \in [Ends -> Modes]
    /\ dropped \subseteq Ends
    /\ timedOut \subseteq Ends
    /\ plane \subseteq Ends
    /\ quic \in {"none", "up", "dead"}
    /\ spoken \in BOOLEAN
    /\ held \in [Ends -> SUBSET Parts]
    /\ deferred \in [Ends -> SUBSET Parts]
    /\ finished \in [Ends -> SUBSET {"relay", "stream"}]
    /\ copies \in [Ends -> SUBSET {"in", "out"}]

ModeInit ==
    /\ tls \in SUBSET Ends
    /\ at = [e \in Ends |-> "idle"]
    /\ opened = FALSE
    /\ mode = "none"
    /\ notice = [e \in Ends |-> "none"]
    /\ waiter = {}
    /\ box = [e \in Ends |-> "none"]
    /\ dropped = {}
    /\ timedOut = {}
    /\ plane = {}
    /\ quic = "none"
    /\ spoken = FALSE
    /\ held = [e \in Ends |-> IF e = "consumer" THEN {"local"} ELSE {}]
    /\ deferred = held
    /\ finished = [e \in Ends |-> {}]
    /\ copies = [e \in Ends |-> {"in", "out"}]

-----------------------------------------------------------------------------
(* The goroutine of end e returns: it closes parts, then its deferred calls *)
(* run.  To close a stream ends its write side, to close a connection takes *)
(* it down for both ends.                                                   *)
Return(e, parts) ==
    LET closing == held[e] \cap (parts \cup deferred[e]) IN
    /\ at' = [at EXCEPT ![e] = "done"]
    /\ held' = [held EXCEPT ![e] = @ \ closing]
    /\ finished' = [finished EXCEPT ![e] = @ \cup (closing \cap {"relay", "stream"})]
    /\ quic' = IF "conn" \in closing THEN "dead" ELSE quic
    /\ UNCHANGED <<deferred, plane, spoken, copies>>

(* Run accepts the stream that carries INCOMING_STREAM.                     *)
IncomingStream ==
    /\ at["provider"] = "idle"
    /\ opened
    /\ at' = [at EXCEPT !["provider"] = "in"]
    /\ held' = [held EXCEPT !["provider"] = @ \cup {"relay"}]
    /\ UNCHANGED <<waiting, path, deferred, finished>>

(* A bad frame, no handler for the service, or no back end.                 *)
RejectStream ==
    /\ at["provider"] = "in"
    /\ Return("provider", {"relay"})
    /\ UNCHANGED waiting

(* Dial has no stream.                                                      *)
OpenFails ==
    /\ at["consumer"] = "idle"
    /\ Return("consumer", {})
    /\ UNCHANGED waiting

(* RegisterStreamModeWaiter: in Dial once it has a stream, in               *)
(* handleIncoming once the handler gave a back end.                         *)
RegisterStreamModeWaiter(e) ==
    /\ at[e] = IF e = "consumer" THEN "idle" ELSE "in"
    /\ at' = [at EXCEPT ![e] = "open"]
    /\ waiter' = waiter \cup {e}
    /\ box' = [box EXCEPT ![e] = "none"]
    /\ held' = [held EXCEPT ![e] = @ \cup {IF e = "consumer" THEN "relay" ELSE "local"}]
    /\ UNCHANGED <<tls, opened, mode, notice, dropped, timedOut, path, deferred, finished>>

(* OPEN_STREAM is written.                                                  *)
WriteOpenStream ==
    /\ at["consumer"] = "open"
    /\ at' = [at EXCEPT !["consumer"] = "wait"]
    /\ opened' = TRUE
    /\ deferred' = [deferred EXCEPT !["consumer"] = @ \cup {"relay"}]
    /\ UNCHANGED <<tls, mode, notice, waiter, box, dropped, timedOut, path, held, finished>>

(* STREAM_ACCEPT is written and the relay resolves the mode.                *)
SendStreamAccept(m) ==
    /\ at["provider"] = "open"
    /\ at' = [at EXCEPT !["provider"] = "wait"]
    /\ mode' = m
    /\ notice' = [e \in Ends |-> m]
    /\ deferred' = [deferred EXCEPT !["provider"] = @ \cup {"relay"}]
    /\ UNCHANGED <<tls, opened, waiter, box, dropped, timedOut, path, held, finished>>

(* The write fails, and the waiter is cancelled.                            *)
SendFails(e) ==
    /\ at[e] = "open"
    /\ waiter' = waiter \ {e}
    /\ Return(e, IF e = "consumer" THEN {"relay"} ELSE {"local", "relay"})
    /\ UNCHANGED <<tls, opened, mode, notice, box, dropped, timedOut>>

(* The control stream that carries the notice dies.  External.              *)
LoseNotice(e) ==
    /\ notice[e] # "none"
    /\ notice' = [notice EXCEPT ![e] = "none"]
    /\ UNCHANGED <<tls, at, opened, mode, waiter, box, dropped, timedOut,
                   path, holding>>

(* deliverMode, called by controlReader.                                    *)
DeliverMode(e) ==
    /\ notice[e] # "none"
    /\ notice' = [notice EXCEPT ![e] = "none"]
    /\ IF e \in waiter /\ box[e] = "none"
       THEN box' = [box EXCEPT ![e] = notice[e]] /\ UNCHANGED dropped
       ELSE dropped' = dropped \cup {e} /\ UNCHANGED box
    /\ UNCHANGED <<tls, at, opened, mode, waiter, timedOut, path, holding>>

(* A consumer that falls back to splice without TLS, as the provider does.  *)
WaitForStreamModeFallsBack(e) ==
    /\ at[e] = "wait"
    /\ box[e] # "none"
    /\ waiter' = waiter \ {e}
    /\ box' = [box EXCEPT ![e] = "none"]
    /\ at' = [at EXCEPT ![e] = IF box[e] = "forward" /\ e \in tls
                               THEN "udp" ELSE "splice"]
    /\ UNCHANGED <<tls, opened, mode, notice, dropped, timedOut, path, holding>>

(* WaitForStreamMode has its notice.  Without a TLS configuration the       *)
(* provider falls back to the relay-mediated stream and the consumer gives  *)
(* the stream up.                                                           *)
WaitForStreamMode(e) ==
    /\ at[e] = "wait"
    /\ box[e] # "none"
    /\ waiter' = waiter \ {e}
    /\ box' = [box EXCEPT ![e] = "none"]
    /\ IF box[e] = "forward" /\ e = "consumer" /\ e \notin tls
       THEN Return(e, {})
       ELSE /\ at' = [at EXCEPT ![e] = IF box[e] = "forward" /\ e \in tls
                                       THEN "udp" ELSE "splice"]
            /\ UNCHANGED <<path, holding>>
    /\ UNCHANGED <<tls, opened, mode, notice, dropped, timedOut>>

(* A wait without a timeout.                                                *)
WaitTimesOutNever(e) == FALSE

(* The 10 s of runConsumer or the 5 s of handleIncoming are over: splice.   *)
WaitTimesOut(e) ==
    /\ at[e] = "wait"
    /\ waiter' = waiter \ {e}
    /\ box' = [box EXCEPT ![e] = "none"]
    /\ timedOut' = timedOut \cup {e}
    /\ at' = [at EXCEPT ![e] = "splice"]
    /\ UNCHANGED <<tls, opened, mode, notice, dropped, path, holding>>

-----------------------------------------------------------------------------
(* DialForward and AcceptForward.                                           *)

(* forward.Dial binds a socket and sends one registration packet, which the *)
(* network may lose; quic.Transport sits on top of it.                      *)
ForwardDial(e) ==
    /\ at[e] = "udp"
    /\ at' = [at EXCEPT ![e] = IF e = "provider" THEN "listen" ELSE "conn"]
    /\ held' = [held EXCEPT ![e] = @ \cup {"udp", "transport"}]
    /\ plane' \in {plane, plane \cup {e}}
    /\ UNCHANGED <<waiting, quic, spoken, copies, deferred, finished>>

(* tr.Listen, before which the provider answers no handshake.               *)
ForwardListen ==
    /\ at["provider"] = "listen"
    /\ at' = [at EXCEPT !["provider"] = "conn"]
    /\ held' = [held EXCEPT !["provider"] = @ \cup {"listener"}]
    /\ UNCHANGED <<waiting, path, deferred, finished>>

(* The handshake, through the plane that knows both ends.                   *)
Handshake ==
    /\ at = [e \in Ends |-> "conn"]
    /\ plane = Ends
    /\ quic = "none"
    /\ quic' = "up"
    /\ at' = [at EXCEPT !["consumer"] = "stream"]
    /\ held' = [held EXCEPT !["consumer"] = @ \cup {"conn"}]
    /\ UNCHANGED <<waiting, plane, spoken, copies, deferred, finished>>

(* OpenStreamSync: a local matter, the peer hears of it with the first      *)
(* bytes.                                                                   *)
OpenForwardStream ==
    /\ at["consumer"] = "stream"
    /\ quic = "up"
    /\ at' = [at EXCEPT !["consumer"] = "forward"]
    /\ held' = [held EXCEPT !["consumer"] = @ \cup {"stream"}]
    /\ deferred' = [deferred EXCEPT !["consumer"] = @ \cup SessionParts]
    /\ UNCHANGED <<waiting, path, finished>>

(* A step of DialForward fails: a bad endpoint or no socket, no handshake   *)
(* in time, or a connection that dies before it has a stream.               *)
DialForwardFails ==
    /\ \/ at["consumer"] = "udp" /\ Return("consumer", {})
       \/ at["consumer"] = "conn" /\ Return("consumer", {"transport", "udp"})
       \/ /\ at["consumer"] = "stream" /\ quic = "dead"
          /\ Return("consumer", {"conn", "transport", "udp"})
    /\ UNCHANGED waiting

(* ln.Accept returns the connection, dead or alive.                         *)
AcceptForwardConn ==
    /\ at["provider"] = "conn"
    /\ quic # "none"
    /\ at' = [at EXCEPT !["provider"] = "stream"]
    /\ held' = [held EXCEPT !["provider"] = @ \cup {"conn"}]
    /\ UNCHANGED <<waiting, path, deferred, finished>>

(* qc.AcceptStream returns once the consumer has sent something, and        *)
(* AcceptForward's deferred call closes the listener.                       *)
AcceptForwardStream ==
    /\ at["provider"] = "stream"
    /\ quic = "up"
    /\ spoken
    /\ at' = [at EXCEPT !["provider"] = "forward"]
    /\ held' = [held EXCEPT !["provider"] = (@ \cup {"stream"}) \ {"listener"}]
    /\ deferred' = [deferred EXCEPT !["provider"] = @ \cup SessionParts]
    /\ UNCHANGED <<waiting, path, finished>>

(* Variants: the connection's path forgets the socket, and a failed         *)
(* AcceptStream is not noticed.                                             *)
AcceptForwardFailsLeaks ==
    /\ \/ at["provider"] = "udp" /\ Return("provider", {"local"})
       \/ at["provider"] = "listen" /\ Return("provider", {"transport", "udp", "local"})
       \/ at["provider"] = "conn" /\ Return("provider", {"transport", "udp", "listener", "local"})
       \/ /\ at["provider"] = "stream" /\ quic = "dead"
          /\ Return("provider", {"conn", "transport", "listener", "local"})
    /\ UNCHANGED waiting

AcceptForwardFailsEarly ==
    /\ \/ at["provider"] = "udp" /\ Return("provider", {"local"})
       \/ at["provider"] = "listen" /\ Return("provider", {"transport", "udp", "local"})
       \/ at["provider"] = "conn" /\ Return("provider", {"transport", "udp", "listener", "local"})
    /\ UNCHANGED waiting

(* A step of AcceptForward fails: a bad endpoint or no socket, no listener, *)
(* a listener that breaks, or a connection that dies before it has a        *)
(* stream.  handleIncoming then closes the back end.                        *)
AcceptForwardFails ==
    /\ \/ at["provider"] = "udp" /\ Return("provider", {"local"})
       \/ at["provider"] = "listen" /\ Return("provider", {"transport", "udp", "local"})
       \/ at["provider"] = "conn" /\ Return("provider", {"transport", "udp", "listener", "local"})
       \/ /\ at["provider"] = "stream" /\ quic = "dead"
          /\ Return("provider", {"conn", "transport", "udp", "listener", "local"})
    /\ UNCHANGED waiting

(* The connection breaks or idles out.  External.                           *)
QuicDies ==
    /\ quic = "up"
    /\ quic' = "dead"
    /\ UNCHANGED <<waiting, at, plane, spoken, copies, holding>>

-----------------------------------------------------------------------------
(* The bridge of an end, between its local connection and the path it took. *)

Bridging(e) == at[e] \in {"splice", "forward"}

PathOf(e) == IF at[e] = "splice" THEN "relay" ELSE "stream"

(* The consumer's application sends its first bytes.  External.             *)
Speak ==
    /\ at["consumer"] = "forward" /\ "out" \in copies["consumer"]
    /\ ~spoken
    /\ spoken' = TRUE
    /\ UNCHANGED <<waiting, at, plane, quic, copies, holding>>

(* The copy from the path to the local connection ends, with end of file or *)
(* an error of either, and half-closes the local connection.                *)
CopyInEnds(e) ==
    /\ Bridging(e) /\ "in" \in copies[e]
    /\ copies' = [copies EXCEPT ![e] = @ \ {"in"}]
    /\ UNCHANGED <<waiting, at, plane, quic, spoken, holding>>

(* The copy from the local connection to the path ends and half-closes the  *)
(* path, which is something the peer hears.                                 *)
CopyOutEnds(e) ==
    /\ Bridging(e) /\ "out" \in copies[e]
    /\ copies' = [copies EXCEPT ![e] = @ \ {"out"}]
    /\ finished' = [finished EXCEPT ![e] = @ \cup {PathOf(e)}]
    /\ spoken' = (spoken \/ (e = "consumer" /\ at[e] = "forward"))
    /\ UNCHANGED <<waiting, at, plane, quic, held, deferred>>

(* Both copies have ended: the bridge closes its connections and the        *)
(* goroutine returns.                                                       *)
BridgeReturns(e) ==
    /\ Bridging(e) /\ copies[e] = {}
    /\ Return(e, {"local", PathOf(e)})
    /\ UNCHANGED waiting

-----------------------------------------------------------------------------
ModeNext ==
    \/ \E e \in Ends :
        \/ RegisterStreamModeWaiter(e)
        \/ SendFails(e)
        \/ LoseNotice(e)
        \/ DeliverMode(e)
        \/ WaitForStreamMode(e)
        \/ WaitTimesOut(e)
        \/ ForwardDial(e)
        \/ CopyInEnds(e)
        \/ CopyOutEnds(e)
        \/ BridgeReturns(e)
    \/ OpenFails
    \/ IncomingStream
    \/ RejectStream
    \/ WriteOpenStream
    \/ \E m \in {"splice", "forward"} : SendStreamAccept(m)
    \/ ForwardListen
    \/ Handshake
    \/ OpenForwardStream
    \/ DialForwardFails
    \/ AcceptForwardConn
    \/ AcceptForwardStream
    \/ AcceptForwardFails
    \/ Speak
    \/ QuicDies

(* What e's bridge reads from the path has ended.                           *)
PathEnded(e) ==
    \/ PathOf(e) \in finished[Other(e)]
    \/ at[e] = "forward" /\ quic = "dead"

(* Goroutines run, timeouts fire, and a Read from a path that has ended     *)
(* returns.  The relay need not send notices, a listener need not break,    *)
(* and the applications need not speak or finish, so the other copy of a    *)
(* bridge need not end.                                                     *)
ModeFairness ==
    /\ \A e \in Ends :
        /\ WF_modeVars(WaitForStreamMode(e) \/ WaitTimesOut(e))
        /\ WF_modeVars(ForwardDial(e))
        /\ WF_modeVars(PathEnded(e) /\ CopyInEnds(e))
        /\ WF_modeVars(BridgeReturns(e))
    /\ WF_modeVars(OpenForwardStream \/ DialForwardFails)
    /\ WF_modeVars(ForwardListen)
    /\ WF_modeVars(quic = "up" /\ AcceptForwardConn)
    /\ WF_modeVars(AcceptForwardStream)
    /\ WF_modeVars(at["provider"] # "conn" /\ AcceptForwardFails)

ModeSpec == ModeInit /\ [][ModeNext]_modeVars

FairModeSpec == ModeSpec /\ ModeFairness

-----------------------------------------------------------------------------
(* Properties.                                                              *)

ForwardPath == {"udp", "listen", "conn", "stream", "forward"}

(* Whichever step fails, and whether a return closes a thing itself or      *)
(* leaves it to a deferred call, nothing stays behind: no socket,           *)
(* transport, listener, connection or stream of the forward path, not the   *)
(* relay-mediated stream, not the local connection or back end, and no      *)
(* entry in pendingMode.                                                    *)
DoneReleasesAll ==
    \A e \in Ends : at[e] = "done" => held[e] = {} /\ e \notin waiter

(* The two ends put the stream on the same path, unless one of them timed   *)
(* out or the provider cannot do forward mode.  Registering before the      *)
(* frame that makes the relay answer is enough for that: a notice that      *)
(* controlReader delivers finds its waiter, unless that end's wait has      *)
(* timed out.                                                               *)
SamePath ==
    /\ dropped \subseteq timedOut
    /\ at["consumer"] = "splice" /\ at["provider"] \in ForwardPath
        => "consumer" \in timedOut
    /\ at["provider"] = "splice" /\ at["consumer"] \in ForwardPath
        => "provider" \in timedOut \/ "provider" \notin tls

(* The consumer's connection is never left hanging: Dial, the wait for the  *)
(* mode and DialForward end with a path or a teardown.                      *)
ConsumerDecides ==
    at["consumer"] = "wait" ~> at["consumer"] \in {"splice", "forward", "done"}

(* What the consumer sends on the forward path has a reader: the provider   *)
(* accepts the stream, or the connection is taken down.  And when the       *)
(* consumer is gone, a provider that got as far as a connection takes its   *)
(* end down or tells its back end: the one thing it may still wait for is   *)
(* that the back end finishes, as bridge waits for both copies.             *)
ForwardEnds ==
    /\ spoken /\ at["provider"] = "stream" ~> at["provider"] \in {"forward", "done"}
    /\ at["consumer"] = "done" /\ at["provider"] \in {"stream", "forward"}
        ~> \/ at["provider"] = "done"
           \/ at["provider"] = "forward" /\ copies["provider"] = {"out"}

-----------------------------------------------------------------------------
(* A claim of a comment that the code does not keep.                        *)

(* handleIncoming's comment: in forward mode the relay-mediated stream is a *)
(* liveness signal.  When the consumer has closed it the provider's end     *)
(* comes down too.                                                          *)
LivenessSignal ==
    "relay" \in finished["consumer"] /\ at["provider"] \in ForwardPath
        ~> at["provider"] = "done"
=============================================================================
