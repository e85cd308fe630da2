------------------------------- MODULE Bridge -------------------------------
(***************************************************************************)
(* The bridges at the two ends of a stream: runConsumer's between the      *)
(* intercepted connection and the stream (cmd/outrelay-agent/main.go), and *)
(* handleIncoming's between the stream and the backend                     *)
(* (pkg/session/session.go).  Each runs two copy loops, half-closes the    *)
(* destination of a loop that ends, and closes both connections when both  *)
(* loops have ended.  Between the bridges the stream is reliable until one *)
(* of its wrappers gives up; StreamResume is about when that is.           *)
(***************************************************************************)
EXTENDS ByteRanges, FiniteSets

CONSTANTS MaxBytes,  \* bound: MaxBytes[b] bytes are written by application b
          Window,    \* bytes the stream takes while nobody reads them
          MaxFaults  \* bound: applications and streams that fail

ASSUME MaxBytesAssumption == MaxBytes \in [Ends -> Nat]
ASSUME WindowAssumption == Window \in Nat \ {0}
ASSUME MaxFaultsAssumption == MaxFaults \in Nat

VARIABLES
  out,      \* out[b]: bytes the application at end b has written
  in,       \* in[b]: the bytes it has read
  fin,      \* fin[b]: it has closed its write side
  eof,      \* eof[b]: it has read end of file
  toAgent,  \* toAgent[b]: bytes on b's local connection, to the agent
  net,      \* net[b]: bytes on the stream from b's agent to the other
  netFin,   \* netFin[b]: a FIN follows them
  toApp,    \* toApp[b]: bytes on b's local connection, to the application
  toAppFin, \* toAppFin[b]: a FIN follows them
  buf,      \* buf[b][c]: what loop c of bridge b has read and not written
  running,  \* running[b]: the loops of bridge b that have not ended
  lost,     \* lost[b]: the connections of bridge b that return errors
  closed    \* bridges that have closed both connections and returned

apps == <<out, in, fin, eof>>
links == <<toAgent, net, netFin, toApp, toAppFin>>
vars == <<apps, links, buf, running, lost, closed>>

(* "out" copies from the application to the stream, "in" the other way. *)
Loops == {"out", "in"}
Source(c) == IF c = "out" THEN "app" ELSE "stream"
Target(c) == IF c = "out" THEN "stream" ELSE "app"

Init ==
  /\ out = [b \in Ends |-> 0]
  /\ in = [b \in Ends |-> <<>>]
  /\ fin = [b \in Ends |-> FALSE]
  /\ eof = [b \in Ends |-> FALSE]
  /\ toAgent = [b \in Ends |-> <<>>]
  /\ net = [b \in Ends |-> <<>>]
  /\ netFin = [b \in Ends |-> FALSE]
  /\ toApp = [b \in Ends |-> <<>>]
  /\ toAppFin = [b \in Ends |-> FALSE]
  /\ buf = [b \in Ends |-> [c \in Loops |-> <<>>]]
  /\ running = [b \in Ends |-> Loops]
  /\ lost = [b \in Ends |-> {}]
  /\ closed = {}

--------------------------------------------------------------------------------
(* The applications, and what may break.  External. *)

AppWrite(b) ==
  /\ ~fin[b] /\ out[b] < MaxBytes[b]
  /\ "app" \notin lost[b] /\ b \notin closed
  /\ out' = [out EXCEPT ![b] = @ + 1]
  /\ toAgent' = [toAgent EXCEPT ![b] = Append(@, out[b] + 1)]
  /\ UNCHANGED <<in, fin, eof, net, netFin, toApp, toAppFin, buf, running, lost, closed>>

AppCloseWrite(b) ==
  /\ ~fin[b] /\ "app" \notin lost[b]
  /\ fin' = [fin EXCEPT ![b] = TRUE]
  /\ UNCHANGED <<out, in, eof, links, buf, running, lost, closed>>

AppRead(b) ==
  /\ toApp[b] # <<>> /\ "app" \notin lost[b]
  /\ in' = [in EXCEPT ![b] = @ \o toApp[b]]
  /\ toApp' = [toApp EXCEPT ![b] = <<>>]
  /\ UNCHANGED <<out, fin, eof, toAgent, net, netFin, toAppFin, buf, running, lost, closed>>

AppReadEOF(b) ==
  /\ toApp[b] = <<>> /\ toAppFin[b] /\ ~eof[b] /\ "app" \notin lost[b]
  /\ eof' = [eof EXCEPT ![b] = TRUE]
  /\ UNCHANGED <<out, in, fin, links, buf, running, lost, closed>>

(* The bound counts a stream once, however many ends have lost it. *)
MayFail ==
  Cardinality({b \in Ends : "app" \in lost[b]})
    + Cardinality({c \in {"stream"} : \E b \in Ends : c \in lost[b]}) < MaxFaults

(* The application dies or resets its connection, and what the connection   *)
(* held is gone.                                                            *)
AppLost(b) ==
  /\ "app" \notin lost[b] /\ b \notin closed /\ MayFail
  /\ lost' = [lost EXCEPT ![b] = @ \cup {"app"}]
  /\ toAgent' = [toAgent EXCEPT ![b] = <<>>]
  /\ toApp' = [toApp EXCEPT ![b] = <<>>]
  /\ UNCHANGED <<apps, net, netFin, toAppFin, buf, running, closed>>

(* A stream that one wrapper has given up is, after its own retry window,   *)
(* given up by the other: nothing arrives on it any more.                   *)
GivenUp(b) == "stream" \in lost[Peer(b)]

(* The wrapper of end b is abandoned or its retry window has passed.  What  *)
(* was under way may be gone, and where the new relay had already joined    *)
(* the two ends the peer reads the FIN of the failed Resume's st.Close.     *)
StreamLost(b) ==
  /\ "stream" \notin lost[b] /\ b \notin closed /\ (GivenUp(b) \/ MayFail)
  /\ lost' = [lost EXCEPT ![b] = @ \cup {"stream"}]
  /\ \/ UNCHANGED <<net, netFin>>
     \/ /\ net' = [net EXCEPT ![b] = <<>>]
        /\ netFin' = [netFin EXCEPT ![b] = TRUE]
  /\ UNCHANGED <<apps, toAgent, toApp, toAppFin, buf, running, closed>>

--------------------------------------------------------------------------------
(* The copy loops: io.Copy with halfCloseWrite, and copyAndDone *)

Working(b, c) == c \in running[b] /\ b \notin closed

(* src.Read returns the bytes it has. *)
CopyRead(b, c) ==
  /\ Working(b, c) /\ buf[b][c] = <<>> /\ Source(c) \notin lost[b]
  /\ IF c = "out"
     THEN /\ toAgent[b] # <<>>
          /\ buf' = [buf EXCEPT ![b][c] = toAgent[b]]
          /\ toAgent' = [toAgent EXCEPT ![b] = <<>>]
          /\ UNCHANGED net
     ELSE /\ net[Peer(b)] # <<>>
          /\ buf' = [buf EXCEPT ![b][c] = net[Peer(b)]]
          /\ net' = [net EXCEPT ![Peer(b)] = <<>>]
          /\ UNCHANGED toAgent
  /\ UNCHANGED <<apps, netFin, toApp, toAppFin, running, lost, closed>>

(* Variant: what does not fit into the stream at once is dropped. *)
CopyWriteShort(b, c) ==
  /\ Working(b, c) /\ buf[b][c] # <<>> /\ Target(c) \notin lost[b]
  /\ IF c = "out"
     THEN /\ Len(net[b]) < Window
          /\ net' = [net EXCEPT ![b] = Append(@, Head(buf[b][c]))]
          /\ buf' = [buf EXCEPT ![b][c] = <<>>]
          /\ UNCHANGED toApp
     ELSE /\ toApp' = [toApp EXCEPT ![b] = @ \o buf[b][c]]
          /\ buf' = [buf EXCEPT ![b][c] = <<>>]
          /\ UNCHANGED net
  /\ UNCHANGED <<apps, toAgent, netFin, toAppFin, running, lost, closed>>

(* dst.Write: the stream takes a byte at a time, while its window has room; *)
(* a local connection is taken to have room for all.                        *)
CopyWrite(b, c) ==
  /\ Working(b, c) /\ buf[b][c] # <<>> /\ Target(c) \notin lost[b]
  /\ IF c = "out"
     THEN /\ Len(net[b]) < Window
          /\ net' = [net EXCEPT ![b] = Append(@, Head(buf[b][c]))]
          /\ buf' = [buf EXCEPT ![b][c] = Tail(@)]
          /\ UNCHANGED toApp
     ELSE /\ toApp' = [toApp EXCEPT ![b] = @ \o buf[b][c]]
          /\ buf' = [buf EXCEPT ![b][c] = <<>>]
          /\ UNCHANGED net
  /\ UNCHANGED <<apps, toAgent, netFin, toAppFin, running, lost, closed>>

(* A loop ends and half-closes its target, if that still works. *)
EndLoop(b, c) ==
  /\ running' = [running EXCEPT ![b] = @ \ {c}]
  /\ IF c = "out"
     THEN /\ netFin' = [netFin EXCEPT ![b] = @ \/ "stream" \notin lost[b]]
          /\ UNCHANGED toAppFin
     ELSE /\ toAppFin' = [toAppFin EXCEPT ![b] = @ \/ "app" \notin lost[b]]
          /\ UNCHANGED netFin

(* Variant: EOF ends the loop and is not passed on. *)
CopyEOFKept(b, c) ==
  /\ Working(b, c) /\ buf[b][c] = <<>> /\ Source(c) \notin lost[b]
  /\ IF c = "out" THEN toAgent[b] = <<>> /\ fin[b]
                  ELSE net[Peer(b)] = <<>> /\ netFin[Peer(b)]
  /\ running' = [running EXCEPT ![b] = @ \ {c}]
  /\ UNCHANGED <<apps, links, buf, lost, closed>>

(* src.Read returns EOF. *)
CopyEOF(b, c) ==
  /\ Working(b, c) /\ buf[b][c] = <<>> /\ Source(c) \notin lost[b]
  /\ IF c = "out" THEN toAgent[b] = <<>> /\ fin[b]
                  ELSE net[Peer(b)] = <<>> /\ netFin[Peer(b)]
  /\ EndLoop(b, c)
  /\ UNCHANGED <<apps, toAgent, net, toApp, buf, lost, closed>>

(* Variant: an error that is not EOF ends the loop without a half-close. *)
CopyReadFailsSilently(b, c) ==
  /\ Working(b, c) /\ buf[b][c] = <<>> /\ Source(c) \in lost[b]
  /\ running' = [running EXCEPT ![b] = @ \ {c}]
  /\ UNCHANGED <<apps, links, buf, lost, closed>>

(* src.Read fails; both versions half-close the target as if it were EOF.   *)
CopyReadFails(b, c) ==
  /\ Working(b, c) /\ buf[b][c] = <<>> /\ Source(c) \in lost[b]
  /\ EndLoop(b, c)
  /\ UNCHANGED <<apps, toAgent, net, toApp, buf, lost, closed>>

(* dst.Write fails.  main's loop half-closes the broken target, session's   *)
(* does not; neither has an effect on it.                                   *)
CopyWriteFails(b, c) ==
  /\ Working(b, c) /\ buf[b][c] # <<>> /\ Target(c) \in lost[b]
  /\ running' = [running EXCEPT ![b] = @ \ {c}]
  /\ buf' = [buf EXCEPT ![b][c] = <<>>]
  /\ UNCHANGED <<apps, links, lost, closed>>

(* Variant: the bridge does not wait for the second loop. *)
BridgeReturnsEarly(b) ==
  /\ b \notin closed /\ running[b] # Loops
  /\ closed' = closed \cup {b}
  /\ netFin' = [netFin EXCEPT ![b] = @ \/ "stream" \notin lost[b]]
  /\ toAppFin' = [toAppFin EXCEPT ![b] = @ \/ "app" \notin lost[b]]
  /\ UNCHANGED <<apps, toAgent, net, toApp, buf, running, lost>>

(* <-done twice, then Close of both.  Close of a stream ends its write side *)
(* and does not stop the peer from sending.                                 *)
BridgeReturns(b) ==
  /\ b \notin closed /\ running[b] = {}
  /\ closed' = closed \cup {b}
  /\ netFin' = [netFin EXCEPT ![b] = @ \/ "stream" \notin lost[b]]
  /\ toAppFin' = [toAppFin EXCEPT ![b] = @ \/ "app" \notin lost[b]]
  /\ UNCHANGED <<apps, toAgent, net, toApp, buf, running, lost>>

CopyStep(b, c) ==
  \/ CopyRead(b, c) \/ CopyWrite(b, c) \/ CopyEOF(b, c)
  \/ CopyReadFails(b, c) \/ CopyWriteFails(b, c)

Next ==
  \E b \in Ends :
    \/ AppWrite(b) \/ AppCloseWrite(b) \/ AppRead(b) \/ AppReadEOF(b)
    \/ AppLost(b) \/ StreamLost(b) \/ BridgeReturns(b)
    \/ \E c \in Loops : CopyStep(b, c)

(* Goroutines run and applications read.  Nothing makes them write, close   *)
(* or die.  No behaviour changes the state infinitely often, so fairness of *)
(* the steps together is fairness of each.                                  *)
Fairness ==
  WF_vars(\E b \in Ends :
            \/ \E c \in Loops : CopyStep(b, c)
            \/ BridgeReturns(b) \/ AppRead(b) \/ AppReadEOF(b)
            \/ (GivenUp(b) /\ StreamLost(b)))

Spec == Init /\ [][Next]_vars
FairSpec == Spec /\ Fairness

--------------------------------------------------------------------------------
(* Properties *)

TypeOK ==
  /\ out \in [Ends -> Nat]
  /\ fin \in [Ends -> BOOLEAN]
  /\ eof \in [Ends -> BOOLEAN]
  /\ netFin \in [Ends -> BOOLEAN]
  /\ toAppFin \in [Ends -> BOOLEAN]
  /\ in \in [Ends -> Seq(Nat)]
  /\ toAgent \in [Ends -> Seq(Nat)]
  /\ net \in [Ends -> Seq(Nat)]
  /\ toApp \in [Ends -> Seq(Nat)]
  /\ buf \in [Ends -> [Loops -> Seq(Nat)]]
  /\ running \in [Ends -> SUBSET Loops]
  /\ lost \in [Ends -> SUBSET {"app", "stream"}]
  /\ closed \subseteq Ends

Broken == \E b \in Ends : lost[b] # {}

Pipe == INSTANCE BytePipe WITH cut <- [b \in Ends |-> FALSE], torn <- Broken

(* A failed connection truncates what an application reads and never mixes  *)
(* it up: it has read the first bytes the other one wrote, each once.       *)
FailureTruncates ==
  \A b \in Ends : /\ Len(in[b]) <= out[Peer(b)]
                  /\ in[b] = Bytes(0, Len(in[b]))

(* The four copy loops, the two local connections and the stream between    *)
(* them are one pipe from application to application: every byte once, in   *)
(* order, and EOF only behind the last one, as long as no connection fails. *)
(* A failure truncates what is read.                                        *)
EndToEndPipe == Pipe!Spec /\ []FailureTruncates

(* The comment on both bridges: a half-close lets the round trip finish     *)
(* before either side is torn down.  A bridge that has closed its           *)
(* connections has, unless one of them failed, brought its application all  *)
(* that the other one wrote, and taken all that its own one wrote.          *)
RoundTripFirst ==
  \A b \in closed : ~Broken =>
    /\ fin[b] /\ fin[Peer(b)]
    /\ Len(in[b]) + Len(toApp[b]) = out[Peer(b)]
    /\ toAgent[b] = <<>>

(* The death of one application reaches the other as end of file, unless    *)
(* the other one or the stream is gone as well.                             *)
HangUpReachesPeer ==
  \A b \in Ends :
    "app" \in lost[b] ~> \/ eof[Peer(b)] \/ lost[Peer(b)] # {}
                        \/ "stream" \in lost[b]

(* A loop that has bytes for a stream nobody reads any more. *)
Stuck(b) == buf[b]["out"] # <<>> /\ Peer(b) \in closed

(* When both applications have finished or died, both bridges return,       *)
(* unless one returned early and left the other writing to a full window.   *)
BridgesReturn ==
  (\A b \in Ends : fin[b] \/ "app" \in lost[b])
    ~> \A b \in Ends : b \in closed \/ Stuck(b)

--------------------------------------------------------------------------------
(* Claims of comments that the code does not keep *)

(* copyAndDone's comment: on EOF it half-closes the target, so that the     *)
(* peer sees end of stream.  It does so on every error, and a broken stream *)
(* looks finished.                                                          *)
EOFMeansFinished == \A b \in Ends : eof[b] => fin[Peer(b)]

(* The comment on abandoned: bridges exit cleanly.  Close does not cancel   *)
(* the read side, so the peer's Write blocks when the window is full.       *)
BridgesExit ==
  (\A b \in Ends : fin[b] \/ "app" \in lost[b]) ~> closed = Ends

================================================================================
