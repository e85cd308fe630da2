-------------------------- MODULE ResumeRendezvous --------------------------
(***************************************************************************)
(* The Resume loops of several agents after the relay they shared has been *)
(* replaced (Reconnect and Resume in pkg/session/session.go).  Each agent  *)
(* comes back in its own time, takes the streams that are in its map and   *)
(* resumes them one after the other, in the order of a Go map; a Resume    *)
(* blocks until the relay has paired it with the STREAM_RESUME of the      *)
(* stream's other end, or until the relay's window has passed.  Bytes are  *)
(* left out (StreamResume), and so are wrappers (StreamTable).             *)
(*                                                                         *)
(* Time is counted in ticks and passes only when no agent and no pairing   *)
(* can move, so a window that runs out is never an artefact of a step that *)
(* was merely slow.                                                        *)
(***************************************************************************)
EXTENDS Naturals, FiniteSets

CONSTANTS
    Agents,
    Streams,    \* stream ids
    Ends,       \* the two agents that have a stream in their map
    NoStream,
    Window,     \* edge.ResumeWindow of the relay, in ticks
    MaxDelay    \* bound: ticks until every agent that returns has returned

(* Every stream has two ends, and whoever returns does so while the relay   *)
(* still waits for its half.                                                *)
Setting ==
    /\ NoStream \notin Streams
    /\ Ends \in [Streams -> {E \in SUBSET Agents : Cardinality(E) = 2}]
    /\ Window \in Nat
    /\ MaxDelay \in 0..(Window - 1)

ASSUME SettingAssumption == Setting

VARIABLES
    at,         \* where RunWithReconnect of each agent is
    held,       \* the stream ids in each agent's map
    pending,    \* the ids ActiveStreams returned and Resume has not handled
    cur,        \* the stream the agent is resuming
    paired,     \* streams whose halves the relay has matched
    waited,     \* ticks the agent's STREAM_RESUME has been at the relay
    now,        \* ticks since the old relay died, up to MaxDelay
    resumed,    \* <<agent, stream>> whose wrapper has its new inner stream
    dropped     \* <<agent, stream>> that the loop has forgotten

loopVars == <<at, held, pending, cur, paired, waited, now, resumed, dropped>>

Held(a) == {s \in Streams : a \in Ends[s]}

(* One type invariant.                                                      *)
LoopsTypeOK ==
    /\ at \in [Agents -> {"kept", "lost", "gone", "dialed", "loop", "run"}]
    /\ held \in [Agents -> SUBSET Streams]
    /\ pending \in [Agents -> SUBSET Streams]
    /\ cur \in [Agents -> Streams \cup {NoStream}]
    /\ paired \subseteq Streams
    /\ waited \in [Agents -> 0..Window]
    /\ now \in 0..MaxDelay
    /\ resumed \subseteq Agents \X Streams
    /\ dropped \subseteq Agents \X Streams

(* Streams that were all in use have just lost their relay, or only some    *)
(* agents their path to it: an agent that kept its connection stays in Run. *)
LoopsInit ==
    /\ at \in [Agents -> {"kept", "lost"}]
    /\ held = [a \in Agents |-> Held(a)]
    /\ pending = [a \in Agents |-> {}]
    /\ cur = [a \in Agents |-> NoStream]
    /\ paired = {}
    /\ waited = [a \in Agents |-> 0]
    /\ now = 0
    /\ resumed = {}
    /\ dropped = {}

-----------------------------------------------------------------------------
(* The agent's host dies while it is cut off.  External.                    *)
Go(a) ==
    /\ at[a] = "lost"
    /\ at' = [at EXCEPT ![a] = "gone"]
    /\ UNCHANGED <<held, pending, cur, paired, waited, now, resumed, dropped>>

(* Reconnect has dialed the surviving relay and its REGISTERs are           *)
(* acknowledged.                                                            *)
Redial(a) ==
    /\ at[a] = "lost"
    /\ at' = [at EXCEPT ![a] = "dialed"]
    /\ UNCHANGED <<held, pending, cur, paired, waited, now, resumed, dropped>>

(* The application ends a stream before Reconnect has looked at the map:    *)
(* Close calls forgetStream.                                                *)
Close(a, s) ==
    /\ at[a] \in {"lost", "dialed"}
    /\ s \in held[a]
    /\ held' = [held EXCEPT ![a] = @ \ {s}]
    /\ UNCHANGED <<at, pending, cur, paired, waited, now, resumed, dropped>>

ActiveStreams(a) ==
    /\ at[a] = "dialed"
    /\ pending' = [pending EXCEPT ![a] = held[a]]
    /\ at' = [at EXCEPT ![a] = "loop"]
    /\ UNCHANGED <<held, cur, paired, waited, now, resumed, dropped>>

(* The next iteration of the loop: Resume opens a stream and writes         *)
(* STREAM_RESUME.  ActiveStreams listed the map in Go's order: any.         *)
SendResume(a, s) ==
    /\ at[a] = "loop"
    /\ cur[a] = NoStream
    /\ s \in pending[a]
    /\ pending' = [pending EXCEPT ![a] = @ \ {s}]
    /\ cur' = [cur EXCEPT ![a] = s]
    /\ waited' = [waited EXCEPT ![a] = 0]
    /\ UNCHANGED <<at, held, paired, now, resumed, dropped>>

(* The relay's matcher has the STREAM_RESUME of both ends and echoes each   *)
(* to the other.  External.                                                 *)
Pair(s) ==
    /\ Cardinality({a \in Agents : cur[a] = s}) = 2
    /\ s \notin paired
    /\ paired' = paired \cup {s}
    /\ UNCHANGED <<at, held, pending, cur, waited, now, resumed, dropped>>

(* completeResume has the echo, the gap is retransmitted, SwapInner.        *)
SwapInner(a) ==
    /\ cur[a] \in paired
    /\ resumed' = resumed \cup {<<a, cur[a]>>}
    /\ cur' = [cur EXCEPT ![a] = NoStream]
    /\ UNCHANGED <<at, held, pending, paired, waited, now, dropped>>

(* A relay that holds a lone STREAM_RESUME for ever.                        *)
ResumeExpiredNever(a) ==
    /\ FALSE
    /\ UNCHANGED loopVars

(* A window too short for an agent that notices the loss late.              *)
ResumeExpiredEarly(a) ==
    /\ cur[a] # NoStream
    /\ cur[a] \notin paired
    /\ waited[a] > 0
    /\ dropped' = dropped \cup {<<a, cur[a]>>}
    /\ held' = [held EXCEPT ![a] = @ \ {cur[a]}]
    /\ cur' = [cur EXCEPT ![a] = NoStream]
    /\ UNCHANGED <<at, pending, paired, waited, now, resumed>>

(* The relay gives up on the half, the ParseFrame of completeResume fails,  *)
(* Reconnect forgets the stream and goes on with the next.                  *)
ResumeExpired(a) ==
    /\ cur[a] # NoStream
    /\ cur[a] \notin paired
    /\ waited[a] = Window
    /\ dropped' = dropped \cup {<<a, cur[a]>>}
    /\ held' = [held EXCEPT ![a] = @ \ {cur[a]}]
    /\ cur' = [cur EXCEPT ![a] = NoStream]
    /\ UNCHANGED <<at, pending, paired, waited, now, resumed>>

BackToRun(a) ==
    /\ at[a] = "loop"
    /\ pending[a] = {}
    /\ cur[a] = NoStream
    /\ at' = [at EXCEPT ![a] = "run"]
    /\ UNCHANGED <<held, pending, cur, paired, waited, now, resumed, dropped>>

-----------------------------------------------------------------------------
Waiting(a) == cur[a] # NoStream /\ cur[a] \notin paired

(* Nothing can move but the clock: every agent that is back waits for an    *)
(* echo or is done, no two halves can be paired, no window has run out, and *)
(* an agent that has not returned is still within its delay.                *)
Quiet ==
    /\ \A a \in Agents :
        \/ at[a] \in {"kept", "run", "gone"}
        \/ at[a] = "lost" /\ now < MaxDelay
        \/ at[a] = "loop" /\ Waiting(a) /\ waited[a] < Window
    /\ \A a, b \in Agents : a # b /\ Waiting(a) => cur[a] # cur[b]

(* One unit of time.  External: the clock.                                  *)
Tick ==
    /\ Quiet
    /\ \E a \in Agents : at[a] \in {"lost", "loop"}
    /\ now' = IF now < MaxDelay THEN now + 1 ELSE now
    /\ waited' = [a \in Agents |-> waited[a] + IF Waiting(a) THEN 1 ELSE 0]
    /\ UNCHANGED <<at, held, pending, cur, paired, resumed, dropped>>

AgentStep(a) ==
    \/ Redial(a)
    \/ ActiveStreams(a)
    \/ \E s \in Streams : SendResume(a, s)
    \/ SwapInner(a)
    \/ ResumeExpired(a)
    \/ BackToRun(a)

LoopsNext ==
    \/ \E a \in Agents :
        \/ AgentStep(a)
        \/ Go(a)
        \/ \E s \in Streams : Close(a, s)
    \/ \E s \in Streams : Pair(s)
    \/ Tick

(* A goroutine that can run does, the relay answers, and time passes.       *)
LoopsFairness ==
    /\ \A a \in Agents : WF_loopVars(AgentStep(a))
    /\ \A s \in Streams : WF_loopVars(Pair(s))
    /\ WF_loopVars(Tick)

LoopsSpec == LoopsInit /\ [][LoopsNext]_loopVars

FairLoopsSpec == LoopsSpec /\ LoopsFairness

-----------------------------------------------------------------------------
(* Properties.                                                              *)

(* Both ends of s replay it, or will: neither kept its connection, died, or *)
(* had the stream closed by the application.                                *)
Replayed(s) ==
    \A a \in Ends[s] :
        /\ at[a] \notin {"kept", "gone"}
        /\ s \in held[a] \/ <<a, s>> \in dropped

(* The relay's window outlasts the slowest return, so that a stream which   *)
(* both ends replay is dropped only behind another stream: when the window  *)
(* of one end runs out, the other end is back and in its Resume loop, still *)
(* has the stream to resume, and has taken another of its streams first; or *)
(* it has dropped the stream already.                                       *)
DropsBehindAnother ==
    [][\A a \in Agents, s \in Streams :
         <<a, s>> \in dropped' \ dropped /\ Replayed(s) =>
           \A b \in Ends[s] \ {a} :
             \/ <<b, s>> \in dropped
             \/ /\ at[b] = "loop"
                /\ s \in pending[b] \/ cur[b] = s
                /\ \E t \in Held(b) \ ({s} \cup pending[b]) :
                     t \in held[b] \/ <<b, t>> \in dropped]_loopVars

(* The Resume loop is left: an agent that has dialed the new relay gets     *)
(* back to Run, where it accepts streams, whatever the other agents do.     *)
ReconnectReturns == \A a \in Agents : at[a] = "dialed" ~> at[a] = "run"

(* Reconnect's comment: when one stream cannot be resumed, the other        *)
(* streams keep going.  A stream that both of its ends hold and replay is   *)
(* not dropped.                                                             *)
OtherStreamsKeepGoing ==
    \A s \in Streams, a \in Agents : Replayed(s) => <<a, s>> \notin dropped
=============================================================================
