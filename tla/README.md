# A TLA+ model of outrelay-agent

outrelay-agent runs beside a workload. It keeps a QUIC session to a relay,
offers local services through it, opens streams to remote ones, and keeps those
streams alive when the relay is replaced. This directory holds TLA+ models of
the agent, the TLC configurations that check them, and proofs for TLAPS.
`PROJECT.json` has the definition-by-definition map to the source, the list of
runs, the hazards and the findings.

## The system

| part | source | modules | state |
|---|---|---|---|
| stream wrapper: Read/Write park and wake | `pkg/session/session.go` | `ResumableStream` | modelled, proved |
| byte counters, ring, STREAM_RESUME | `session.go`, `checkpoints.go` | `StreamResume`, abstract `BytePipe` | modelled, proved |
| stream registry `s.streams` | `session.go` | `StreamTable` | modelled, proved |
| Resume loops of several agents | `session.go` | `ResumeRendezvous` | modelled, proved |
| control stream: readers, writers, swap | `session.go`, `promote.go`, `checkpoints.go`, `candidate.go`, `main.go` | `ControlStream` | modelled, proved |
| choice among relays, fallback to TCP | `session.go`, `main.go` | `HappyDial`, `Agent` | modelled and proved except `DialAny` |
| P2P promotion, candidates, connectivity check | `promote.go`, `p2p/promoter.go`, `p2p/check.go`, `candidate.go`, `main.go` | `Promotion`, `Agent` | modelled and proved except `Demoter` |
| migration to a direct connection | `promote.go`, `session.go` | `DirectMigration`, abstract `BytePipe` | modelled |
| bridges (copy loops, half-close) | `session.go`, `main.go` | `Bridge`, abstract `BytePipe` | modelled, proved |
| stream mode, forward sessions | `promote.go`, `session.go`, `forward.go`, `forward/conn.go`, `main.go` | `StreamMode` | modelled, proved |
| virtual addresses, DNS | `intercept/vip.go`, `dns.go`, `tproxy_linux.go` | `ServiceNames`, `Interception` | modelled, proved |
| interceptors, consumer loop | `intercept/explicit.go`, `tproxy_linux.go`, `main.go` | `Interceptor`, `Interception` | modelled, proved |
| flags, TLS files, logging | `main.go` | | left out |

How they interact: an interceptor hands a local connection to `runConsumer`,
which dials a stream (registry), waits for the relay's mode notice (control
stream) and bridges the connection to the wrapper or to a forward session. On
the relay path `tryPromote` runs beside the bridge: it exchanges candidates with
the provider over the control stream, dials them, and moves the wrapper to the
direct connection. The provider's side is the mirror image, from
INCOMING_STREAM. When the connection to the relay is lost, `RunWithReconnect`
dials again, swaps the control stream, replays REGISTER and resumes the
registered streams one by one; each Resume meets its peer's at the relay,
exchanges byte positions, retransmits the gap and swaps the wrapper's inner
stream, on which parked reads and writes wake up.

Most modules take one of these mechanisms whole and leave the others out: the
wrapper's protocol has no bytes, the byte accounting has one stream, the registry
and the rendezvous have many streams and no bytes. Three put mechanisms together:

- `Agent` runs the race of `HappyDial` once or twice and, when it has a session,
  the attempt of `Promotion`; the shared UDP socket that the fallback closes is
  what the promotion depends on.
- `Interception` runs the accept loops of `Interceptor` over the names of
  `ServiceNames`, from the start of both to the connection a client makes to an
  address it was given.
- `DirectMigration` has the migration and the Resume of a Reconnect as rival ways
  to move one stream.

`BytePipe` is the specification of three modules: `StreamResume` (over relay
restarts), `DirectMigration` (over the change of path) and `Bridge` (from
application to application). The relay, QUIC and the ring of package `resume`
live in other repositories; they are modelled from the way this code uses them
and are marked external in the map.

## The modules

Every action is one atomic step of the code: a critical section, or a statement
outside one that other goroutines can see. History variables that only the
properties read are named as such where they are declared. Next to many actions
stands a variant with a plausible slip (a dropped guard, a missing reset); no
specification uses it. `PROJECT.json` pairs each property with the variant that
TLC finds to break it when it takes the action's place.

**ResumableStream.** `pc`, `myInner`, `myReady` are the locals of each call of
Read and Write; `inner`, `resumeReady` and `abandoned` are the fields; `closes`
counts how often each channel was closed. `SwapLocked`, `SwapClose` and
`SwapCancel` are the three parts of SwapInner, the last two outside the lock.
`Tick` ages the calls up to `Window`.

**StreamResume.** Relays are numbered, one is current; a restart (`Crash`) drops
what the old one carried. `Read` and `OnRead` are separate steps, like `Write`
and `OnWrite`, because the code has no lock over both. `SendResume`, `ReadEcho`,
`WriteGap` and `SwapInner` are the steps of Resume and completeResume. `raced`
becomes true when a Resume reads a counter between an I/O and its accounting.
`ReadEcho` may fail: a Resume that has been paired and finds its peer's position
gone from the ring closes its new stream, and a peer that has swapped to it reads
a FIN there. The history variable `cut` records that.
`BytePipe` is the abstract specification: two byte sequences, delivery in order,
end of file after the last byte, or earlier once the writing end is cut short.
`ByteRanges` has what the byte-counting modules
share: the two ends, and the bytes between two positions.

**StreamTable.** The map, the wrappers, and where each Dial, handleIncoming,
Close and the Resume loop is. `ended` records the wrappers whose own Close or
failed Resume happened.

**ResumeRendezvous.** Agents with the sets of streams they hold, a relay that
pairs two STREAM_RESUMEs of one stream or lets the window run out. Time passes
only when nothing else can happen. A loop takes its streams in any order, as it
does from a Go map.

**ControlStream.** One control stream per connection, with its queue of frames;
`main` is the position of main and RunWithReconnect, `reader` and `writer` those
of the other goroutines; `overlap` records that a reader or a query was still
busy with the old stream when Reconnect swapped it.

**HappyDial, Agent.** One goroutine per address, the result channel and the
collector. `Agent` adds main: `transport` is what it dials with, `stage` whether
it dials, is up or has exited.

**Promotion.** `pc` is the goroutine of tryPromote; `entry` and `box` are the
waiter in pendingAnswers and its channel; `offer` and `answer` are the frames on
their way, which the relay may lose; `budget` is what is left of the attempt's
five seconds. The provider's list is built like main's (override, reflexive,
hosts with their priorities) and sorted like `candidate.Sort`. A dial succeeds,
is refused at once, or takes `PerPair` seconds.

**DirectMigration.** Three paths: the relay, the direct connection, and the
relay that Reconnect dials. `mig` is MigrateToDirect, `dir` is
handleDirectStream, `phase` is the Resume of each end. A dying path loses all it
carries. A Read and its accounting are one step, so is SwapInner: what happens
between their parts is the subject of StreamResume and ResumableStream, and
MigrateToDirect takes its position and swaps in two steps of its own. A stream
that a Resume dropped goes on as long as its path does: `closed` is set only
when its bridge closes it. `cut` is as in StreamResume. `torn` is set when a
swap relied on a position that no longer held (bytes that the other end had sent
on the path given up, or had read from it, since), or when the provider refused
a consumer that had swapped.

**Bridge.** Two applications, their local connections, and the stream between
the two agents, which takes `Window` bytes while nobody reads them. `buf` holds
what a copy loop has read and not written, `running` the loops of a bridge. The
stream is reliable until a wrapper gives up (`StreamLost`); the other end's
wrapper gives up after it, or reads the FIN of the Resume that failed. The two
versions of the loop (`io.Copy` with halfCloseWrite, and copyAndDone) differ
only in what they do to a target that is broken anyway.

**StreamMode.** The two ends of one new stream: registration of the waiter, the
frame that makes the relay answer, the notice, the timeout, then the bring-up of
a forward session part by part, and the bridge on the path chosen. `held` is
what an end has opened and not closed, `deferred` what its deferred calls will
close; `Return` takes the closes written on that return's own path and adds the
deferred ones. `copies` are the two copies of a bridge, `finished` the streams
whose write side an end has ended. Both agents have called EnableP2P, as main
does.

**ServiceNames, Interceptor, Interception.** The consume list is allocated, then
questions are answered and connections looked up; a name is a word and a flag
for lower case. The accept loops, the unbuffered channel as a joint step, the
error channel with room for one, Close in two steps (the channel, then each
listener). In explicit mode a listener's service is fixed; in tproxy mode the
loop looks up the address the client went to.

## What is checked

Passing runs (state counts are of distinct states):

| run | instance | properties | states |
|---|---|---|---|
| `wrapper` | one reader, one writer with two pieces, one swapper, one closer, window 1 | channels closed once, no lost wakeup; parks end, a swap reaches blocked readers | 163 k |
| `resume` | two bytes one way, a ring of one, two restarts | ring keeps unread bytes; pipe refinement, accepted bytes are delivered | 725 k |
| `table` | three wrappers, two ids, three connections | no foreign teardown, dropped calls are told, closed streams stay out, listed streams are resumed or dropped | 680 k |
| `rendezvous` | three agents, streams ab, ab and bc | a stream is dropped only behind another one; loops end | 110 k |
| `control` | two connections, two readers, one writer | one reader unless overlap, no frame across a swap; frames are read, the ack comes unless overlap | 65 k |
| `agent` | three relays; four candidates and a loopback address; 5 s budget, 2 s a dial | nothing leaks, exit only if all fail, an answer finds its waiter, the check is thorough; main comes up or exits, the attempt settles | 74 k |
| `intercept` | two explicit listeners or a transparent one, three connections, prefix 6..9 in blocks of 4, up to four consumed names | one owner, maps inverse and exhaustion right, right service, consumed names resolve; loops end, errors surface | 138 k |
| `mode` | one stream, two agents | everything released, same path; consumer decides, the forward path ends | 4.3 k |
| `migrate` | one byte from the consumer, two from the provider, rings of one, one path dies | pipe refinement; accepted bytes are delivered | 392 k |
| `bridge` | one byte one way, three the other, window 1, one fault | round trip first; pipe refinement, hang-up reaches the peer, bridges return | 111 k |

Most runs check safety and liveness of their module together, under the fair
specification; `table`, which uses symmetry, has no liveness. The type
invariants are conjuncts of the inductive invariants of the proofs.

Why these bounds: a double close needs a swap and an abandon, or two swaps, of
which `wrapper` has the first and the theorem NoDoubleClose covers any number; a
collision of ids needs two wrappers, and a third shows that others are left
alone; crossing Resume loops need two agents with two common streams, and the
third agent depends on a loop that waits; a second reader needs a second
connection; a race has a winner, a loser and an error; five seconds are two
dials that hang and a half, and the list has four candidates; the prefix 6..9
has both skipped ends of a block and is exhausted by three names; two bytes and
a shorter ring make eviction, retransmission and ErrBeforeRing happen, a second
restart breaks a Resume under way, and the theorems cover two-way traffic and
more restarts;
an answer of three bytes fills the window, the copy buffer and the local
connection at once. The parameters named `Max...` only bound the exploration.
`resume` stops where a Resume has raced and `migrate` where the stream is torn
(`Intact`): the pipe properties are already true of such a behaviour, no step
repairs it, and RingSafe proves `RingKeepsUnread` beyond it.

Deadlock is checked where the system never stops (`ResumableStream`). The other
models end: all bytes are delivered, the attempt is over, the bounds are used
up, or the stream is closed. Their runs switch the check off, and what must not
get stuck is stated as liveness.

### Fairness

Weak fairness is given to goroutines that can run (the Go scheduler is fair to
runnable goroutines), to timers and to the steps of a Resume. Strong fairness is
given where a goroutine competes for a mutex or is one of several ready cases of
a `select`: Go's mutex hands over to a starving waiter, and `select` chooses at
random (`MainStep` and `ReaderStep` in ControlStream, `AcceptReturnsError` in
Interception). No fairness is given to the relay's notices, offers and answers,
to failures or to a peer that may never come back; `StartsOrExits` states its
assumption about HELLO in its own antecedent. Applications are assumed to read
what has arrived, never to write, close or die. In `HappyDial` a connection
attempt ends, because the QUIC handshake has a timeout; the handshake of the
consumer in `StreamMode` ends for the same reason. There a Read from a path that
has ended returns, but no other copy of a bridge need end: applications and back
ends may stay silent, and a provider without a connection waits without a
timeout. The attempt in
`Promotion` ends because its context has a deadline. In `StreamResume`,
`Bridge` and `DirectMigration` a behaviour has finitely many of the fair steps, so
one weak fairness condition over all of them means the same as one for each.

### Where code and comments disagree

Two runs are ones that TLC must find violated; `PROJECT.json` quotes the lines.
`resume_race` (`InOrder`): a Resume between I/O and accounting breaks the byte
order. `idle_read` (`DislodgedReadResumes`): SwapInner cancels the Read of the
stream it replaces so that the Read goes on with the new one, but a Read that has
waited for longer than the retry window has no time left to wait, and returns the
cancellation to its bridge.

The others are formulas at the end of their modules. Named alone in the passing
run's configuration of that module (those of HappyDial and Promotion with
`MCAgent.cfg`, those of ServiceNames and Interceptor with `MCInterception.cfg`),
in place of its properties, each of them is violated (those of an INSTANCEd
module, Promotion or ServiceNames, under a definition such as `Claim ==
P!PunchedBeforeDial` in the MC module). What holds instead is among the
properties of the runs.

| claim | what the code does |
|---|---|
| `WaitsFullWindow` | the retry window starts with the call, not with the failure |
| `ParksOnlyWhileReconnecting` | `reconnecting` is never read; every error parks |
| `NoSwapAfterAbandon` | SwapInner can follow markAbandoned |
| `HalfCloseReachesPeer` | the FIN of a half-close is lost with the relay and not sent again |
| `NewStreamSurvives` | the Close of a replaced stream tears down its successor |
| `FreshIdsNeverCollide` | an id is checked long before it is registered |
| `ResumesEveryActive` | a Dial during Reconnect leaves a stream on the dead connection |
| `OtherStreamsKeepGoing` | opposite orders of two Resume loops drop streams that both ends replay; what holds is `DropsBehindAnother` |
| `AtMostOneReader`, `AckIsDrained` | two control readers; the wrong one takes a REGISTER_ACK |
| `WritesSerialized` | REGISTER is written without the mutex |
| `WinnerIsReturned` | a relay silent after accept holds back the winner |
| `PunchedBeforeDial` | the answer is sent before the punch, so the dial may come first |
| `ConnectionIsClosed` | nobody closes the direct connection of a migrated stream |
| `PrivateBeforeTheRest` | an address that is neither global nor private would rank above a private one |
| `MigrationIsTransparent` | bytes on the path that is given up are lost or read twice |
| `RefusedStaysOnRelay` | the consumer has swapped when the provider refuses |
| `MigratedOutlivesRelay` | Reconnect resumes, and drops, a stream on a healthy direct path |
| `EOFMeansFinished` | a loop that ends with an error half-closes like one at end of file |
| `BridgesExit` | a Write to a full window that nobody reads keeps a bridge |
| `BareNamesResolve`, `CaseInsensitive` | bare names with a suffix configured, and names with capitals, do not resolve |
| `AcceptAfterClose` | Accept after Close may yield a connection |
| `FailedSetupLeavesNothing` | a failed NewExplicit may leave an accept loop |
| `LivenessSignal` | AcceptForward outlives the stream it belongs to |

Also seen: no code calls `StartResume`, so the shipped agent sends no
checkpoints. StreamResume includes them because the library offers them; a
behaviour without checkpoints is one of its behaviours.

## What is proved

The proofs hold for every value of the constants, under the assumptions named
in the modules (disjoint threads, natural bounds, a finite set of relay
addresses, markers such as `None` that are not members of the sets).

`ResumableStreamProofs`: `TypeCorrect`, `NoDoubleClose`, `NoMissedWakeup`.
That a channel is closed at most once is not inductive. The
invariant `ChannelInv` adds what the lock gives: the current channel is open
exactly while the wrapper is not abandoned, each swapper between its lock and
its close owns a channel of its own that nobody else will close, and channels
not yet made are untouched. A parked call's channel is then current, owned by a
swapper, or closed.

`StreamResumeProofs`: `TypeCorrect`, `RingSafe`, `BytesInOrder`,
`StreamIsAPipe`. RingSafe has an invariant of its own (`RingInv`) about the
ring's tail, the checkpoints in flight and the peer's counter. BytesInOrder
rests on two layers. `ControlInv` says which relay an end is connected to, whose
offers are on it, and when both ends are paired there. `StreamInv`, which holds
until `raced`, says what the wires carry: what the peer has read, followed by
what is on the wire, is a prefix of what was written, and reaches its end once
the gap has been retransmitted. StreamIsAPipe maps `written`, `got`,
`raced` and `cut` to the pipe's variables and shows that each step is a step of
the pipe or leaves it unchanged: a FIN that stands before the last byte is one
that a failed Resume of the writing end left.

`StreamProofs`, the registry: `OwnerTearsDown`, `DropIsTold`, `CloseIsFinal`,
`ReconnectIsComplete`. The map is read and emptied by id, so the invariant says
what an id stands for: an entry is a wrapper in use that has this id (`MapInv`);
what a forgetStream in progress has taken out is the caller's wrapper or a
namesake of it (`VictimInv`), and a wrapper in use never loses its namesakes;
each stream of a Reconnect is still to do, on the new connection, or out of the
map, and cannot get back in (`ListInv`).

`ReconnectProofs`, the Resume loops: `OnlyLoopsBlockLoops`, for any agents and
streams, any order of the loops, and any pairing window longer than an agent
stays away. A stream that both ends replay is dropped only when its other end is
back, in its loop, and has put another of its streams first (`Behind`), or when
that end has dropped the stream already. The argument: time
passes only when nothing else can happen, so an agent that is back is in a
Resume or through with its loop. A half that has waited for the whole window
has waited for longer than any agent stays away, so its peer is back
(`LateInv`); had the peer taken this stream the relay would have paired the two,
so the peer is behind another one.

`ReconnectProofs`, the control stream: `SwapBetweenFrames`, `OneReader`.
`LockInv` says that whoever is in the middle of a frame holds ctrlWriteMu and
writes to the stream of now, `ChainInv` that every stream but the last is dead
and nobody reads ahead, and `SingleInv` that, as long as nothing has overlapped,
one controlReader reads the stream of now or is about to, and none while main
reads acks. What is about to read must be counted: a reader at the top of its
loop has not yet chosen its stream.

`StreamProofs`, the stream mode: `DoneHoldsNothing`, `EndsAgree`. `ModeInv`
follows the frames (OPEN_STREAM, STREAM_ACCEPT, notices) and says that a notice
is on its way to an end that waits with an empty box, unless that end has timed
out. `HeldInv` says what an end holds at each point of its bring-up, and what of
it is deferred; each return is then checked against it: what the return closes
itself and what is deferred is all that is held.

`BridgeProofs`: `RoundTripIsFirst`, `BridgesAreAPipe`. `ChainInv` says that what
an application has read, followed by what is on its connection, in the copy
buffers, on the stream and on the other connection, in this order, is a prefix of
what the other application wrote, and all of it while nothing has failed.
`FinInv` says that a FIN stands behind the end of a loop, and that a loop that
ended without a failure left nothing behind it. `ByteRangeProofs` has the
arithmetic of byte ranges that this and StreamResumeProofs use.

`AgentProofs`: `DialLeavesNothing`, `ExitIsLastResort`, `WaiterIsThere`,
`SortIsStable`, `ChecksThoroughly`.
`DialInv` says where each session is (with its goroutine, in the channel, with
the collector) and that the open connections are those of unanswered HELLOs, of
sessions in the channel, and of the winner. `StageInv` carries it over the
fallback. `MailInv` says that the waiter is registered as long as an offer or an
answer is on its way. SortIsStable says of a list of any length that Sort returns
a permutation of it, by descending priority, in which equals keep their order; it
goes by induction on the turns of the outer loop. ChecksThoroughly needs two
things. `CheckInv` says that an answer carries the one list main has made, and
that `budget` has lost at most `PerPair` for each dial so far. And the list has
one override, of priority 100, at most one reflexive candidate, of priority 20,
and hosts between 30 and 80 whatever the interfaces are, so that the sorted list
begins with the one and ends with the other.

`InterceptionProofs`: `ComposesBoth`, `ConnectionHasOneOwner`,
`AllocatorIsConsistent`, `ClientReachesService`, `ServiceIsFound`. ComposesBoth
shows that the composition is a behaviour of each part; the others then follow
from an invariant of each part: addresses below `next` are the ones taken, an
answer is in the map, every consumed service has an address.

Only model-checked: `MigrationKeepsPipe` of DirectMigration, whose three paths
need a larger invariant than the one of StreamResume, and all liveness
(`ParkEnds`, `SwapReachesReaders`, `AcceptedIsDelivered`, `ReconnectReturns`,
`FramesAreRead`, `AckComesUnlessOverlap`, `StartsOrExits`, `AttemptSettles`,
`LoopsEnd`, `ErrorSurfaces`, `ConsumerDecides`, `ForwardEnds`,
`MigratedIsDelivered`, `HangUpReachesPeer`, `BridgesReturn`): liveness under
fairness and ENABLED are beyond the proof system as installed. Induction over
data goes through sets: the least number at which a property fails (`LeastNumber`
in AgentProofs), with the loops of the code as recursive functions of the index.

## Not modelled

- `DialAny`, a loop that returns the first session: nothing runs beside it, and
  only its test calls it.
- `Demoter.Run`, which polls a connection and calls a hook: no code builds one.
- `StartResume` and its ticker: no code calls it; what it sends is modelled.
- The packets of warmupPunch and the prefix of forward packets: one write each.
  Whether a NAT lets a dial through is a choice of the model.
- The wire formats of DNS and ORP: libraries. Backoff delays: any.
- Flags, TLS files, socket options, logging: I/O without state.
- An agent that consumes its own service has both ends of a stream in one
  pendingMode map; StreamMode has two agents. Several promotions of one stream:
  main starts one.
- How a relay reacts to a cancelled read is external: `Bridge` assumes that the
  peer is not told, which is what the code can rely on.

## Running

    tlc -workers 2 -config MCStreamTable.cfg MCStreamTable
    tlapm ResumableStreamProofs.tla
