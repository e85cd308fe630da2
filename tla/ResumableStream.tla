---------------------------- MODULE ResumableStream ----------------------------
(***************************************************************************)
(* The park-and-wake protocol of one ResumableStream wrapper               *)
(* (pkg/session/session.go).  A bridge runs one goroutine in Read and one  *)
(* in Write; when the inner transport stream errors they park on the       *)
(* channel resumeReady until SwapInner installs a new inner, markAbandoned *)
(* gives the wrapper up, or the retry window closes.  Swappers are the     *)
(* callers of SwapInner (Resume, MigrateToDirect, handleDirectStream) and  *)
(* closers the callers of Close.  Every critical section of r.mu is one    *)
(* step, and so is every statement outside it that other goroutines see.   *)
(* Byte counters are the subject of StreamResume.                          *)
(***************************************************************************)
EXTENDS Naturals

CONSTANTS Readers, Writers,   \* goroutines inside Read and inside Write
          Swappers, Closers,  \* goroutines that call SwapInner and Close
          Window,             \* ResumeRetryWindow, in clock ticks
          MaxSwaps,           \* bound: number of SwapInner calls
          MaxLen,             \* bound: pieces of one Write's buffer
          NoChan              \* the nil channel

ASSUME ThreadsAssumption == Readers \cap Writers = {}
ASSUME BoundsAssumption == /\ Window \in Nat \ {0}
                           /\ MaxSwaps \in Nat
                           /\ MaxLen \in Nat \ {0}
ASSUME NoChanAssumption == NoChan \notin Nat

VARIABLES
  inner,        \* ResumableStream.inner: number of the transport stream
  resumeReady,  \* ResumableStream.resumeReady: number of the channel, or NoChan
  abandoned,    \* ResumableStream.abandoned
  swaps,        \* SwapInner calls so far: stream and channel numbers in use
  closes,       \* closes[c]: how often channel c was closed
  link,         \* link[g]: what transport stream g does to a Read or Write
  cancelled,    \* streams whose read side was cancelled with CancelRead
  closed,       \* streams whose Close was called
  reconnecting, \* Session.reconnecting
  pc,           \* where each goroutine stands in its loop
  myInner,      \* the inner a goroutine copied under the read lock
  myReady,      \* the channel it copied with it
  elapsed,      \* ticks since the call computed its deadline, up to Window
  waited,       \* ticks since the call parked, up to Window
  left,         \* pieces of p a Write still has to push
  result,       \* what the last call returned
  swapPc, old, oldReady,  \* a SwapInner in progress
  closePc, target         \* a Close in progress

wrapper == <<inner, resumeReady, abandoned, swaps, closes>>
threads == <<pc, myInner, myReady, elapsed, waited, left, result>>
swapping == <<swapPc, old, oldReady>>
closing == <<closePc, target>>
streams == <<link, cancelled, closed>>
vars == <<wrapper, threads, swapping, closing, streams, reconnecting>>

Threads == Readers \cup Writers
Gens == 0 .. MaxSwaps
Results == {"none", "ok", "lost", "error"}

WrapperType ==
  /\ inner \in Gens
  /\ resumeReady \in Gens \cup {NoChan}
  /\ abandoned \in BOOLEAN
  /\ swaps \in Gens
  /\ closes \in [Gens -> Nat]

StreamType ==
  /\ link \in [Gens -> {"none", "live", "broken"}]
  /\ cancelled \subseteq Gens
  /\ closed \subseteq Gens
  /\ reconnecting \in BOOLEAN

ThreadType ==
  /\ pc \in [Threads -> {"idle", "top", "inner", "parked"}]
  /\ myInner \in [Threads -> Gens]
  /\ myReady \in [Threads -> Gens \cup {NoChan}]
  /\ elapsed \in [Threads -> 0 .. Window]
  /\ waited \in [Threads -> 0 .. Window]
  /\ left \in [Threads -> 0 .. MaxLen]
  /\ result \in [Threads -> Results]

CallerType ==
  /\ swapPc \in [Swappers -> {"idle", "close", "cancel"}]
  /\ old \in [Swappers -> Gens]
  /\ oldReady \in [Swappers -> Gens \cup {NoChan}]
  /\ closePc \in [Closers -> {"idle", "marked", "close"}]
  /\ target \in [Closers -> Gens]

(* Every field, local and counter of the wrapper and its callers has its type. *)
TypeOK == WrapperType /\ StreamType /\ ThreadType /\ CallerType

(* wrapStream hands out a wrapper over a live stream and an open channel. *)
Init ==
  /\ inner = 0 /\ resumeReady = 0 /\ abandoned = FALSE /\ swaps = 0
  /\ closes = [c \in Gens |-> 0]
  /\ link = [g \in Gens |-> IF g = 0 THEN "live" ELSE "none"]
  /\ cancelled = {} /\ closed = {}
  /\ reconnecting = FALSE
  /\ pc = [t \in Threads |-> "idle"]
  /\ myInner = [t \in Threads |-> 0]
  /\ myReady = [t \in Threads |-> NoChan]
  /\ elapsed = [t \in Threads |-> 0]
  /\ waited = [t \in Threads |-> 0]
  /\ left = [t \in Threads |-> 0]
  /\ result = [t \in Threads |-> "none"]
  /\ swapPc = [s \in Swappers |-> "idle"]
  /\ old = [s \in Swappers |-> 0]
  /\ oldReady = [s \in Swappers |-> NoChan]
  /\ closePc = [c \in Closers |-> "idle"]
  /\ target = [c \in Closers |-> 0]

--------------------------------------------------------------------------------
(* Read and Write *)

(* Read or Write is called: the deadline is fixed here, before any I/O. *)
Call(t) ==
  /\ pc[t] = "idle"
  /\ pc' = [pc EXCEPT ![t] = "top"]
  /\ result' = [result EXCEPT ![t] = "none"]
  /\ \E n \in 1 .. MaxLen : left' = [left EXCEPT ![t] = IF t \in Writers THEN n ELSE 0]
  /\ UNCHANGED <<wrapper, swapping, closing, streams, reconnecting,
                 myInner, myReady, elapsed, waited>>

(* A return drops the call's locals. *)
Return(t, r) ==
  /\ pc' = [pc EXCEPT ![t] = "idle"]
  /\ result' = [result EXCEPT ![t] = r]
  /\ myInner' = [myInner EXCEPT ![t] = 0]
  /\ myReady' = [myReady EXCEPT ![t] = NoChan]
  /\ elapsed' = [elapsed EXCEPT ![t] = 0]
  /\ waited' = [waited EXCEPT ![t] = 0]

(* The read-locked head of the loop: give up, or copy inner and channel. *)
Snapshot(t) ==
  /\ pc[t] = "top"
  /\ IF abandoned
       THEN Return(t, "lost")
       ELSE /\ pc' = [pc EXCEPT ![t] = "inner"]
            /\ myInner' = [myInner EXCEPT ![t] = inner]
            /\ myReady' = [myReady EXCEPT ![t] = resumeReady]
            /\ UNCHANGED <<elapsed, waited, result>>
  /\ UNCHANGED <<wrapper, swapping, closing, streams, reconnecting, left>>

(* waitForResume: no wait at all once the call's deadline has passed. *)
WaitForResume(t) ==
  IF elapsed[t] = Window
    THEN Return(t, "error")
    ELSE /\ pc' = [pc EXCEPT ![t] = "parked"]
         /\ waited' = [waited EXCEPT ![t] = 0]
         /\ UNCHANGED <<myInner, myReady, elapsed, result>>

ReadFails(t) == link[myInner[t]] = "broken" \/ myInner[t] \in cancelled
WriteFails(t) == link[myInner[t]] = "broken" \/ myInner[t] \in closed

(* inner.Read returned bytes (with or without an error: both go up, after  *)
(* OnRead), nothing at all, or EOF, the peer's clean close.                *)
ReadData(t) ==
  /\ t \in Readers /\ pc[t] = "inner"
  /\ Return(t, "ok")
  /\ UNCHANGED <<wrapper, swapping, closing, streams, reconnecting, left>>

(* inner.Read returned no bytes and an error other than EOF. *)
ReadError(t) ==
  /\ t \in Readers /\ pc[t] = "inner" /\ ReadFails(t)
  /\ WaitForResume(t)
  /\ UNCHANGED <<wrapper, swapping, closing, streams, reconnecting, left>>

(* inner.Write accepted n of the remaining pieces, with or without an error. *)
WriteData(t) ==
  /\ t \in Writers /\ pc[t] = "inner"
  /\ \E n \in 1 .. left[t] :
       /\ left' = [left EXCEPT ![t] = @ - n]
       /\ \/ n = left[t] /\ Return(t, "ok")
          \/ /\ n < left[t] /\ ~WriteFails(t)
             /\ pc' = [pc EXCEPT ![t] = "top"]
             /\ UNCHANGED <<myInner, myReady, elapsed, waited, result>>
          \/ n < left[t] /\ WriteFails(t) /\ WaitForResume(t)
  /\ UNCHANGED <<wrapper, swapping, closing, streams, reconnecting>>

(* inner.Write accepted nothing: EOF is final, any other error waits. *)
WriteError(t) ==
  /\ t \in Writers /\ pc[t] = "inner" /\ WriteFails(t)
  /\ \/ Return(t, "ok") /\ left' = [left EXCEPT ![t] = 0]
     \/ WaitForResume(t) /\ UNCHANGED left
  /\ UNCHANGED <<wrapper, swapping, closing, streams, reconnecting>>

(* case <-ready: loop and look at the wrapper again. *)
Wake(t) ==
  /\ pc[t] = "parked" /\ myReady[t] # NoChan /\ closes[myReady[t]] > 0
  /\ pc' = [pc EXCEPT ![t] = "top"]
  /\ UNCHANGED <<wrapper, swapping, closing, streams, reconnecting,
                 myInner, myReady, elapsed, waited, left, result>>

(* Variant of Timeout: waitForResume waits for the channel alone. *)
TimeoutMissing(t) == pc[t] = "parked" /\ FALSE /\ UNCHANGED vars

(* case <-t.C: the inner's error goes up to the bridge. *)
Timeout(t) ==
  /\ pc[t] = "parked" /\ elapsed[t] = Window
  /\ Return(t, "error")
  /\ UNCHANGED <<wrapper, swapping, closing, streams, reconnecting, left>>

--------------------------------------------------------------------------------
(* SwapInner, markAbandoned, Close *)

(* Variant of SwapLocked: the old channel stays in place. *)
SwapLockedKeepsChannel(s) ==
  /\ swapPc[s] = "idle" /\ swaps < MaxSwaps
  /\ swaps' = swaps + 1
  /\ inner' = swaps + 1
  /\ old' = [old EXCEPT ![s] = inner]
  /\ oldReady' = [oldReady EXCEPT ![s] = resumeReady]
  /\ link' = [link EXCEPT ![swaps + 1] = "live"]
  /\ swapPc' = [swapPc EXCEPT ![s] = "close"]
  /\ UNCHANGED <<resumeReady, abandoned, closes, threads, closing, cancelled, closed,
                 reconnecting>>

(* The critical section of SwapInner: new inner and new channel together. *)
SwapLocked(s) ==
  /\ swapPc[s] = "idle" /\ swaps < MaxSwaps
  /\ swaps' = swaps + 1
  /\ inner' = swaps + 1
  /\ resumeReady' = swaps + 1
  /\ old' = [old EXCEPT ![s] = inner]
  /\ oldReady' = [oldReady EXCEPT ![s] = resumeReady]
  /\ link' = [link EXCEPT ![swaps + 1] = "live"]
  /\ swapPc' = [swapPc EXCEPT ![s] = "close"]
  /\ UNCHANGED <<abandoned, closes, threads, closing, cancelled, closed, reconnecting>>

(* close(oldReady), after r.mu was released. *)
SwapClose(s) ==
  /\ swapPc[s] = "close"
  /\ closes' = [c \in Gens |-> IF c = oldReady[s] THEN closes[c] + 1 ELSE closes[c]]
  /\ swapPc' = [swapPc EXCEPT ![s] = "cancel"]
  /\ oldReady' = [oldReady EXCEPT ![s] = NoChan]
  /\ UNCHANGED <<inner, resumeReady, abandoned, swaps, threads, old,
                 closing, streams, reconnecting>>

(* Variant of SwapCancel: CancelRead is not called. *)
SwapCancelMissing(s) ==
  /\ swapPc[s] = "cancel"
  /\ swapPc' = [swapPc EXCEPT ![s] = "idle"]
  /\ old' = [old EXCEPT ![s] = 0]
  /\ UNCHANGED <<wrapper, threads, oldReady, closing, streams, reconnecting>>

(* old.CancelRead(0), the last statement of SwapInner. *)
SwapCancel(s) ==
  /\ swapPc[s] = "cancel"
  /\ cancelled' = cancelled \cup {old[s]}
  /\ swapPc' = [swapPc EXCEPT ![s] = "idle"]
  /\ old' = [old EXCEPT ![s] = 0]
  /\ UNCHANGED <<wrapper, threads, oldReady, closing, link, closed, reconnecting>>

(* Variant of MarkAbandoned: the channel is dropped without being closed. *)
MarkAbandonedSilently ==
  /\ abandoned' = TRUE
  /\ resumeReady' = NoChan
  /\ UNCHANGED <<inner, swaps, closes>>

MarkAbandoned ==
  /\ abandoned' = TRUE
  /\ IF abandoned
       THEN UNCHANGED <<resumeReady, closes>>
       ELSE /\ closes' = [c \in Gens |-> IF c = resumeReady THEN closes[c] + 1 ELSE closes[c]]
            /\ resumeReady' = NoChan
  /\ UNCHANGED <<inner, swaps>>

(* Reconnect gives the wrapper up after a failed Resume. *)
ForgetStream ==
  /\ MarkAbandoned
  /\ UNCHANGED <<threads, swapping, closing, streams, reconnecting>>

(* Close: forgetStream and markAbandoned, then the current inner's Close. *)
CloseMark(c) ==
  /\ closePc[c] = "idle"
  /\ MarkAbandoned
  /\ closePc' = [closePc EXCEPT ![c] = "marked"]
  /\ UNCHANGED <<threads, swapping, target, streams, reconnecting>>

CloseSnapshot(c) ==
  /\ closePc[c] = "marked"
  /\ target' = [target EXCEPT ![c] = inner]
  /\ closePc' = [closePc EXCEPT ![c] = "close"]
  /\ UNCHANGED <<wrapper, threads, swapping, streams, reconnecting>>

CloseInner(c) ==
  /\ closePc[c] = "close"
  /\ closed' = closed \cup {target[c]}
  /\ closePc' = [closePc EXCEPT ![c] = "idle"]
  /\ target' = [target EXCEPT ![c] = 0]
  /\ UNCHANGED <<wrapper, threads, swapping, link, cancelled, reconnecting>>

--------------------------------------------------------------------------------
(* Environment: the transport, the clock, and RunWithReconnect's flag *)

Break(g) ==
  /\ link[g] = "live"
  /\ link' = [link EXCEPT ![g] = "broken"]
  /\ UNCHANGED <<wrapper, threads, swapping, closing, cancelled, closed, reconnecting>>

SetReconnecting ==
  /\ reconnecting' = ~reconnecting
  /\ UNCHANGED <<wrapper, threads, swapping, closing, streams>>

Tick ==
  /\ elapsed' = [t \in Threads |-> IF pc[t] # "idle" /\ elapsed[t] < Window
                                   THEN elapsed[t] + 1 ELSE elapsed[t]]
  /\ waited' = [t \in Threads |-> IF pc[t] = "parked" /\ waited[t] < Window
                                  THEN waited[t] + 1 ELSE waited[t]]
  /\ UNCHANGED <<wrapper, swapping, closing, streams, reconnecting,
                 pc, myInner, myReady, left, result>>

ThreadStep(t) ==
  \/ Call(t) \/ Snapshot(t) \/ ReadData(t) \/ ReadError(t)
  \/ WriteData(t) \/ WriteError(t) \/ Wake(t) \/ Timeout(t)

Next ==
  \/ \E t \in Threads : ThreadStep(t)
  \/ \E s \in Swappers : SwapLocked(s) \/ SwapClose(s) \/ SwapCancel(s)
  \/ \E c \in Closers : CloseMark(c) \/ CloseSnapshot(c) \/ CloseInner(c)
  \/ ForgetStream
  \/ \E g \in Gens : Break(g)
  \/ SetReconnecting
  \/ Tick

(* The scheduler runs every runnable goroutine and timers fire; nothing is *)
(* assumed of the peer, the transport, or the callers of Close.            *)
Fairness ==
  /\ \A t \in Threads : WF_vars(Snapshot(t) \/ ReadError(t) \/ Wake(t) \/ Timeout(t))
  /\ \A s \in Swappers : WF_vars(SwapClose(s) \/ SwapCancel(s))
  /\ WF_vars(Tick)

Spec == Init /\ [][Next]_vars
FairSpec == Spec /\ Fairness

--------------------------------------------------------------------------------
(* Properties *)

(* Closing a closed channel panics.  SwapInner closes the old channel after *)
(* it released r.mu and markAbandoned closes the current one under it; no   *)
(* interleaving of the two, nor of two swaps, closes a channel twice.       *)
ChannelsClosedOnce == \A c \in Gens : closes[c] <= 1

(* No lost wakeup: a Read or Write that waits on a channel nobody closed    *)
(* yet waits on the wrapper's current one, which the next SwapInner or      *)
(* markAbandoned closes, or on one that a SwapInner is about to close.  So  *)
(* an abandoned wrapper never leaves a call parked for the whole window.    *)
NoLostWakeup ==
  \A t \in Threads :
    pc[t] = "parked" =>
      /\ myReady[t] # NoChan
      /\ \/ closes[myReady[t]] > 0
         \/ myReady[t] = resumeReady /\ ~abandoned
         \/ \E s \in Swappers : swapPc[s] = "close" /\ oldReady[s] = myReady[t]

(* A parked call always leaves waitForResume: woken, or by its timer. *)
ParkEnds == \A t \in Threads : pc[t] = "parked" ~> pc[t] # "parked"

(* SwapInner's CancelRead dislodges a Read blocked on the replaced inner    *)
(* even when that stream is healthy, as it is in a P2P migration.           *)
SwapReachesReaders ==
  \A t \in Readers :
    (pc[t] = "inner" /\ myInner[t] # inner) ~> ~(pc[t] = "inner" /\ myInner[t] # inner)

--------------------------------------------------------------------------------
(* Claims of comments that the code does not keep *)

(* The comment on SwapInner: a Read that waits on the replaced inner, which *)
(* is healthy in a P2P migration, falls into waitForResume and resumes      *)
(* against the freshly installed inner.  Violated: when the Read has been   *)
(* waiting for longer than the window its deadline has passed,              *)
(* waitForResume returns without a look at the channel, and the error goes  *)
(* up to the bridge of a stream that has just been moved.                   *)
DislodgedReadResumes ==
  [][\A t \in Readers :
       result[t] # "error" /\ result'[t] = "error" =>
         ~(myInner[t] # inner /\ link[myInner[t]] = "live")]_vars

(* The comment on ResumeRetryWindow: it bounds how long Read and Write wait *)
(* for SwapInner after the underlying stream errors, so that both ends have *)
(* a full window to meet on the surviving relay.  Violated: the deadline is *)
(* fixed when the call starts, and an idle Read has used it up already.     *)
WaitsFullWindow ==
  [][\A t \in Threads :
       result[t] # "error" /\ result'[t] = "error" => waited[t] >= Window]_vars

(* The comment on Session.reconnecting: outside the reconnect window errors *)
(* propagate immediately.  Violated: neither Read nor Write looks at it.    *)
ParksOnlyWhileReconnecting ==
  [][\A t \in Threads : pc[t] = "inner" /\ pc'[t] = "parked" => reconnecting]_vars

(* The comment on markAbandoned: no further SwapInner is coming.  Violated: *)
(* a SwapInner that follows installs a stream nobody will read or close.    *)
NoSwapAfterAbandon == [][abandoned => inner' = inner]_vars

================================================================================
