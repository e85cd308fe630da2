-------------------------- MODULE ResumableStreamProofs -------------------------
(***************************************************************************)
(* Proofs about the park-and-wake protocol of ResumableStream, for any     *)
(* number of readers, writers, swappers and closers, any number of swaps   *)
(* and any retry window.                                                   *)
(***************************************************************************)
EXTENDS ResumableStream, TLAPS

(* Channel c will be closed by the SwapInner of s. *)
Closing(s, c) == swapPc[s] = "close" /\ oldReady[s] = c

(* What a goroutine that copied channel c can rely on. *)
WillWake(c) ==
  \/ closes[c] > 0
  \/ c = resumeReady /\ ~abandoned
  \/ \E s \in Swappers : Closing(s, c)

(* Channels not made yet are not closed. *)
FreshInv == \A c \in Gens : c > swaps => closes[c] = 0

(* The wrapper's channel is made and open; only markAbandoned takes it away. *)
ReadyInv ==
  /\ ~abandoned => resumeReady # NoChan
  /\ resumeReady # NoChan => resumeReady <= swaps /\ closes[resumeReady] = 0

(* A channel that a SwapInner is about to close is open, and is not the     *)
(* wrapper's any more.                                                      *)
CloserInv ==
  \A s \in Swappers : \A c \in Gens :
    Closing(s, c) => c <= swaps /\ closes[c] = 0 /\ c # resumeReady

OneCloser ==
  \A s1, s2 \in Swappers : \A c \in Gens : Closing(s1, c) /\ Closing(s2, c) => s1 = s2

ThreadInv(t) ==
  pc[t] \in {"inner", "parked"} =>
    myReady[t] \in Gens /\ myReady[t] <= swaps /\ WillWake(myReady[t])

(* The inductive invariant: every channel has at most one party left that   *)
(* may close it (the wrapper itself, or one SwapInner in flight), and a     *)
(* goroutine past the loop head holds a channel that has been or will be    *)
(* closed.                                                                  *)
ChannelInv ==
  /\ TypeOK
  /\ ChannelsClosedOnce
  /\ FreshInv
  /\ ReadyInv
  /\ CloserInv
  /\ OneCloser
  /\ \A t \in Threads : ThreadInv(t)

LEMMA InitType == Init => TypeOK
<1> SUFFICES ASSUME Init PROVE TypeOK
  BY Zenon
<1>1. WrapperType
  <2>1. 0 \in Gens
    BY BoundsAssumption DEF Gens
  <2>2. QED
    BY <2>1, Zenon DEF Init, WrapperType
<1>2. StreamType
  BY BoundsAssumption, Zenon DEF Init, StreamType, Gens
<1>3. ThreadType
  <2>1. /\ pc \in [Threads -> {"idle", "top", "inner", "parked"}]
        /\ result \in [Threads -> Results]
    BY Zenon DEF Init, Results
  <2>2. /\ myInner \in [Threads -> Gens]
        /\ myReady \in [Threads -> Gens \cup {NoChan}]
    BY BoundsAssumption DEF Init, Gens
  <2>3. /\ elapsed \in [Threads -> 0 .. Window]
        /\ waited \in [Threads -> 0 .. Window]
        /\ left \in [Threads -> 0 .. MaxLen]
    BY BoundsAssumption DEF Init
  <2>4. QED
    BY <2>1, <2>2, <2>3, Zenon DEF ThreadType
<1>4. CallerType
  BY BoundsAssumption DEF Init, CallerType, Gens
<1>5. QED
  BY <1>1, <1>2, <1>3, <1>4, Zenon DEF TypeOK

LEMMA InitChannel == Init => ChannelInv
<1> SUFFICES ASSUME Init PROVE ChannelInv
  BY Zenon
<1>1. TypeOK
  BY InitType, Zenon
<1>2. 0 \in Gens /\ NoChan # 0
  BY BoundsAssumption, NoChanAssumption DEF Gens
<1>3. ChannelsClosedOnce /\ FreshInv /\ ReadyInv
  BY <1>2 DEF Init, ChannelsClosedOnce, FreshInv, ReadyInv
<1>4. CloserInv /\ OneCloser /\ \A t \in Threads : ThreadInv(t)
  BY Zenon DEF Init, CloserInv, OneCloser, ThreadInv, Closing
<1>5. QED
  BY <1>1, <1>3, <1>4, Zenon DEF ChannelInv

LEMMA NextType == TypeOK /\ [Next]_vars => TypeOK'
<1> SUFFICES ASSUME TypeOK, [Next]_vars PROVE TypeOK'
  BY Zenon
<1> USE BoundsAssumption DEF TypeOK
<1>1. ASSUME NEW t \in Threads, Call(t) PROVE TypeOK'
  <2>1. WrapperType'
    BY <1>1, Zenon DEF Call, WrapperType, wrapper, streams
  <2>2. StreamType'
    BY <1>1, Zenon DEF Call, StreamType, streams
  <2>3. ThreadType'
    BY <1>1 DEF Call, ThreadType, Gens, Results, threads, streams, swapping, closing, wrapper
  <2>4. CallerType'
    BY <1>1, Zenon DEF Call, CallerType, swapping, closing, streams
  <2> QED
    BY <2>1, <2>2, <2>3, <2>4, Zenon
<1>2. ASSUME NEW t \in Threads, Snapshot(t) PROVE TypeOK'
  <2>1. WrapperType'
    BY <1>2, Zenon DEF Snapshot, Return, WrapperType, wrapper, streams
  <2>2. StreamType'
    BY <1>2, Zenon DEF Snapshot, Return, StreamType, streams
  <2>3. ThreadType'
    <3>1. CASE abandoned
      BY <1>2, <3>1 DEF Snapshot, Return, ThreadType, Gens, Results
    <3>2. CASE ~abandoned
      BY <1>2, <3>2 DEF Snapshot, ThreadType, WrapperType
    <3>3. QED
      BY <3>1, <3>2, Zenon
  <2>4. CallerType'
    BY <1>2, Zenon DEF Snapshot, Return, CallerType, swapping, closing, streams
  <2> QED
    BY <2>1, <2>2, <2>3, <2>4
<1>3. ASSUME NEW t \in Threads, ReadData(t) PROVE TypeOK'
  <2>1. WrapperType'
    BY <1>3, Zenon DEF ReadData, Return, WrapperType, wrapper, streams
  <2>2. StreamType'
    BY <1>3, Zenon DEF ReadData, Return, StreamType, streams
  <2>3. ThreadType'
    BY <1>3 DEF ReadData, Return, ThreadType, Gens, Results, threads, streams, swapping, closing, wrapper
  <2>4. CallerType'
    BY <1>3, Zenon DEF ReadData, Return, CallerType, swapping, closing, streams
  <2> QED
    BY <2>1, <2>2, <2>3, <2>4
<1>4. ASSUME NEW t \in Threads, ReadError(t) PROVE TypeOK'
  <2>1. WrapperType'
    BY <1>4, Zenon DEF ReadError, WaitForResume, Return, WrapperType, wrapper, streams
  <2>2. StreamType'
    BY <1>4, Zenon DEF ReadError, WaitForResume, Return, StreamType, streams
  <2>3. ThreadType'
    BY <1>4 DEF ReadError, WaitForResume, Return, ThreadType, Gens, Results, threads, streams, swapping, closing, wrapper
  <2>4. CallerType'
    BY <1>4, Zenon DEF ReadError, WaitForResume, Return, CallerType, swapping, closing, streams
  <2> QED
    BY <2>1, <2>2, <2>3, <2>4
<1>5. ASSUME NEW t \in Threads, WriteData(t) PROVE TypeOK'
  <2>1. WrapperType'
    BY <1>5, Zenon DEF WriteData, WaitForResume, Return, WrapperType, wrapper, streams
  <2>2. StreamType'
    BY <1>5, Zenon DEF WriteData, WaitForResume, Return, StreamType, streams
  <2>3. ThreadType'
    BY <1>5 DEF WriteData, WaitForResume, Return, ThreadType, Gens, Results, threads, streams, swapping, closing, wrapper
  <2>4. CallerType'
    BY <1>5, Zenon DEF WriteData, WaitForResume, Return, CallerType, swapping, closing, streams
  <2> QED
    BY <2>1, <2>2, <2>3, <2>4
<1>6. ASSUME NEW t \in Threads, WriteError(t) PROVE TypeOK'
  <2>1. WrapperType'
    BY <1>6, Zenon DEF WriteError, WaitForResume, Return, WrapperType, wrapper, streams
  <2>2. StreamType'
    BY <1>6, Zenon DEF WriteError, WaitForResume, Return, StreamType, streams
  <2>3. ThreadType'
    BY <1>6 DEF WriteError, WaitForResume, Return, ThreadType, Gens, Results, threads, streams, swapping, closing, wrapper
  <2>4. CallerType'
    BY <1>6, Zenon DEF WriteError, WaitForResume, Return, CallerType, swapping, closing, streams
  <2> QED
    BY <2>1, <2>2, <2>3, <2>4
<1>7. ASSUME NEW t \in Threads, Wake(t) PROVE TypeOK'
  <2>1. WrapperType'
    BY <1>7, Zenon DEF Wake, WrapperType, wrapper, streams
  <2>2. StreamType'
    BY <1>7, Zenon DEF Wake, StreamType, streams
  <2>3. ThreadType'
    BY <1>7, Zenon DEF Wake, ThreadType, Gens, Results, threads, streams, swapping, closing, wrapper
  <2>4. CallerType'
    BY <1>7, Zenon DEF Wake, CallerType, swapping, closing, streams
  <2> QED
    BY <2>1, <2>2, <2>3, <2>4
<1>8. ASSUME NEW t \in Threads, Timeout(t) PROVE TypeOK'
  <2>1. WrapperType'
    BY <1>8, Zenon DEF Timeout, Return, WrapperType, wrapper, streams
  <2>2. StreamType'
    BY <1>8, Zenon DEF Timeout, Return, StreamType, streams
  <2>3. ThreadType'
    BY <1>8 DEF Timeout, Return, ThreadType, Gens, Results, threads, streams, swapping, closing, wrapper
  <2>4. CallerType'
    BY <1>8, Zenon DEF Timeout, Return, CallerType, swapping, closing, streams
  <2> QED
    BY <2>1, <2>2, <2>3, <2>4
<1>9. ASSUME NEW s \in Swappers, SwapLocked(s) PROVE TypeOK'
  <2>1. WrapperType'
    BY <1>9 DEF SwapLocked, WrapperType, Gens, wrapper, streams, swapping, closing, threads
  <2>2. StreamType'
    BY <1>9, Zenon DEF SwapLocked, StreamType, Gens, streams, swapping, closing, wrapper, threads
  <2>3. ThreadType'
    BY <1>9, Zenon DEF SwapLocked, ThreadType, threads, streams
  <2>4. CallerType'
    BY <1>9, Zenon DEF SwapLocked, CallerType, WrapperType, swapping, closing, streams, wrapper, threads
  <2> QED
    BY <2>1, <2>2, <2>3, <2>4, Zenon
<1>10. ASSUME NEW s \in Swappers, SwapClose(s) PROVE TypeOK'
  <2>1. WrapperType'
    BY <1>10 DEF SwapClose, WrapperType, Gens, wrapper, streams, swapping, closing, threads
  <2>2. StreamType'
    BY <1>10, Zenon DEF SwapClose, StreamType, streams
  <2>3. ThreadType'
    BY <1>10, Zenon DEF SwapClose, ThreadType, threads, streams
  <2>4. CallerType'
    BY <1>10, Zenon DEF SwapClose, CallerType, Gens, swapping, closing, streams, wrapper, threads
  <2> QED
    BY <2>1, <2>2, <2>3, <2>4
<1>11. ASSUME NEW s \in Swappers, SwapCancel(s) PROVE TypeOK'
  <2>1. WrapperType'
    BY <1>11, Zenon DEF SwapCancel, WrapperType, wrapper, streams
  <2>2. StreamType'
    BY <1>11, Zenon DEF SwapCancel, StreamType, CallerType, streams, swapping, closing, wrapper, threads
  <2>3. ThreadType'
    BY <1>11, Zenon DEF SwapCancel, ThreadType, threads, streams
  <2>4. CallerType'
    BY <1>11 DEF SwapCancel, CallerType, Gens, swapping, closing, streams, wrapper, threads
  <2> QED
    BY <2>1, <2>2, <2>3, <2>4
<1>12. ASSUME NEW c \in Closers, CloseMark(c) PROVE TypeOK'
  <2>1. WrapperType'
    BY <1>12 DEF CloseMark, MarkAbandoned, WrapperType, Gens, wrapper, streams, swapping, closing, threads
  <2>2. StreamType'
    BY <1>12, Zenon DEF CloseMark, MarkAbandoned, StreamType, streams
  <2>3. ThreadType'
    BY <1>12, Zenon DEF CloseMark, MarkAbandoned, ThreadType, threads, streams
  <2>4. CallerType'
    BY <1>12, Zenon DEF CloseMark, MarkAbandoned, CallerType, Gens, swapping, closing, streams, wrapper, threads
  <2> QED
    BY <2>1, <2>2, <2>3, <2>4
<1>13. ASSUME NEW c \in Closers, CloseSnapshot(c) PROVE TypeOK'
  <2>1. WrapperType'
    BY <1>13, Zenon DEF CloseSnapshot, WrapperType, Gens, wrapper, streams, swapping, closing, threads
  <2>2. StreamType'
    BY <1>13, Zenon DEF CloseSnapshot, StreamType, streams
  <2>3. ThreadType'
    BY <1>13, Zenon DEF CloseSnapshot, ThreadType, threads, streams
  <2>4. CallerType'
    BY <1>13, Zenon DEF CloseSnapshot, CallerType, WrapperType, swapping, closing, streams, wrapper, threads
  <2> QED
    BY <2>1, <2>2, <2>3, <2>4
<1>14. ASSUME NEW c \in Closers, CloseInner(c) PROVE TypeOK'
  <2>1. WrapperType'
    BY <1>14, Zenon DEF CloseInner, WrapperType, wrapper, streams
  <2>2. StreamType'
    BY <1>14, Zenon DEF CloseInner, StreamType, CallerType, streams, swapping, closing, wrapper, threads
  <2>3. ThreadType'
    BY <1>14, Zenon DEF CloseInner, ThreadType, threads, streams
  <2>4. CallerType'
    BY <1>14 DEF CloseInner, CallerType, Gens, swapping, closing, streams, wrapper, threads
  <2> QED
    BY <2>1, <2>2, <2>3, <2>4
<1>15. CASE ForgetStream
  <2>1. WrapperType'
    BY <1>15 DEF ForgetStream, MarkAbandoned, WrapperType, Gens, wrapper, streams, swapping, closing, threads
  <2>2. StreamType'
    BY <1>15, Zenon DEF ForgetStream, MarkAbandoned, StreamType, streams
  <2>3. ThreadType'
    BY <1>15, Zenon DEF ForgetStream, MarkAbandoned, ThreadType, threads, streams
  <2>4. CallerType'
    BY <1>15, Zenon DEF ForgetStream, MarkAbandoned, CallerType, swapping, closing, streams
  <2> QED
    BY <2>1, <2>2, <2>3, <2>4, Zenon
<1>16. ASSUME NEW g \in Gens, Break(g) PROVE TypeOK'
  <2>1. WrapperType'
    BY <1>16, Zenon DEF Break, WrapperType, wrapper, streams
  <2>2. StreamType'
    BY <1>16, Zenon DEF Break, StreamType, Gens, streams, swapping, closing, wrapper, threads
  <2>3. ThreadType'
    BY <1>16, Zenon DEF Break, ThreadType, threads, streams
  <2>4. CallerType'
    BY <1>16, Zenon DEF Break, CallerType, swapping, closing, streams
  <2> QED
    BY <2>1, <2>2, <2>3, <2>4
<1>17. CASE SetReconnecting
  <2>1. WrapperType'
    BY <1>17, Zenon DEF SetReconnecting, WrapperType, wrapper, streams
  <2>2. StreamType'
    BY <1>17, Zenon DEF SetReconnecting, StreamType, Gens, streams, swapping, closing, wrapper, threads
  <2>3. ThreadType'
    BY <1>17, Zenon DEF SetReconnecting, ThreadType, threads, streams
  <2>4. CallerType'
    BY <1>17, Zenon DEF SetReconnecting, CallerType, swapping, closing, streams
  <2> QED
    BY <2>1, <2>2, <2>3, <2>4
<1>18. CASE Tick
  <2>1. WrapperType'
    BY <1>18, Zenon DEF Tick, WrapperType, wrapper, streams
  <2>2. StreamType'
    BY <1>18, Zenon DEF Tick, StreamType, streams
  <2>3. ThreadType'
    BY <1>18 DEF Tick, ThreadType, Gens, Results, threads, streams, swapping, closing, wrapper
  <2>4. CallerType'
    BY <1>18, Zenon DEF Tick, CallerType, swapping, closing, streams
  <2> QED
    BY <2>1, <2>2, <2>3, <2>4
<1>19. CASE UNCHANGED vars
  <2>1. WrapperType'
    BY <1>19, Zenon DEF vars, WrapperType, wrapper, streams
  <2>2. StreamType'
    BY <1>19, Zenon DEF vars, StreamType, streams
  <2>3. ThreadType'
    BY <1>19, Zenon DEF vars, ThreadType, threads, streams
  <2>4. CallerType'
    BY <1>19, Zenon DEF vars, CallerType, swapping, closing, streams
  <2> QED
    BY <2>1, <2>2, <2>3, <2>4
<1> QED
  BY <1>1, <1>2, <1>3, <1>4, <1>5, <1>6, <1>7, <1>8, <1>9, <1>10, <1>11, <1>12, <1>13, <1>14, <1>15, <1>16, <1>17, <1>18, <1>19, Zenon DEF Next, ThreadStep

(* Goroutine steps touch neither the wrapper nor a SwapInner in flight, so  *)
(* only their own conjunct of the invariant is at stake.                    *)
LEMMA ThreadStepChannel ==
  ASSUME ChannelInv, TypeOK', NEW u \in Threads, ThreadStep(u)
  PROVE  ChannelInv'
<1>1. UNCHANGED <<resumeReady, abandoned, swaps, closes, swapPc, oldReady>>
  BY Zenon DEF ThreadStep, Call, Snapshot, ReadData, ReadError, WriteData, WriteError, Wake,
         Timeout, wrapper, swapping
<1>2. ThreadType
  BY Zenon DEF ChannelInv, TypeOK
<1>3. \A t \in Threads : t # u => pc'[t] = pc[t] /\ myReady'[t] = myReady[t]
  BY <1>2 DEF ThreadType, ThreadStep, Call, Snapshot, ReadData, ReadError,
              WriteData, WriteError, Wake, Timeout, Return, WaitForResume
<1>4. pc'[u] \in {"inner", "parked"} =>
         \/ pc[u] = "inner" /\ myReady'[u] = myReady[u]
         \/ myReady'[u] = resumeReady /\ ~abandoned
  BY <1>2, Zenon DEF ThreadType, ThreadStep, Call, Snapshot, ReadData, ReadError,
              WriteData, WriteError, Wake, Timeout, Return, WaitForResume
<1>5. ASSUME NEW t \in Threads PROVE ThreadInv(t)'
  <2>1. ThreadInv(t)
    BY Zenon DEF ChannelInv
  <2>2. CASE t # u
    BY <2>1, <2>2, <1>1, <1>3, Zenon DEF ThreadInv, WillWake, Closing
  <2>3. CASE t = u /\ pc[u] = "inner" /\ myReady'[u] = myReady[u]
    BY <2>1, <2>3, <1>1, Zenon DEF ThreadInv, WillWake, Closing
  <2>4. CASE t = u /\ myReady'[u] = resumeReady /\ ~abandoned
    <3>1. resumeReady \in Gens /\ resumeReady <= swaps
      BY <2>4, Zenon DEF ChannelInv, ReadyInv, TypeOK, WrapperType
    <3>2. QED
      BY <2>4, <3>1, <1>1, Zenon DEF ThreadInv, WillWake
  <2>5. CASE pc'[t] \notin {"inner", "parked"}
    BY <2>5, Zenon DEF ThreadInv
  <2>6. QED
    BY <2>2, <2>3, <2>4, <2>5, <1>4, Zenon
<1>6. (ChannelsClosedOnce /\ FreshInv /\ ReadyInv /\ CloserInv /\ OneCloser)'
  BY <1>1, Zenon DEF ChannelInv, ChannelsClosedOnce, FreshInv, ReadyInv, CloserInv, OneCloser, Closing
<1>7. QED
  BY <1>5, <1>6, Zenon DEF ChannelInv

(* Steps that leave the channels, SwapInner and the goroutines alone. *)
LEMMA FrameChannel ==
  ASSUME ChannelInv, TypeOK',
         UNCHANGED <<resumeReady, abandoned, swaps, closes, swapPc, oldReady, pc, myReady>>
  PROVE  ChannelInv'
<1>1. (ChannelsClosedOnce /\ FreshInv /\ ReadyInv /\ CloserInv /\ OneCloser)'
  BY Zenon DEF ChannelInv, ChannelsClosedOnce, FreshInv, ReadyInv, CloserInv, OneCloser, Closing
<1>2. \A t \in Threads : ThreadInv(t)'
  BY Zenon DEF ChannelInv, ThreadInv, WillWake, Closing
<1>3. QED
  BY <1>1, <1>2, Zenon DEF ChannelInv

(* A step that only lets more channels wake their waiters keeps ThreadInv. *)
LEMMA WakeMonotone ==
  ASSUME \A t \in Threads : ThreadInv(t), UNCHANGED <<pc, myReady>>,
         swaps \in Nat, swaps' \in Nat, swaps' >= swaps, Gens \subseteq Nat,
         \A c \in Gens : WillWake(c) => WillWake(c)'
  PROVE  \A t \in Threads : ThreadInv(t)'
<1> SUFFICES ASSUME NEW t \in Threads, pc[t] \in {"inner", "parked"}
             PROVE  (myReady[t] \in Gens /\ myReady[t] <= swaps /\ WillWake(myReady[t]))'
  BY Zenon DEF ThreadInv
<1>1. myReady[t] \in Gens /\ myReady[t] <= swaps /\ WillWake(myReady[t])
  BY Zenon DEF ThreadInv
<1>2. PICK c \in Gens : c = myReady[t] /\ c <= swaps /\ WillWake(c)
  BY <1>1, Zenon DEF WillWake
<1>3. c <= swaps' /\ WillWake(c)'
  <2>1. c \in Nat
    BY Zenon
  <2>2. c <= swaps'
    BY <1>2, <2>1
  <2>3. WillWake(c)'
    BY <1>2, Zenon
  <2>4. QED
    BY <2>2, <2>3, Zenon
<1>4. QED
  BY <1>2, <1>3, Zenon DEF WillWake

LEMMA GensFacts ==
  ASSUME TypeOK
  PROVE  /\ Gens \subseteq Nat /\ NoChan \notin Gens
         /\ swaps \in Nat /\ swaps \in Gens /\ closes \in [Gens -> Nat]
         /\ resumeReady # NoChan => resumeReady \in Gens
BY BoundsAssumption, NoChanAssumption DEF TypeOK, WrapperType, Gens

LEMMA AbandonChannel ==
  ASSUME ChannelInv, TypeOK', MarkAbandoned, UNCHANGED <<swapPc, oldReady, pc, myReady>>
  PROVE  ChannelInv'
<1>1. CASE abandoned
  BY <1>1, FrameChannel, Zenon DEF MarkAbandoned
<1>2. CASE ~abandoned
  <2>1. TypeOK
    BY Zenon DEF ChannelInv
  <2>2. /\ abandoned' = TRUE /\ swaps' = swaps /\ resumeReady' = NoChan
        /\ closes' = [c \in Gens |-> IF c = resumeReady THEN closes[c] + 1 ELSE closes[c]]
    BY <1>2, Zenon DEF MarkAbandoned
  <2>3. resumeReady \in Gens /\ closes[resumeReady] = 0 /\ resumeReady <= swaps
    BY <1>2, <2>1, GensFacts, Zenon DEF ChannelInv, ReadyInv
  <2>4. ChannelsClosedOnce' /\ FreshInv'
    BY <2>1, <2>2, <2>3, GensFacts DEF ChannelInv, ChannelsClosedOnce, FreshInv
  <2>5. ReadyInv'
    BY <2>2, Zenon DEF ReadyInv
  <2>6. CloserInv' /\ OneCloser'
    BY <2>1, <2>2, GensFacts, Zenon DEF ChannelInv, CloserInv, OneCloser, Closing
  <2>7. \A c \in Gens : WillWake(c) => WillWake(c)'
    BY <2>1, <2>2, GensFacts DEF WillWake, Closing
  <2>8. \A t \in Threads : ThreadInv(t)'
    BY <2>1, <2>2, <2>7, GensFacts, WakeMonotone DEF ChannelInv
  <2>9. QED
    BY <2>4, <2>5, <2>6, <2>8, Zenon DEF ChannelInv
<1>3. QED
  BY <1>1, <1>2, Zenon

LEMMA SwapLockedChannel ==
  ASSUME ChannelInv, TypeOK', NEW u \in Swappers, SwapLocked(u)
  PROVE  ChannelInv'
<1>0. TypeOK
  BY Zenon DEF ChannelInv
<1>1. /\ swaps' = swaps + 1 /\ resumeReady' = swaps + 1 /\ swaps + 1 \in Gens
      /\ UNCHANGED <<abandoned, closes, pc, myReady>>
  BY <1>0, GensFacts, BoundsAssumption DEF SwapLocked, threads, Gens
<1>2. /\ \A s \in Swappers : s # u => swapPc'[s] = swapPc[s] /\ oldReady'[s] = oldReady[s]
      /\ swapPc[u] = "idle" /\ swapPc'[u] = "close" /\ oldReady'[u] = resumeReady
  BY <1>0, Zenon DEF SwapLocked, TypeOK, CallerType
<1>3. \A s \in Swappers : \A c \in Gens :
        Closing(s, c)' => (s # u /\ Closing(s, c)) \/ (s = u /\ c = resumeReady)
  BY <1>2, Zenon DEF Closing
<1>4. CloserInv'
  <2> SUFFICES ASSUME NEW s \in Swappers, NEW c \in Gens, Closing(s, c)'
               PROVE  c <= swaps' /\ closes'[c] = 0 /\ c # resumeReady'
    BY Zenon DEF CloserInv
  <2>1. c <= swaps /\ closes[c] = 0
    BY <1>0, <1>3, GensFacts, Zenon DEF ChannelInv, CloserInv, ReadyInv
  <2>2. QED
    BY <2>1, <1>0, <1>1, GensFacts
<1>5. OneCloser'
  BY <1>3, Zenon DEF ChannelInv, OneCloser, CloserInv
<1>6. \A c \in Gens : WillWake(c) => WillWake(c)'
  <2> TAKE c \in Gens
  <2>1. CASE closes[c] > 0
    BY <2>1, <1>1, Zenon DEF WillWake
  <2>2. CASE c = resumeReady
    BY <2>2, <1>2, Zenon DEF WillWake, Closing
  <2>3. CASE \E s \in Swappers : Closing(s, c)
    BY <2>3, <1>2, Zenon DEF WillWake, Closing
  <2>4. QED
    BY <2>1, <2>2, <2>3, Zenon DEF WillWake
<1>7. \A t \in Threads : ThreadInv(t)'
  BY <1>0, <1>1, <1>6, GensFacts, WakeMonotone DEF ChannelInv
<1>8. ChannelsClosedOnce' /\ FreshInv'
  BY <1>0, <1>1, GensFacts DEF ChannelInv, ChannelsClosedOnce, FreshInv
<1>9. ReadyInv'
  BY <1>0, <1>1, GensFacts DEF ChannelInv, ReadyInv, FreshInv
<1>10. QED
  BY <1>4, <1>5, <1>7, <1>8, <1>9, Zenon DEF ChannelInv

LEMMA SwapCloseChannel ==
  ASSUME ChannelInv, TypeOK', NEW u \in Swappers, SwapClose(u)
  PROVE  ChannelInv'
<1>0. TypeOK
  BY DEF ChannelInv
<1>1. /\ UNCHANGED <<resumeReady, abandoned, swaps, pc, myReady>>
      /\ closes' = [c \in Gens |-> IF c = oldReady[u] THEN closes[c] + 1 ELSE closes[c]]
  BY Zenon DEF SwapClose, threads
<1>2. /\ \A s \in Swappers : s # u => swapPc'[s] = swapPc[s] /\ oldReady'[s] = oldReady[s]
      /\ swapPc[u] = "close" /\ swapPc'[u] = "cancel"
  BY <1>0, Zenon DEF SwapClose, TypeOK, CallerType
<1>3. \A s \in Swappers : \A c \in Gens : Closing(s, c)' => s # u /\ Closing(s, c)
  BY <1>2, Zenon DEF Closing
<1>4. \A c \in Gens : c = oldReady[u] =>
        closes[c] = 0 /\ c <= swaps /\ c # resumeReady /\ Closing(u, c)
  BY <1>2, Zenon DEF ChannelInv, CloserInv, Closing
<1>5. CloserInv' /\ OneCloser'
  BY <1>1, <1>3, <1>4, Zenon DEF ChannelInv, CloserInv, OneCloser
<1>6. \A c \in Gens : WillWake(c) => WillWake(c)'
  <2> TAKE c \in Gens
  <2>1. CASE c = oldReady[u]
    BY <2>1, <1>0, <1>1, GensFacts DEF WillWake
  <2>2. CASE c # oldReady[u]
    BY <2>2, <1>1, <1>2, Zenon DEF WillWake, Closing
  <2>3. QED
    BY <2>1, <2>2, Zenon
<1>7. \A t \in Threads : ThreadInv(t)'
  BY <1>0, <1>1, <1>6, GensFacts, WakeMonotone DEF ChannelInv
<1>8. ChannelsClosedOnce' /\ FreshInv'
  BY <1>0, <1>1, <1>4, GensFacts DEF ChannelInv, ChannelsClosedOnce, FreshInv
<1>9. ReadyInv'
  BY <1>0, <1>1, <1>4, GensFacts, Zenon DEF ChannelInv, ReadyInv
<1>10. QED
  BY <1>5, <1>7, <1>8, <1>9, Zenon DEF ChannelInv

LEMMA NextChannel == ChannelInv /\ [Next]_vars => ChannelInv'
<1> SUFFICES ASSUME ChannelInv, [Next]_vars PROVE ChannelInv'
  BY Zenon
<1>0. TypeOK'
  BY NextType, Zenon DEF ChannelInv
<1>1. CASE \E t \in Threads : ThreadStep(t)
  BY <1>0, <1>1, ThreadStepChannel, Zenon
<1>2. CASE \E s \in Swappers : SwapLocked(s)
  BY <1>0, <1>2, SwapLockedChannel, Zenon
<1>3. CASE \E s \in Swappers : SwapClose(s)
  BY <1>0, <1>3, SwapCloseChannel
<1>4. CASE \E s \in Swappers : SwapCancel(s)
  <2> PICK s \in Swappers : SwapCancel(s)
    BY <1>4, Zenon
  <2>1. UNCHANGED <<resumeReady, abandoned, swaps, closes, oldReady, pc, myReady>>
    BY Zenon DEF SwapCancel, wrapper, threads
  <2>2. \A x \in Swappers : \A c \in Gens : Closing(x, c)' <=> Closing(x, c)
    BY <2>1, Zenon DEF SwapCancel, Closing, ChannelInv, TypeOK, CallerType
  <2>3. \A c \in Gens : WillWake(c) => WillWake(c)'
    BY <2>1, <2>2, Zenon DEF WillWake
  <2>4. \A t \in Threads : ThreadInv(t)'
    BY <2>1, <2>3, GensFacts, WakeMonotone DEF ChannelInv
  <2>5. (ChannelsClosedOnce /\ FreshInv /\ ReadyInv /\ CloserInv /\ OneCloser)'
    BY <2>1, <2>2, Zenon
    DEF ChannelInv, ChannelsClosedOnce, FreshInv, ReadyInv, CloserInv, OneCloser
  <2>6. QED
    BY <1>0, <2>4, <2>5, Zenon DEF ChannelInv
<1>5. CASE ForgetStream \/ \E c \in Closers : CloseMark(c)
  <2>1. MarkAbandoned /\ UNCHANGED <<swapPc, oldReady, pc, myReady>>
    BY <1>5, Zenon DEF ForgetStream, CloseMark, threads, swapping
  <2>2. QED
    BY <1>0, <2>1, AbandonChannel, Zenon
<1>6. CASE \E c \in Closers : CloseSnapshot(c) \/ CloseInner(c)
  BY <1>0, <1>6, FrameChannel, Zenon DEF CloseSnapshot, CloseInner, wrapper, threads, swapping
<1>7. CASE (\E g \in Gens : Break(g)) \/ SetReconnecting \/ Tick
  BY <1>0, <1>7, FrameChannel, Zenon DEF Break, SetReconnecting, Tick, wrapper, threads, swapping
<1>8. CASE UNCHANGED vars
  BY <1>0, <1>8, FrameChannel, Zenon DEF vars, wrapper, threads, swapping
<1>9. QED
  BY <1>1, <1>2, <1>3, <1>4, <1>5, <1>6, <1>7, <1>8, Zenon DEF Next

LEMMA ChannelInvHolds == Spec => []ChannelInv
BY InitChannel, NextChannel, PTL DEF Spec

(* TypeOK is an invariant: the wrapper's fields, the channels' close counts *)
(* and every goroutine's locals stay in their declared sets.                *)
THEOREM TypeCorrect == Spec => []TypeOK
BY InitType, NextType, PTL DEF Spec
(* SwapInner and markAbandoned together never close a channel twice, which  *)
(* in Go is a panic of the whole agent.                                     *)
THEOREM NoDoubleClose == Spec => []ChannelsClosedOnce
<1>1. ChannelInv => ChannelsClosedOnce
  BY Zenon DEF ChannelInv
<1>2. QED
  BY <1>1, ChannelInvHolds, PTL

(* A parked Read or Write holds a channel that was closed, or that its one  *)
(* remaining owner will close: no SwapInner or markAbandoned is missed.     *)
THEOREM NoMissedWakeup == Spec => []NoLostWakeup
<1>1. ChannelInv => NoLostWakeup
  BY NoChanAssumption DEF ChannelInv, ThreadInv, NoLostWakeup, WillWake, Closing, Gens
<1>2. QED
  BY <1>1, ChannelInvHolds, PTL

================================================================================
