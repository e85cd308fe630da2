---------------------------- MODULE Interceptor ----------------------------
(***************************************************************************)
(* The two interceptors (pkg/intercept/explicit.go and tproxy_linux.go) and *)
(* the loop of runConsumer that drains them (cmd/outrelay-agent/main.go).  *)
(* An accept loop per listener hands connections over an unbuffered channel *)
(* to Accept; Close closes a channel that all of them select on, then the  *)
(* listeners.  The explicit interceptor binds several listeners one after  *)
(* the other and has a channel for the first accept error; the transparent *)
(* one has one listener and no such channel, and may drop a connection     *)
(* whose destination it cannot resolve (module ServiceNames).              *)
(***************************************************************************)
EXTENDS Naturals

CONSTANTS
    Listeners,   \* the mappings of --consume; one for tproxy
    MaxConns     \* bound: local connections that arrive

ASSUME InterceptorAssumption == MaxConns \in Nat

(* Connections are named in the order in which they are accepted.           *)
Conns == 1 .. MaxConns
None == 0

VARIABLES
    transparent, \* tproxy mode: one listener
    setup,     \* NewExplicit or NewTProxy: "bind", "ready" or "failed"
    open,      \* listeners that are bound
    loop,      \* where each acceptLoop is
    held,      \* the connection an acceptLoop wants to hand over
    given,     \* connections Accept has returned
    shut,      \* connections the interceptor has closed
    errs,      \* the errs channel holds an error
    closed,    \* the closed channel is closed
    consumer,  \* where runConsumer is
    late       \* the Accept in progress was called after Close returned

vars == <<transparent, setup, open, loop, held, given, shut, errs, closed,
          consumer, late>>

(* One type invariant.                                                      *)
TypeOK ==
    /\ transparent \in BOOLEAN
    /\ setup \in {"bind", "ready", "failed"}
    /\ open \subseteq Listeners
    /\ loop \in [Listeners -> {"none", "accept", "resolve", "send", "report",
                             "exit"}]
    /\ held \in [Listeners -> Conns \cup {None}]
    /\ given \subseteq Conns
    /\ shut \subseteq Conns
    /\ errs \in BOOLEAN
    /\ closed \in BOOLEAN
    /\ consumer \in {"idle", "accept", "stop"}
    /\ late \in BOOLEAN

Init ==
    /\ transparent \in BOOLEAN
    /\ setup = "bind"
    /\ open = {}
    /\ loop = [l \in Listeners |-> "none"]
    /\ held = [l \in Listeners |-> None]
    /\ given = {}
    /\ shut = {}
    /\ errs = FALSE
    /\ closed = FALSE
    /\ consumer = "idle"
    /\ late = FALSE

-----------------------------------------------------------------------------
(* NewExplicit and NewTProxy.                                               *)

Bind(l) ==
    /\ setup = "bind"
    /\ loop[l] = "none"
    /\ open' = open \cup {l}
    /\ loop' = [loop EXCEPT ![l] = "accept"]
    /\ setup' = IF transparent \/ \A m \in Listeners \ {l} : loop[m] # "none"
                THEN "ready" ELSE "bind"
    /\ UNCHANGED <<transparent, held, given, shut, errs, closed, consumer,
                   late>>

(* NewExplicit that returns the error and nothing else.                     *)
BindFailsKeepsOpen ==
    /\ setup = "bind"
    /\ setup' = "failed"
    /\ UNCHANGED <<transparent, open, loop, held, given, shut, errs, closed,
                   consumer, late>>

(* A listener cannot be bound: closeListeners, and an error to the caller.  *)
(* The closed channel stays open.                                           *)
BindFails ==
    /\ setup = "bind"
    /\ setup' = "failed"
    /\ open' = {}
    /\ UNCHANGED <<transparent, loop, held, given, shut, errs, closed,
                   consumer, late>>

-----------------------------------------------------------------------------
(* acceptLoop.                                                              *)

(* The connections that have arrived.                                       *)
Seen == given \cup shut \cup {held[m] : m \in Listeners}

(* The next connection arrives on a bound listener; tproxy looks up where   *)
(* it was going before it hands it over.                                    *)
AcceptConn(l, c) ==
    /\ loop[l] = "accept"
    /\ l \in open
    /\ c \notin Seen
    /\ \A d \in 1 .. c - 1 : d \in Seen
    /\ held' = [held EXCEPT ![l] = c]
    /\ loop' = [loop EXCEPT ![l] = IF transparent THEN "resolve" ELSE "send"]
    /\ UNCHANGED <<transparent, setup, open, given, shut, errs, closed,
                   consumer, late>>

Resolve(l) ==
    /\ loop[l] = "resolve"
    /\ loop' = [loop EXCEPT ![l] = "send"]
    /\ UNCHANGED <<transparent, setup, open, held, given, shut, errs, closed,
                   consumer, late>>

(* tproxy: no original destination, or one that is not a VIP of ours.       *)
DropConn(l) ==
    /\ loop[l] = "resolve"
    /\ shut' = shut \cup {held[l]}
    /\ held' = [held EXCEPT ![l] = None]
    /\ loop' = [loop EXCEPT ![l] = "accept"]
    /\ UNCHANGED <<transparent, setup, open, given, errs, closed, consumer,
                   late>>

(* An accept error that the explicit loop does not pass on either.          *)
AcceptErrorQuietly(l) ==
    /\ loop[l] = "accept"
    /\ loop' = [loop EXCEPT ![l] = "exit"]
    /\ UNCHANGED <<transparent, setup, open, held, given, shut, errs, closed,
                   consumer, late>>

(* ln.Accept fails, because the listener is closed or out of descriptors.   *)
(* The loop ends; unless Close has been called, the explicit one reports    *)
(* the error first.                                                         *)
AcceptError(l) ==
    /\ loop[l] = "accept"
    /\ loop' = [loop EXCEPT ![l] =
                   IF closed \/ transparent THEN "exit" ELSE "report"]
    /\ UNCHANGED <<transparent, setup, open, held, given, shut, errs, closed,
                   consumer, late>>

(* The error goes into errs if there is room, else it is dropped.           *)
ReportError(l) ==
    /\ loop[l] = "report"
    /\ errs' = TRUE
    /\ loop' = [loop EXCEPT ![l] = "exit"]
    /\ UNCHANGED <<transparent, setup, open, held, given, shut, closed,
                   consumer, late>>

(* The select of the loop takes <-closed: the connection is closed.         *)
LoopClosed(l) ==
    /\ loop[l] = "send"
    /\ closed
    /\ shut' = shut \cup {held[l]}
    /\ held' = [held EXCEPT ![l] = None]
    /\ loop' = [loop EXCEPT ![l] = "exit"]
    /\ UNCHANGED <<transparent, setup, open, given, errs, closed, consumer,
                   late>>

-----------------------------------------------------------------------------
(* Accept, called in the loop of runConsumer.                               *)

CallAccept ==
    /\ setup = "ready"
    /\ consumer = "idle"
    /\ consumer' = "accept"
    /\ late' = (closed /\ open = {})
    /\ UNCHANGED <<transparent, setup, open, loop, held, given, shut, errs,
                   closed>>

(* The connection changes hands but the loop keeps it too.                  *)
AcceptReturnsTwice(l) ==
    /\ consumer = "accept"
    /\ loop[l] = "send"
    /\ given' = given \cup {held[l]}
    /\ consumer' = "idle"
    /\ UNCHANGED <<transparent, setup, open, loop, held, shut, errs, closed,
                   late>>

(* The connection changes hands.  runConsumer starts a goroutine for it and *)
(* calls Accept again.                                                      *)
AcceptReturns(l) ==
    /\ consumer = "accept"
    /\ loop[l] = "send"
    /\ given' = given \cup {held[l]}
    /\ held' = [held EXCEPT ![l] = None]
    /\ loop' = [loop EXCEPT ![l] = "accept"]
    /\ consumer' = "idle"
    /\ UNCHANGED <<transparent, setup, open, shut, errs, closed, late>>

(* Accept returns an accept error, ErrClosed or the end of ctx, and         *)
(* runConsumer returns.                                                     *)
AcceptReturnsError ==
    /\ consumer = "accept"
    /\ errs
    /\ errs' = FALSE
    /\ consumer' = "stop"
    /\ UNCHANGED <<transparent, setup, open, loop, held, given, shut, closed,
                   late>>

AcceptReturnsClosed ==
    /\ consumer = "accept"
    /\ closed
    /\ consumer' = "stop"
    /\ UNCHANGED <<transparent, setup, open, loop, held, given, shut, errs,
                   closed, late>>

AcceptCancelled ==
    /\ consumer = "accept"
    /\ consumer' = "stop"
    /\ UNCHANGED <<transparent, setup, open, loop, held, given, shut, errs,
                   closed, late>>

(* Close, which main defers: the channel, then the listeners one by one.    *)
Close ==
    /\ setup = "ready"
    /\ ~closed
    /\ closed' = TRUE
    /\ UNCHANGED <<transparent, setup, open, loop, held, given, shut, errs,
                   consumer, late>>

CloseListener(l) ==
    /\ closed
    /\ l \in open
    /\ open' = open \ {l}
    /\ UNCHANGED <<transparent, setup, loop, held, given, shut, errs, closed,
                   consumer, late>>

-----------------------------------------------------------------------------
Next ==
    \/ \E l \in Listeners :
        \/ Bind(l)
        \/ \E c \in Conns : AcceptConn(l, c)
        \/ Resolve(l)
        \/ DropConn(l)
        \/ AcceptError(l)
        \/ ReportError(l)
        \/ LoopClosed(l)
        \/ AcceptReturns(l)
        \/ CloseListener(l)
    \/ BindFails
    \/ CallAccept
    \/ AcceptReturnsError
    \/ AcceptReturnsClosed
    \/ AcceptCancelled
    \/ Close

Spec == Init /\ [][Next]_vars

-----------------------------------------------------------------------------
(* Properties.                                                              *)

(* A connection has one owner: Accept returned it, the interceptor closed   *)
(* it, or one accept loop still holds it.  In particular Close leaves the   *)
(* connections that earlier Accepts returned alone.                         *)
OneOwner ==
    /\ given \cap shut = {}
    /\ \A l \in Listeners : held[l] \notin given \cup shut
    /\ \A l, m \in Listeners : held[l] = held[m] /\ held[l] # None => l = m
    /\ \A l \in Listeners : loop[l] = "exit" => held[l] = None

(* Close sees everything off: every accept loop ends and no connection is   *)
(* left waiting in one.  A failed NewExplicit, which has nobody to Close    *)
(* it, ends the loops it started too, except for one that has a connection  *)
(* in hand.                                                                 *)
LoopsEnd ==
    /\ closed ~> \A l \in Listeners :
                     loop[l] \in {"none", "exit"} /\ held[l] = None
    /\ setup = "failed" ~> \A l \in Listeners :
                               loop[l] \in {"none", "exit"} \/ held[l] # None

(* An explicit listener that stops accepting before Close does not do so in *)
(* silence: runConsumer, whose Accept returns the error, stops.             *)
ErrorSurfaces ==
    /\ ~transparent
    /\ setup = "ready"
    /\ ~closed
    /\ \E l \in Listeners : loop[l] = "exit"
    ~> consumer = "stop"

-----------------------------------------------------------------------------
(* Claims of comments that the code does not keep.                          *)

(* Interceptor's comment: after Close, Accept returns ErrClosed.            *)
AcceptAfterClose ==
    [][\A l \in Listeners : AcceptReturns(l) => ~late]_vars

(* NewExplicit's comment: on error the caller has nothing to clean up.      *)
FailedSetupLeavesNothing ==
    setup = "failed" ~> \A l \in Listeners : loop[l] \in {"none", "exit"}
=============================================================================
