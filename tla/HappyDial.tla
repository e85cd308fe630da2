----------------------------- MODULE HappyDial -----------------------------
(***************************************************************************)
(* DialAnyHappy (pkg/session/session.go): one DialWithDialer goroutine per *)
(* relay address, a result channel with room for all of them, and a        *)
(* collector that takes the first session, cancels the rest and closes the *)
(* sessions that were too late.                                            *)
(***************************************************************************)
EXTENDS Naturals, FiniteSets

CONSTANTS
    Addrs,      \* the relay addresses; two or more, one is dialed directly
    None        \* no winner yet

ASSUME AddrsAssumption == IsFiniteSet(Addrs) /\ None \notin Addrs

VARIABLES
    at,         \* where each DialWithDialer goroutine is
    open,       \* addresses to which a connection is open
    results,    \* goroutines whose result the channel holds
    collected,  \* goroutines whose result the collector has taken
    winner,     \* the goroutine whose session won
    cancelled,  \* raceCtx is cancelled
    done        \* DialAnyHappy has returned

vars == <<at, open, results, collected, winner, cancelled, done>>

(* One type invariant.                                                      *)
TypeOK ==
    /\ at \in [Addrs -> {"dial", "hello", "session", "error"}]
    /\ open \subseteq Addrs
    /\ results \subseteq Addrs
    /\ collected \subseteq Addrs
    /\ winner \in Addrs \cup {None}
    /\ cancelled \in BOOLEAN
    /\ done \in BOOLEAN

Init ==
    /\ at = [a \in Addrs |-> "dial"]
    /\ open = {}
    /\ results = {}
    /\ collected = {}
    /\ winner = None
    /\ cancelled = FALSE
    /\ done = FALSE

-----------------------------------------------------------------------------
(* DialWithDialer.                                                          *)

(* dialer.Dial and OpenStream succeed, under raceCtx, and HELLO is written. *)
Connect(a) ==
    /\ at[a] = "dial"
    /\ ~cancelled
    /\ at' = [at EXCEPT ![a] = "hello"]
    /\ open' = open \cup {a}
    /\ UNCHANGED <<results, collected, winner, cancelled, done>>

(* A dial that reports nothing when the race is over.                       *)
ConnectFailsSilently(a) ==
    /\ at[a] = "dial"
    /\ at' = [at EXCEPT ![a] = "error"]
    /\ results' = IF cancelled THEN results ELSE results \cup {a}
    /\ UNCHANGED <<open, collected, winner, cancelled, done>>

(* dialer.Dial fails, by itself or because raceCtx was cancelled, or a      *)
(* later step fails and the connection is closed.                           *)
ConnectFails(a) ==
    /\ at[a] = "dial"
    /\ at' = [at EXCEPT ![a] = "error"]
    /\ results' = results \cup {a}
    /\ UNCHANGED <<open, collected, winner, cancelled, done>>

(* HELLO_ACK arrives.  ParseFrame takes no context: a cancelled race does   *)
(* not end the wait for it.                                                 *)
HelloAck(a) ==
    /\ at[a] = "hello"
    /\ at' = [at EXCEPT ![a] = "session"]
    /\ results' = results \cup {a}
    /\ UNCHANGED <<open, collected, winner, cancelled, done>>

(* The wait fails and the connection is left open.                          *)
HelloFailsLeaks(a) ==
    /\ at[a] = "hello"
    /\ at' = [at EXCEPT ![a] = "error"]
    /\ results' = results \cup {a}
    /\ UNCHANGED <<open, collected, winner, cancelled, done>>

(* The connection is lost, or the answer is not a HELLO_ACK: conn.Close.    *)
HelloFails(a) ==
    /\ at[a] = "hello"
    /\ at' = [at EXCEPT ![a] = "error"]
    /\ open' = open \ {a}
    /\ results' = results \cup {a}
    /\ UNCHANGED <<collected, winner, cancelled, done>>

-----------------------------------------------------------------------------
(* The collector: r := <-results, once per address.                         *)

(* The first session wins and the race is cancelled.                        *)
Win(a) ==
    /\ ~done
    /\ a \in results
    /\ at[a] = "session"
    /\ winner = None
    /\ winner' = a
    /\ cancelled' = TRUE
    /\ results' = results \ {a}
    /\ collected' = collected \cup {a}
    /\ UNCHANGED <<at, open, done>>

(* A collector that turns sessions away after an error.                     *)
CloseLoserAfterError(a) ==
    /\ ~done
    /\ a \in results
    /\ at[a] = "session"
    /\ winner # None \/ \E b \in collected : at[b] = "error"
    /\ open' = open \ {a}
    /\ results' = results \ {a}
    /\ collected' = collected \cup {a}
    /\ UNCHANGED <<at, winner, cancelled, done>>

(* A later session is closed.                                               *)
CloseLoser(a) ==
    /\ ~done
    /\ a \in results
    /\ at[a] = "session"
    /\ winner # None
    /\ open' = open \ {a}
    /\ results' = results \ {a}
    /\ collected' = collected \cup {a}
    /\ UNCHANGED <<at, winner, cancelled, done>>

(* An error is noted.                                                       *)
TakeError(a) ==
    /\ ~done
    /\ a \in results
    /\ at[a] = "error"
    /\ results' = results \ {a}
    /\ collected' = collected \cup {a}
    /\ UNCHANGED <<at, open, winner, cancelled, done>>

(* All results are in: return the winner, or the first error.  The deferred *)
(* cancel runs in either case.                                              *)
Return ==
    /\ ~done
    /\ collected = Addrs
    /\ done' = TRUE
    /\ cancelled' = TRUE
    /\ UNCHANGED <<at, open, results, collected, winner>>

Next ==
    \/ \E a \in Addrs :
        \/ Connect(a) \/ ConnectFails(a) \/ HelloAck(a) \/ HelloFails(a)
        \/ Win(a) \/ CloseLoser(a) \/ TakeError(a)
    \/ Return

(* The collector runs when it can, and a dial ends, because it has its own  *)
(* timeout.  Nothing makes a relay answer HELLO.                            *)
Collect == Return \/ \E a \in Addrs : Win(a) \/ CloseLoser(a) \/ TakeError(a)

Fairness ==
    /\ WF_vars(Collect)
    /\ \A a \in Addrs : WF_vars(Connect(a) \/ ConnectFails(a))

Spec == Init /\ [][Next]_vars

FairSpec == Spec /\ Fairness

-----------------------------------------------------------------------------
(* Properties.                                                              *)

(* DialAnyHappy leaves exactly what it returns: when it has returned, the   *)
(* winner's connection is the only one open, and without a winner none is.  *)
(* No goroutine is left either.                                             *)
NothingLeaks ==
    done => /\ open = {winner} \ {None}
            /\ results = {}
            /\ \A a \in Addrs : at[a] \in {"session", "error"}

(* An error is returned only if no relay let the agent in.                  *)
FailsOnlyIfAllFail ==
    done /\ winner = None => \A a \in Addrs : at[a] = "error"

(* A claim of a comment that the code does not keep.                        *)

(* DialAnyHappy's comment: it returns the first session that completes      *)
(* HELLO and cancels slower attempts.                                       *)
WinnerIsReturned == winner # None ~> done
=============================================================================
