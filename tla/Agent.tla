------------------------------- MODULE Agent -------------------------------
(***************************************************************************)
(* A consumer agent's way to a direct connection, as main                  *)
(* (cmd/outrelay-agent/main.go) puts it together: the race of HappyDial    *)
(* over QUIC, a second one over TCP if that fails and --relay-tcp is set,  *)
(* and, once there is a session, the Promotion of a stream.  Only an agent *)
(* that came up over QUIC with --p2p-listen keeps its shared UDP socket.   *)
(***************************************************************************)
EXTENDS HappyDial, Sequences

CONSTANTS Interfaces, Advertise, Budget, PerPair  \* as in Promotion

VARIABLES
    listen,     \* --p2p-listen is set
    relayTCP,   \* --relay-tcp is set
    transport,  \* what DialAnyHappy dials with
    stage,      \* "dial", "up" or "exit"
    shared, peer, pc, budget, entry, box, offer, answer, punch, remotes,
    next, began, conn, unheard  \* as in Promotion

P == INSTANCE Promotion

ASSUME PromotionAssumption ==
    /\ Interfaces \in Seq([scope : STRING, v6 : BOOLEAN])
    /\ Advertise \in BOOLEAN
    /\ Budget \in Nat /\ PerPair \in Nat

start == <<listen, relayTCP, transport, stage>>
mail == <<entry, box, offer, answer, unheard>>
promotion == <<shared, peer, pc, budget, mail, punch, remotes, next, began, conn>>
avars == <<vars, start, promotion>>

AgentInit ==
    /\ Init
    /\ listen \in BOOLEAN
    /\ relayTCP \in BOOLEAN
    /\ transport = "quic"
    /\ stage = "dial"
    /\ P!Init
    /\ shared = listen

Race == stage = "dial" /\ Next /\ UNCHANGED <<start, promotion>>

(* No relay over QUIC: close the shared socket and race the TCP endpoints.  *)
Fallback ==
    /\ stage = "dial" /\ done /\ winner = None
    /\ transport = "quic" /\ relayTCP
    /\ transport' = "tcp"
    /\ shared' = FALSE
    /\ at' = [a \in Addrs |-> "dial"]
    /\ cancelled' = FALSE
    /\ done' = FALSE
    /\ collected' = {}
    /\ UNCHANGED <<open, results, winner, listen, relayTCP, stage, peer, pc,
                   budget, mail, punch, remotes, next, began, conn>>

(* os.Exit(1)                                                               *)
Exit ==
    /\ stage = "dial" /\ done /\ winner = None
    /\ transport = "tcp" \/ ~relayTCP
    /\ stage' = "exit"
    /\ UNCHANGED <<vars, listen, relayTCP, transport, promotion>>

ComeUp ==
    /\ stage = "dial" /\ done /\ winner # None
    /\ stage' = "up"
    /\ UNCHANGED <<vars, listen, relayTCP, transport, promotion>>

TryPromote == stage = "up" /\ P!Next /\ UNCHANGED <<vars, start>>

AgentNext == Race \/ Fallback \/ Exit \/ ComeUp \/ TryPromote

(* The race is as fair as in HappyDial.  main goes on when it is over, and  *)
(* the goroutine of tryPromote has a deadline for each of its waits.        *)
AgentFairness ==
    /\ WF_avars(stage = "dial" /\ Collect /\ UNCHANGED <<start, promotion>>)
    /\ \A a \in Addrs :
         WF_avars(/\ stage = "dial" /\ (Connect(a) \/ ConnectFails(a))
                  /\ UNCHANGED <<start, promotion>>)
    /\ WF_avars(Fallback \/ Exit \/ ComeUp)
    /\ WF_avars(stage = "up" /\ P!Attempt /\ UNCHANGED <<vars, start>>)

AgentSpec == AgentInit /\ [][AgentNext]_avars /\ AgentFairness

-----------------------------------------------------------------------------
(* Properties.                                                              *)

(* The agent exits only if no relay let it in, over QUIC and, if it may     *)
(* fall back, over TCP.                                                     *)
ExitsOnlyIfAllFail ==
    stage = "exit" => /\ \A a \in Addrs : at[a] = "error"
                      /\ relayTCP => transport = "tcp"

(* main gets past the dial, provided each relay that accepts a connection   *)
(* answers HELLO or breaks it off.                                          *)
StartsOrExits ==
    (\A a \in Addrs : []<>(at[a] # "hello")) => <>(stage # "dial")

(* Of Promotion: an answer finds the waiter Promote registered for it.      *)
AnswerFindsWaiter == P!AnswerFindsWaiter

(* Of Promotion: an attempt ends on the direct path or closes what it       *)
(* opened.                                                                  *)
AttemptSettles == P!AttemptSettles

(* Of Promotion: Check tries every candidate it has time for, in the order  *)
(* of their priorities.                                                     *)
CheckIsThorough == P!CheckIsThorough
=============================================================================
