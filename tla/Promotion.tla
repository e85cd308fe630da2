------------------------------ MODULE Promotion ------------------------------
(***************************************************************************)
(* One attempt to promote a stream to a direct connection: tryPromote      *)
(* (cmd/outrelay-agent/main.go), Session.Promote and the two control       *)
(* readers (pkg/session/promote.go), Promoter.Run and Engine.Check         *)
(* (pkg/p2p), and the candidates the provider advertises (pkg/candidate).  *)
(* The attempt has a budget of seconds; a dial that hangs takes PerPair.   *)
(* The relay may lose the offer or the answer.  What the migration does to *)
(* the stream is in DirectMigration.                                       *)
(***************************************************************************)
EXTENDS Naturals, Sequences

CONSTANTS Interfaces,  \* the provider's interface addresses, [scope, v6]
          Advertise,   \* the provider has --p2p-advertise
          Budget,      \* seconds tryPromote allows for the whole attempt
          PerPair      \* seconds Check allows for one dial

VARIABLES
  shared,   \* the consumer has a SharedTransport
  peer,     \* the provider: [shared |-> BOOLEAN, srflx |-> BOOLEAN]
  pc,       \* where tryPromote's goroutine is
  budget,   \* seconds left of its context
  entry,    \* pendingAnswers has the stream
  box,      \* the answer in the waiter's channel: <<>> or one list
  offer,    \* a CANDIDATE_OFFER is on its way
  answer,   \* a CANDIDATE_ANSWER on its way: <<>> or one list
  punch,    \* the provider's warmupPunch: "no", "due", "sent" or "skipped"
  remotes,  \* Check's sorted candidates
  next,     \* the one it dials
  began,    \* history: the budget when Check began
  conn,     \* the direct connection: "none", "open", "closed"
  unheard   \* history: an answer found no waiter

setup == <<shared, peer>>
mail == <<entry, box, offer, answer, unheard>>
check == <<remotes, next, began>>
pvars == <<setup, pc, budget, mail, punch, check, conn>>

--------------------------------------------------------------------------------
(* Candidates *)

hostPriority(a) ==
  (CASE a.scope = "private" -> 30 [] a.scope = "global" -> 70 [] OTHER -> 50)
    + (IF a.v6 THEN 10 ELSE 0)

Host(a) == [kind |-> "host", priority |-> hostPriority(a)]

Dialable(a) == a.scope \notin {"loopback", "linklocal", "multicast", "unspecified"}

HostCandidates ==
  LET out[n \in 0..Len(Interfaces)] ==
        IF n = 0 THEN <<>>
        ELSE IF Dialable(Interfaces[n]) THEN Append(out[n - 1], Host(Interfaces[n]))
        ELSE out[n - 1]
  IN  out[Len(Interfaces)]

(* What QueryServerReflexive returns, and main's own override. *)
Reflexive == [kind |-> "srflx", priority |-> 20]
Override == [kind |-> "host", priority |-> 100]

(* main: the override, the reflexive candidate if the relay answered the    *)
(* query, the hosts; nothing without a listener on a shared socket.         *)
LocalCandidates ==
  IF ~peer.shared THEN <<>>
  ELSE (IF Advertise THEN <<Override>> ELSE <<>>)
         \o (IF peer.srflx THEN <<Reflexive>> ELSE <<>>) \o HostCandidates

(* The inner loop of Sort: c passes every candidate up to the last one that *)
(* has its priority or a higher one.                                        *)
Insert(sorted, c) ==
  LET p == CHOOSE p \in 0..Len(sorted) :
             /\ p > 0 => sorted[p].priority >= c.priority
             /\ \A i \in (p + 1)..Len(sorted) : sorted[i].priority < c.priority
  IN  SubSeq(sorted, 1, p) \o <<c>> \o SubSeq(sorted, p + 1, Len(sorted))

(* candidate.Sort: stable insertion sort, highest priority first. *)
Sort(cs) ==
  LET sorted[n \in 0..Len(cs)] ==
        IF n = 0 THEN <<>> ELSE Insert(sorted[n - 1], cs[n])
  IN  sorted[Len(cs)]

--------------------------------------------------------------------------------

Init ==
  /\ shared \in BOOLEAN
  /\ peer \in [shared : BOOLEAN, srflx : BOOLEAN]
  /\ pc = "delay" /\ budget = Budget
  /\ entry = FALSE /\ box = <<>>
  /\ offer = FALSE /\ answer = <<>> /\ punch = "no"
  /\ remotes = <<>> /\ next = 1 /\ began = 0
  /\ conn = "none" /\ unheard = FALSE

(* Variant: Promote sends its offer without a waiter. *)
PromoteUnregistered ==
  /\ pc = "delay"
  /\ pc' = "offer"
  /\ UNCHANGED <<setup, budget, mail, punch, check, conn>>

(* After a second's delay: Promote, registerAnswerWaiter. *)
Promote ==
  /\ pc = "delay"
  /\ pc' = "offer"
  /\ entry' = TRUE
  /\ UNCHANGED <<setup, budget, box, offer, answer, punch, check, conn, unheard>>

(* Run: SendOffer, which may fail.  The waiter stays registered. *)
SendOffer ==
  /\ pc = "offer"
  /\ \/ pc' = "wait" /\ offer' = TRUE
     \/ pc' = "ended" /\ UNCHANGED offer
  /\ UNCHANGED <<setup, budget, entry, box, answer, punch, check, conn, unheard>>

(* The relay has not paired the stream yet, or a control stream is lost.    *)
(* External.                                                                *)
Lose ==
  /\ offer \/ answer # <<>>
  /\ offer' = FALSE /\ answer' = <<>>
  /\ UNCHANGED <<setup, pc, budget, entry, box, punch, check, conn, unheard>>

(* The provider's controlReader: AnswerOffer, and the answer is written ... *)
AnswerOffer ==
  /\ offer
  /\ offer' = FALSE
  /\ answer' = <<LocalCandidates>>
  /\ punch' = "due"
  /\ UNCHANGED <<setup, pc, budget, entry, box, check, conn, unheard>>

(* ... before warmupPunch.  Without a shared socket there is nothing to     *)
(* punch from; a consumer without one has offered port 0.                   *)
warmupPunch ==
  /\ punch = "due"
  /\ punch' = IF peer.shared /\ shared THEN "sent" ELSE "skipped"
  /\ UNCHANGED <<setup, pc, budget, mail, check, conn>>

(* The consumer's controlReader. *)
deliverAnswer ==
  /\ answer # <<>>
  /\ answer' = <<>>
  /\ entry' = FALSE
  /\ box' = IF entry THEN answer ELSE box
  /\ unheard' = (unheard \/ ~entry)
  /\ UNCHANGED <<setup, pc, budget, offer, punch, check, conn>>

(* A second passes while RecvAnswer waits. *)
Wait ==
  /\ pc = "wait" /\ budget > 0
  /\ budget' = budget - 1
  /\ UNCHANGED <<setup, pc, mail, punch, check, conn>>

RecvTimeout ==
  /\ pc = "wait" /\ budget = 0
  /\ pc' = "ended"
  /\ UNCHANGED <<setup, budget, mail, punch, check, conn>>

(* RecvAnswer returns, also if the deadline has just passed. *)
RecvAnswer ==
  /\ pc = "wait" /\ box # <<>>
  /\ pc' = "check"
  /\ remotes' = Sort(box[1])
  /\ box' = <<>>
  /\ began' = budget
  /\ UNCHANGED <<setup, budget, entry, offer, answer, punch, next, conn, unheard>>

--------------------------------------------------------------------------------
(* Engine.Check, and what tryPromote does with its connection *)

Dialling == pc = "check" /\ next <= Len(remotes)

(* The loop goes on after a failed dial, unless the context is done. *)
TryNext ==
  IF budget' = 0 THEN pc' = "ended" /\ UNCHANGED next
                 ELSE next' = next + 1 /\ UNCHANGED pc

DialSucceeds ==
  /\ Dialling /\ budget > 0
  /\ pc' = "found" /\ conn' = "open"
  /\ UNCHANGED <<setup, budget, mail, punch, check>>

DialRefused ==
  /\ Dialling
  /\ UNCHANGED budget
  /\ TryNext
  /\ UNCHANGED <<setup, mail, punch, remotes, began, conn>>

(* Variant: a dial that hangs has the whole budget. *)
DialHangsOn ==
  /\ Dialling /\ budget > 0
  /\ budget' = 0
  /\ TryNext
  /\ UNCHANGED <<setup, mail, punch, remotes, began, conn>>

DialTimesOut ==
  /\ Dialling /\ budget > 0
  /\ budget' = IF budget > PerPair THEN budget - PerPair ELSE 0
  /\ TryNext
  /\ UNCHANGED <<setup, mail, punch, remotes, began, conn>>

NoPair ==
  /\ pc = "check" /\ next > Len(remotes)
  /\ pc' = "ended"
  /\ UNCHANGED <<setup, budget, mail, punch, check, conn>>

(* Run tells the relay, whether or not that works, and returns. *)
SendMigrate ==
  /\ pc = "found"
  /\ pc' = "migrate"
  /\ UNCHANGED <<setup, budget, mail, punch, check, conn>>

MigrateToDirect ==
  /\ pc = "migrate"
  /\ pc' = "migrated"
  /\ UNCHANGED <<setup, budget, mail, punch, check, conn>>

(* Variant: the connection of a migration that failed stays open. *)
MigrateFailsOpen ==
  /\ pc = "migrate"
  /\ pc' = "ended"
  /\ UNCHANGED <<setup, budget, mail, punch, check, conn>>

MigrateFails ==
  /\ pc = "migrate"
  /\ pc' = "ended" /\ conn' = "closed"
  /\ UNCHANGED <<setup, budget, mail, punch, check>>

(* tryPromote's goroutine; each of its waits has an end. *)
Attempt ==
  \/ Promote \/ SendOffer \/ Wait \/ RecvTimeout \/ RecvAnswer
  \/ DialSucceeds \/ DialRefused \/ DialTimesOut \/ NoPair
  \/ SendMigrate \/ MigrateToDirect \/ MigrateFails

Next == Attempt \/ Lose \/ AnswerOffer \/ warmupPunch \/ deliverAnswer

--------------------------------------------------------------------------------
(* Properties *)

(* An answer never comes before Promote has registered a waiter for it,     *)
(* however late Promote's own goroutine runs.                               *)
AnswerFindsWaiter == ~unheard

(* An attempt ends on the direct path, or with no connection left open.     *)
AttemptSettles ==
  pc = "offer" ~> pc = "migrated" \/ (pc = "ended" /\ conn # "open")

(* Check gives up only after it has dialled every candidate, or after so    *)
(* many that, at PerPair seconds each, they can have used up its time.  And *)
(* it dials them in the order that the comments on the override (highest    *)
(* priority) and on the reflexive candidate (direct links are tried first)  *)
(* ask for: whatever order main appended them in, the one comes first and   *)
(* the other last.                                                          *)
CheckIsThorough ==
  /\ pc = "ended" /\ remotes # <<>> /\ conn = "none" =>
       next > Len(remotes) \/ next * PerPair >= began
  /\ \A i \in DOMAIN remotes :
       /\ remotes[i] = Override => i = 1
       /\ remotes[i].kind = "srflx" => i = Len(remotes)

--------------------------------------------------------------------------------
(* Claims of comments that the code does not keep *)

(* controlReader's comment: by the time the initiator dials, the            *)
(* responder's NAT must have its entry.  The answer is sent before the      *)
(* punch.                                                                   *)
PunchedBeforeDial ==
  Dialling /\ remotes[next].kind = "srflx" => punch # "due"

(* Check's comment: the caller closes the connection when the stream        *)
(* terminates.  tryPromote, its only caller, has forgotten it by then.      *)
ConnectionIsClosed == conn = "open" ~> conn = "closed"

(* hostPriority's comment: global before private before everything else.    *)
PrivateBeforeTheRest ==
  \A v6 \in BOOLEAN : hostPriority([scope |-> "private", v6 |-> v6])
                        > hostPriority([scope |-> "other", v6 |-> v6])

================================================================================
