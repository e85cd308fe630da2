---------------------------- MODULE AgentProofs ----------------------------
(***************************************************************************)
(* Proofs about the race for a relay (HappyDial) and about what main does  *)
(* with its outcome (Agent), for any finite set of relay addresses; about  *)
(* candidate.Sort; and about the order and the time in which Engine.Check  *)
(* dials what the provider advertises (Promotion).                         *)
(***************************************************************************)
EXTENDS Agent, SequenceTheorems, WellFoundedInduction, TLAPS

(* Where a session is: a goroutine that has ended has its result in the     *)
(* channel or with the collector, never in both, and one that has not is in *)
(* neither.                                                                 *)
ResultsInv ==
    /\ results \cap collected = {}
    /\ \A a \in Addrs :
        a \in results \cup collected <=> at[a] \in {"session", "error"}

(* Which connections are open: those on which HELLO is unanswered, those    *)
(* whose session is in the channel, and the winner's.                       *)
OpenInv ==
    \A a \in Addrs :
        a \in open <=> \/ at[a] = "hello"
                       \/ at[a] = "session" /\ (a \in results \/ a = winner)

(* The first session the collector takes is the winner.                     *)
WinnerInv ==
    /\ winner # None => winner \in collected /\ at[winner] = "session"
    /\ winner = None => \A a \in collected : at[a] = "error"

DialInv ==
    /\ TypeOK
    /\ ResultsInv
    /\ OpenInv
    /\ WinnerInv
    /\ done => collected = Addrs

LEMMA DialInit == Init => DialInv
BY AddrsAssumption DEF Init, DialInv, TypeOK, ResultsInv, OpenInv, WinnerInv

(* Each step of a dialing goroutine and of the collector keeps it.          *)
LEMMA DialStep == DialInv /\ Next => DialInv'
<1> SUFFICES ASSUME DialInv, Next PROVE DialInv'
  OBVIOUS
<1> USE AddrsAssumption DEF DialInv, TypeOK, ResultsInv, OpenInv, WinnerInv
<1>1. ASSUME NEW a \in Addrs, Connect(a) PROVE DialInv'
  BY <1>1 DEF Connect
<1>2. ASSUME NEW a \in Addrs, ConnectFails(a) PROVE DialInv'
  BY <1>2 DEF ConnectFails
<1>3. ASSUME NEW a \in Addrs, HelloAck(a) PROVE DialInv'
  BY <1>3 DEF HelloAck
<1>4. ASSUME NEW a \in Addrs, HelloFails(a) PROVE DialInv'
  BY <1>4 DEF HelloFails
<1>5. ASSUME NEW a \in Addrs, Win(a) PROVE DialInv'
  BY <1>5 DEF Win
<1>6. ASSUME NEW a \in Addrs, CloseLoser(a) PROVE DialInv'
  BY <1>6 DEF CloseLoser
<1>7. ASSUME NEW a \in Addrs, TakeError(a) PROVE DialInv'
  BY <1>7 DEF TakeError
<1>8. ASSUME Return PROVE DialInv'
  BY <1>8 DEF Return
<1>9. QED
  BY <1>1, <1>2, <1>3, <1>4, <1>5, <1>6, <1>7, <1>8 DEF Next

LEMMA DialSafe == DialInv => NothingLeaks /\ FailsOnlyIfAllFail
BY AddrsAssumption
   DEF DialInv, TypeOK, ResultsInv, OpenInv, WinnerInv, NothingLeaks,
       FailsOnlyIfAllFail

(* The invariant of main: it leaves the dial with what the last race gave.  *)
StageInv ==
    /\ DialInv
    /\ stage = "exit" => /\ done /\ winner = None
                         /\ relayTCP => transport = "tcp"
    /\ stage = "up" => done /\ winner # None

(* Every step of main keeps the invariant of the race and its own.          *)
LEMMA StageStep == StageInv /\ [AgentNext]_avars => StageInv'
<1> SUFFICES ASSUME StageInv, [AgentNext]_avars PROVE StageInv'
  OBVIOUS
<1>1. CASE Race
  <2>1. DialInv'
    BY <1>1, DialStep DEF StageInv, Race
  <2>2. QED
    BY <1>1, <2>1 DEF StageInv, Race, start
<1>2. CASE Fallback
  <2>1. open = {} /\ results = {}
    BY <1>2, DialSafe DEF StageInv, Fallback, NothingLeaks
  <2>2. TypeOK'
    BY <1>2 DEF StageInv, Fallback, DialInv, TypeOK
  <2>3. ResultsInv' /\ OpenInv' /\ WinnerInv'
    BY <1>2, <2>1 DEF Fallback, ResultsInv, OpenInv, WinnerInv
  <2>4. QED
    BY <1>2, <2>2, <2>3 DEF StageInv, Fallback, DialInv
<1>3. ASSUME UNCHANGED vars PROVE DialInv'
  BY <1>3 DEF StageInv, vars, DialInv, TypeOK, ResultsInv, OpenInv, WinnerInv
<1>4. CASE Exit
  BY <1>3, <1>4 DEF StageInv, Exit, vars
<1>5. CASE ComeUp
  BY <1>3, <1>5 DEF StageInv, ComeUp, vars
<1>6. CASE TryPromote
  BY <1>3, <1>6 DEF StageInv, TryPromote, vars, start
<1>7. CASE UNCHANGED avars
  BY <1>3, <1>7 DEF StageInv, avars, vars, start
<1>8. QED
  BY <1>1, <1>2, <1>4, <1>5, <1>6, <1>7 DEF AgentNext

LEMMA AgentInvariant == AgentSpec => []StageInv
<1>1. AgentInit => StageInv
  BY DialInit DEF AgentInit, StageInv
<1>2. QED
  BY <1>1, StageStep, PTL DEF AgentSpec

(* DialAnyHappy leaves nothing behind: in every agent, whatever relays      *)
(* answer, refuse or fail, and over both transports.                        *)
THEOREM DialLeavesNothing == AgentSpec => []NothingLeaks
<1>1. StageInv => NothingLeaks
  BY DialSafe DEF StageInv
<1>2. QED
  BY <1>1, AgentInvariant, PTL

(* main exits only if every relay of the last race, the TCP one if there    *)
(* is a fallback, turned the agent away.                                    *)
THEOREM ExitIsLastResort == AgentSpec => []ExitsOnlyIfAllFail
<1>1. StageInv => ExitsOnlyIfAllFail
  BY DialSafe DEF StageInv, ExitsOnlyIfAllFail, FailsOnlyIfAllFail
<1>2. QED
  BY <1>1, AgentInvariant, PTL
-----------------------------------------------------------------------------
(* The promotion of a stream.                                               *)

(* Where the offer and its answer are: nowhere before SendOffer; then one   *)
(* of them is on its way at most, and as long as it is the waiter that      *)
(* Promote registered is in pendingAnswers.  A timeout leaves it there.     *)
MailInv ==
    /\ entry \in BOOLEAN /\ offer \in BOOLEAN
    /\ pc \in {"delay", "offer"} => ~offer /\ answer = <<>>
    /\ pc = "offer" => entry
    /\ offer => entry /\ answer = <<>>
    /\ answer # <<>> => entry
    /\ ~unheard

LEMMA MailInit == P!Init => MailInv
BY Zenon DEF P!Init, MailInv

(* Steps of the attempt, of the relay and of the two control readers.       *)
LEMMA MailStep == ASSUME MailInv, P!Next PROVE MailInv'
<1> USE DEF MailInv
<1>1. CASE P!Promote
  BY <1>1 DEF P!Promote, P!setup, P!check
<1>2. CASE P!SendOffer
  BY <1>2 DEF P!SendOffer
<1>3. CASE P!Lose
  BY <1>3 DEF P!Lose
<1>4. CASE P!AnswerOffer
  BY <1>4 DEF P!AnswerOffer
<1>5. CASE P!deliverAnswer
  BY <1>5 DEF P!deliverAnswer
<1>6. CASE P!warmupPunch
  BY <1>6 DEF P!warmupPunch, P!mail
<1>7. CASE P!Wait \/ P!RecvTimeout
  BY <1>7 DEF P!Wait, P!RecvTimeout, P!mail
<1>8. CASE P!RecvAnswer
  BY <1>8 DEF P!RecvAnswer
<1>9. CASE P!DialSucceeds \/ P!DialRefused \/ P!DialTimesOut \/ P!NoPair
  BY <1>9 DEF P!DialSucceeds, P!DialRefused, P!DialTimesOut, P!NoPair,
              P!Dialling, P!TryNext, P!mail
<1>10. CASE P!SendMigrate \/ P!MigrateToDirect \/ P!MigrateFails
  BY <1>10 DEF P!SendMigrate, P!MigrateToDirect, P!MigrateFails, P!mail
<1>11. QED
  BY <1>1, <1>2, <1>3, <1>4, <1>5, <1>6, <1>7, <1>8, <1>9, <1>10, Zenon
  DEF P!Next, P!Attempt

(* An answer finds the waiter that Promote registered before it sent the    *)
(* offer, whatever is lost on the way and however late it comes.            *)
THEOREM WaiterIsThere == AgentSpec => []AnswerFindsWaiter
<1>1. AgentInit => MailInv
  BY MailInit DEF AgentInit
<1>2. ASSUME MailInv, [AgentNext]_avars PROVE MailInv'
  <2>1. CASE TryPromote
    BY <1>2, <2>1, MailStep DEF TryPromote
  <2>2. CASE Race \/ Fallback \/ Exit \/ ComeUp \/ UNCHANGED avars
    <3>1. UNCHANGED <<entry, offer, answer, unheard, pc>>
      BY <2>2, Zenon
      DEF Race, Fallback, Exit, ComeUp, avars, promotion, mail
    <3>2. QED
      BY <1>2, <3>1 DEF MailInv
  <2>3. QED
    BY <1>2, <2>1, <2>2, Zenon DEF AgentNext
<1>3. MailInv => AnswerFindsWaiter
  BY DEF MailInv, AnswerFindsWaiter, P!AnswerFindsWaiter
<1>4. QED
  BY <1>1, <1>2, <1>3, PTL DEF AgentSpec

-----------------------------------------------------------------------------
(* Loops over a sequence: recursive functions of the index.                 *)

(* The least number with a property, the form of induction used below.      *)
LEMMA LeastNumber ==
    ASSUME NEW S \in SUBSET Nat, S # {}
    PROVE  \E m \in S : \A n \in S : m <= n
<1>1. PICK m \in S : \A n \in S : ~(<<n, m>> \in OpToRel(<, Nat))
  BY NatLessThanWellFounded, WFMin
<1>2. \A n \in S : ~(n < m)
  BY <1>1 DEF OpToRel
<1>3. QED
  BY <1>2

(* Induction up to n, over the set of the numbers with a property.          *)
LEMMA Induction ==
    ASSUME NEW n \in Nat, NEW S, 0 \in S,
           \A m \in 0..(n - 1) : m \in S => m + 1 \in S
    PROVE  \A m \in 0..n : m \in S
<1> SUFFICES ASSUME {m \in 0..n : m \notin S} # {} PROVE FALSE
  OBVIOUS
<1> DEFINE B == {m \in 0..n : m \notin S}
<1>1. B \in SUBSET Nat /\ B # {}
  OBVIOUS
<1>2. PICK m \in B : \A k \in B : m <= k
  BY <1>1, LeastNumber
<1>3. m # 0 /\ m - 1 \in 0..(n - 1) /\ m - 1 \notin B
  BY <1>2
<1>4. m - 1 \in S
  BY <1>3
<1>5. (m - 1) + 1 \in S
  BY <1>3, <1>4
<1>6. QED
  BY <1>2, <1>5

(* The body of a loop over 1..n that keeps its state in V, and a run of the *)
(* loop from v: what the state is before the first turn and after each.     *)
LoopBody(n, V, G) == G \in [(1..n) \X V -> V]
LoopRun(n, V, v, G, g) ==
    /\ g \in [0..n -> V]
    /\ g[0] = v
    /\ \A m \in 1..n : g[m] = G[<<m, g[m - 1]>>]

(* A loop of n steps has a run.                                             *)
LEMMA LoopRuns ==
    ASSUME NEW n \in Nat, NEW V, NEW v \in V, NEW G, LoopBody(n, V, G)
    PROVE  \E g : LoopRun(n, V, v, G, g)
<1> USE DEF LoopBody
<1> DEFINE Runs(m) == {g \in [0..m -> V] :
                         /\ g[0] = v
                         /\ \A i \in 1..m : g[i] = G[<<i, g[i - 1]>>]}
           S == {m \in 0..n : Runs(m) # {}}
<1>1. 0 \in S
  <2>1. [i \in 0..0 |-> v] \in Runs(0)
    OBVIOUS
  <2> HIDE DEF Runs
  <2>2. QED
    BY <2>1
<1>2. ASSUME NEW m \in 0..(n - 1), m \in S PROVE m + 1 \in S
  <2>1. PICK g \in [0..m -> V] : g \in Runs(m)
    BY <1>2
  <2>2. g[m] \in V /\ <<m + 1, g[m]>> \in (1..n) \X V
    OBVIOUS
  <2>3. PICK x \in V : x = G[<<m + 1, g[m]>>]
    BY <2>2
  <2> DEFINE h == [i \in 0..(m + 1) |-> IF i <= m THEN g[i] ELSE x]
  <2>4. h \in [0..(m + 1) -> V] /\ h[0] = v
    BY <2>1
  <2>5. ASSUME NEW i \in 1..(m + 1) PROVE h[i] = G[<<i, h[i - 1]>>]
    <3>1. CASE i <= m
      <4>1. h[i] = g[i] /\ h[i - 1] = g[i - 1] /\ i \in 1..m
        BY <3>1
      <4>2. QED
        BY <2>1, <4>1
    <3>2. CASE i = m + 1
      <4>1. h[i] = x /\ h[i - 1] = g[m]
        BY <3>2
      <4>2. QED
        BY <2>3, <3>2, <4>1
    <3>3. QED
      BY <3>1, <3>2
  <2> HIDE DEF h
  <2>6. h \in Runs(m + 1)
    BY <2>4, <2>5
  <2> HIDE DEF Runs
  <2>7. QED
    BY <2>6
<1>3. n \in S
  <2> HIDE DEF S
  <2>1. QED
    BY <1>1, <1>2, Induction
<1>4. PICK g : g \in Runs(n)
  BY <1>3
<1>5. LoopRun(n, V, v, G, g)
  BY <1>4 DEF LoopRun
<1>6. QED
  BY <1>5

-----------------------------------------------------------------------------
(* candidate.Sort.                                                          *)

Candidates == [kind : {"host", "srflx"}, priority : Nat]

(* s with c behind the first p.                                             *)
InsertAt(s, p, c) == SubSeq(s, 1, p) \o <<c>> \o SubSeq(s, p + 1, Len(s))

(* Where Insert puts a candidate: behind the last one it may not pass.      *)
LEMMA InsertPlace ==
    ASSUME NEW s \in Seq(Candidates), NEW c \in Candidates
    PROVE  \E p \in 0..Len(s) :
             /\ P!Insert(s, c) = InsertAt(s, p, c)
             /\ p > 0 => s[p].priority >= c.priority
             /\ \A i \in (p + 1)..Len(s) : s[i].priority < c.priority
<1> DEFINE Ends(p) ==
             /\ p > 0 => s[p].priority >= c.priority
             /\ \A i \in (p + 1)..Len(s) : s[i].priority < c.priority
           p == CHOOSE p \in 0..Len(s) : Ends(p)
           A == {0} \cup {i \in 1..Len(s) : s[i].priority >= c.priority}
           T == {Len(s) - i : i \in A}
<1>1. A \in SUBSET (0..Len(s)) /\ Len(s) \in Nat /\ 0 \in A
  OBVIOUS
<1>2. \A i \in 1..Len(s) : s[i].priority \in Nat /\ c.priority \in Nat
  <2>1. \A d \in Candidates : d.priority \in Nat
    BY DEF Candidates
  <2>2. \A i \in 1..Len(s) : s[i] \in Candidates
    OBVIOUS
  <2>3. QED
    BY <2>1, <2>2, Zenon
<1>3. \A i \in (1..Len(s)) \ A : s[i].priority < c.priority
  BY <1>2
<1>4. \A i \in A : i # 0 => s[i].priority >= c.priority
  OBVIOUS
<1> HIDE DEF A
<1>5. \E m \in A : \A i \in A : m >= i
  <2>1. \A i \in A : Len(s) - i \in Nat
    BY <1>1
  <2>2. T \in SUBSET Nat /\ T # {}
    BY <1>1, <2>1
  <2>3. PICK t \in T : \A u \in T : t <= u
    BY <2>2, LeastNumber
  <2>4. PICK m \in A : t = Len(s) - m
    BY <2>3
  <2>5. ASSUME NEW i \in A PROVE m >= i
    <3>1. Len(s) - m <= Len(s) - i
      BY <2>3, <2>4
    <3>2. QED
      BY <1>1, <3>1
  <2>6. QED
    BY <2>5
<1>6. PICK m \in A : \A i \in A : m >= i
  BY <1>5
<1>7. m \in 0..Len(s) /\ Ends(m)
  <2>1. m \in 0..Len(s)
    BY <1>1
  <2>2. ASSUME NEW i \in (m + 1)..Len(s) PROVE s[i].priority < c.priority
    <3>1. i \in 1..Len(s) /\ i \notin A
      BY <1>1, <1>6, <2>1
    <3>2. QED
      BY <1>3, <3>1
  <2>3. m > 0 => s[m].priority >= c.priority
    BY <1>4, <2>1
  <2>4. QED
    BY <2>1, <2>2, <2>3
<1>8. P!Insert(s, c) = InsertAt(s, p, c)
  BY Zenon DEF P!Insert, InsertAt
<1>9. p \in 0..Len(s) /\ Ends(p)
  <2> HIDE DEF Ends
  <2>1. QED
    BY <1>7, Zenon
<1> HIDE DEF p
<1>10. QED
  BY <1>8, <1>9

(* t is s, of length k, with x put in behind the first p.                   *)
PutIn(k, p, s, x, t) ==
    \A i \in 1..(k + 1) :
        t[i] = IF i <= p THEN s[i] ELSE IF i = p + 1 THEN x ELSE s[i - 1]

(* Where an element of t comes from.                                        *)
LEMMA PutCases ==
    ASSUME NEW k \in Nat, NEW p \in 0..k, NEW s, NEW x, NEW t,
           PutIn(k, p, s, x, t), NEW i \in 1..(k + 1)
    PROVE  \/ i \in 1..p /\ i \in 1..k /\ t[i] = s[i]
           \/ i = p + 1 /\ t[i] = x
           \/ i > p + 1 /\ i - 1 \in (p + 1)..k /\ i - 1 \in 1..k /\ t[i] = s[i - 1]
<1>1. CASE i <= p
  BY <1>1 DEF PutIn
<1>2. CASE i = p + 1
  BY <1>2 DEF PutIn
<1>3. CASE i > p + 1
  BY <1>3 DEF PutIn
<1>4. QED
  BY <1>1, <1>2, <1>3

(* InsertAt puts c in.                                                      *)
LEMMA InsertAtPlace ==
    ASSUME NEW T, NEW s \in Seq(T), NEW c \in T, NEW p \in 0..Len(s)
    PROVE  /\ InsertAt(s, p, c) \in Seq(T)
           /\ Len(InsertAt(s, p, c)) = Len(s) + 1
           /\ PutIn(Len(s), p, s, c, InsertAt(s, p, c))
<1> DEFINE a == SubSeq(s, 1, p)
           b == SubSeq(s, p + 1, Len(s))
           d == a \o <<c>>
<1>1. InsertAt(s, p, c) = d \o b
  BY Zenon DEF InsertAt
<1>2. /\ a \in Seq(T) /\ Len(a) = p
      /\ \A i \in 1..p : a[i] = s[i]
  BY SubSeqProperties
<1>3. /\ b \in Seq(T) /\ Len(b) = Len(s) - p
      /\ \A i \in 1..(Len(s) - p) : b[i] = s[p + i]
  OBVIOUS
<1> HIDE DEF a, b
<1>4. /\ d \in Seq(T) /\ Len(d) = p + 1
      /\ \A i \in 1..p : d[i] = s[i]
      /\ d[p + 1] = c
  BY <1>2
<1> HIDE DEF d
<1>5. /\ d \o b \in Seq(T) /\ Len(d \o b) = Len(s) + 1
      /\ \A i \in 1..(p + 1) : (d \o b)[i] = d[i]
      /\ \A i \in (p + 2)..(Len(s) + 1) : (d \o b)[i] = b[i - (p + 1)]
  BY <1>3, <1>4, ConcatProperties
<1>6. ASSUME NEW i \in 1..(Len(s) + 1)
      PROVE  (d \o b)[i] = IF i <= p THEN s[i] ELSE IF i = p + 1 THEN c ELSE s[i - 1]
  <2>1. CASE i <= p
    BY <1>4, <1>5, <2>1
  <2>2. CASE i = p + 1
    BY <1>4, <1>5, <2>2
  <2>3. CASE i > p + 1
    <3>1. /\ i \in (p + 2)..(Len(s) + 1)
          /\ i - (p + 1) \in 1..(Len(s) - p)
          /\ p + (i - (p + 1)) = i - 1
      BY <2>3
    <3>2. (d \o b)[i] = s[i - 1]
      BY <1>3, <1>5, <3>1
    <3>3. QED
      BY <2>3, <3>2
  <2>4. i <= p \/ i = p + 1 \/ i > p + 1
    OBVIOUS
  <2>5. QED
    BY <2>1, <2>2, <2>3, <2>4, Zenon
<1>7. PutIn(Len(s), p, s, c, d \o b)
  BY <1>6 DEF PutIn
<1>8. QED
  BY <1>1, <1>5, <1>7

(* Priorities f that never rise, and places q that rise where they are      *)
(* equal.                                                                   *)
Ordered(k, f, q) ==
    \A i, j \in 1..k : i < j => f[i] > f[j] \/ (f[i] = f[j] /\ q[i] < q[j])

(* The place for x: behind the last that is not lower.                      *)
Behind(k, p, f, x) ==
    /\ p > 0 => f[p] >= x
    /\ \A i \in (p + 1)..k : f[i] < x

(* A newcomer, with the highest place so far, put in there keeps the order. *)
LEMMA PutKeepsOrder ==
    ASSUME NEW k \in Nat, NEW p \in 0..k,
           NEW f, NEW g, NEW q, NEW r, NEW x \in Nat,
           \A i \in 1..k : f[i] \in Nat /\ q[i] \in 1..k,
           Ordered(k, f, q), Behind(k, p, f, x),
           PutIn(k, p, f, x, g), PutIn(k, p, q, k + 1, r)
    PROVE  Ordered(k + 1, g, r)
<1>1. ASSUME NEW i \in 1..p PROVE f[i] >= x
  <2>1. i \in 1..k /\ p \in 1..k /\ f[p] >= x
    BY DEF Behind
  <2>2. CASE i < p
    BY <2>1, <2>2 DEF Ordered
  <2>3. CASE i = p
    BY <2>1, <2>3
  <2>4. QED
    BY <2>2, <2>3
<1>2. ASSUME NEW i \in (p + 1)..k PROVE f[i] < x
  BY DEF Behind
<1>3. ASSUME NEW i \in 1..k, NEW j \in 1..k, i < j
      PROVE  f[i] > f[j] \/ (f[i] = f[j] /\ q[i] < q[j])
  BY <1>3 DEF Ordered
<1>4. ASSUME NEW i \in 1..(k + 1)
      PROVE  \/ i \in 1..p /\ i \in 1..k /\ g[i] = f[i] /\ r[i] = q[i]
             \/ i = p + 1 /\ g[i] = x /\ r[i] = k + 1
             \/ /\ i > p + 1 /\ i - 1 \in (p + 1)..k /\ i - 1 \in 1..k
                /\ g[i] = f[i - 1] /\ r[i] = q[i - 1]
  <2>1. \/ i \in 1..p /\ i \in 1..k /\ g[i] = f[i]
        \/ i = p + 1 /\ g[i] = x
        \/ i > p + 1 /\ i - 1 \in (p + 1)..k /\ i - 1 \in 1..k /\ g[i] = f[i - 1]
    BY PutCases
  <2>2. \/ i \in 1..p /\ i \in 1..k /\ r[i] = q[i]
        \/ i = p + 1 /\ r[i] = k + 1
        \/ i > p + 1 /\ i - 1 \in (p + 1)..k /\ i - 1 \in 1..k /\ r[i] = q[i - 1]
    BY PutCases
  <2>3. QED
    BY <2>1, <2>2
<1>5. ASSUME NEW i \in 1..(k + 1), NEW j \in 1..(k + 1), i < j
      PROVE  g[i] > g[j] \/ (g[i] = g[j] /\ r[i] < r[j])
  <2>1. CASE i \in 1..p /\ j \in 1..p
    BY <1>3, <1>4, <1>5, <2>1
  <2>2. CASE i \in 1..p /\ j = p + 1
    <3>1. g[i] = f[i] /\ r[i] = q[i] /\ g[j] = x /\ r[j] = k + 1 /\ i \in 1..k
      BY <1>4, <2>2
    <3>2. f[i] >= x /\ f[i] \in Nat /\ q[i] \in 1..k
      BY <1>1, <2>2, <3>1
    <3>3. QED
      BY <3>1, <3>2
  <2>3. CASE i \in 1..p /\ j > p + 1
    <3>1. /\ g[i] = f[i] /\ r[i] = q[i] /\ i \in 1..k
          /\ g[j] = f[j - 1] /\ r[j] = q[j - 1] /\ j - 1 \in 1..k /\ i < j - 1
      BY <1>4, <2>3
    <3>2. QED
      BY <1>3, <3>1
  <2>4. CASE i = p + 1 /\ j > p + 1
    <3>1. g[i] = x /\ g[j] = f[j - 1] /\ j - 1 \in (p + 1)..k /\ j - 1 \in 1..k
      BY <1>4, <2>4
    <3>2. f[j - 1] < x /\ f[j - 1] \in Nat
      BY <1>2, <3>1
    <3>3. QED
      BY <3>1, <3>2
  <2>5. CASE i > p + 1 /\ j > p + 1
    <3>1. /\ g[i] = f[i - 1] /\ r[i] = q[i - 1] /\ i - 1 \in 1..k
          /\ g[j] = f[j - 1] /\ r[j] = q[j - 1] /\ j - 1 \in 1..k /\ i - 1 < j - 1
      BY <1>4, <1>5, <2>5
    <3>2. QED
      BY <1>3, <3>1
  <2>6. QED
    BY <1>5, <2>1, <2>2, <2>3, <2>4, <2>5
<1>6. QED
  BY <1>5 DEF Ordered

(* s holds the first k candidates of cs, each of them once, highest         *)
(* priority first and those of one priority in the order they have in cs.   *)
Sorted(cs, k, s) ==
    \E q :
        /\ \A i \in 1..k : q[i] \in 1..k /\ s[i] = cs[q[i]]
        /\ \A i, j \in 1..k : i # j => q[i] # q[j]
        /\ Ordered(k, [i \in 1..k |-> s[i].priority], q)

(* One turn of the outer loop of Sort.                                      *)
LEMMA InsertSorts ==
    ASSUME NEW cs \in Seq(Candidates), NEW k \in 0..(Len(cs) - 1),
           NEW s \in Seq(Candidates), Len(s) = k, Sorted(cs, k, s)
    PROVE  /\ P!Insert(s, cs[k + 1]) \in Seq(Candidates)
           /\ Len(P!Insert(s, cs[k + 1])) = k + 1
           /\ Sorted(cs, k + 1, P!Insert(s, cs[k + 1]))
<1> DEFINE c == cs[k + 1]
           t == P!Insert(s, c)
<1>1. c \in Candidates /\ k \in Nat
  OBVIOUS
<1>2. PICK p \in 0..Len(s) :
        /\ t = InsertAt(s, p, c)
        /\ p > 0 => s[p].priority >= c.priority
        /\ \A i \in (p + 1)..Len(s) : s[i].priority < c.priority
  BY <1>1, InsertPlace
<1> HIDE DEF t, c
<1>3. /\ t \in Seq(Candidates)
      /\ Len(t) = k + 1
      /\ PutIn(k, p, s, c, t)
  <2>1. /\ InsertAt(s, p, c) \in Seq(Candidates)
        /\ Len(InsertAt(s, p, c)) = Len(s) + 1
        /\ PutIn(Len(s), p, s, c, InsertAt(s, p, c))
    BY <1>1, InsertAtPlace, Zenon
  <2>2. QED
    BY <1>2, <2>1, Zenon
<1>4. PICK q :
        /\ \A i \in 1..k : q[i] \in 1..k /\ s[i] = cs[q[i]]
        /\ \A i, j \in 1..k : i # j => q[i] # q[j]
        /\ Ordered(k, [i \in 1..k |-> s[i].priority], q)
  BY Zenon DEF Sorted
<1> DEFINE r == [i \in 1..(k + 1) |->
                   IF i <= p THEN q[i] ELSE IF i = p + 1 THEN k + 1 ELSE q[i - 1]]
           f == [i \in 1..k |-> s[i].priority]
           g == [i \in 1..(k + 1) |-> t[i].priority]
           x == c.priority
<1>5. p \in 0..k
  OBVIOUS
<1>6. PutIn(k, p, q, k + 1, r)
  BY DEF PutIn
<1>7. x \in Nat /\ \A i \in 1..k : f[i] \in Nat
  <2>1. \A d \in Candidates : d.priority \in Nat
    BY DEF Candidates
  <2>2. \A i \in 1..k : s[i] \in Candidates
    OBVIOUS
  <2>3. QED
    BY <1>1, <2>1, <2>2
<1>8. Behind(k, p, f, x)
  BY <1>2, <1>5 DEF Behind
<1>9. PutIn(k, p, f, x, g)
  <2>1. ASSUME NEW i \in 1..(k + 1)
        PROVE  g[i] = IF i <= p THEN f[i] ELSE IF i = p + 1 THEN x ELSE f[i - 1]
    <3>1. \/ i \in 1..p /\ i \in 1..k /\ t[i] = s[i]
          \/ i = p + 1 /\ t[i] = c
          \/ i > p + 1 /\ i - 1 \in (p + 1)..k /\ i - 1 \in 1..k /\ t[i] = s[i - 1]
      BY <1>1, <1>3, <1>5, PutCases
    <3>2. QED
      BY <1>1, <1>5, <3>1
  <2>2. QED
    BY <2>1 DEF PutIn
<1> HIDE DEF r, f, g, x
<1>10. Ordered(k + 1, g, r)
  <2>1. Ordered(k, f, q) /\ \A i \in 1..k : f[i] \in Nat /\ q[i] \in 1..k
    BY <1>4, <1>7 DEF f
  <2>2. QED
    BY <1>1, <1>5, <1>6, <1>7, <1>8, <1>9, <2>1, PutKeepsOrder
<1>11. ASSUME NEW i \in 1..(k + 1)
       PROVE  \/ i \in 1..k /\ t[i] = s[i] /\ r[i] = q[i] /\ i <= p
              \/ i = p + 1 /\ t[i] = c /\ r[i] = k + 1
              \/ i - 1 \in 1..k /\ t[i] = s[i - 1] /\ r[i] = q[i - 1] /\ i > p + 1
  <2>1. \/ i \in 1..p /\ i \in 1..k /\ t[i] = s[i]
        \/ i = p + 1 /\ t[i] = c
        \/ i > p + 1 /\ i - 1 \in (p + 1)..k /\ i - 1 \in 1..k /\ t[i] = s[i - 1]
    BY <1>1, <1>3, <1>5, PutCases
  <2>2. \/ i \in 1..p /\ i \in 1..k /\ r[i] = q[i]
        \/ i = p + 1 /\ r[i] = k + 1
        \/ i > p + 1 /\ i - 1 \in (p + 1)..k /\ i - 1 \in 1..k /\ r[i] = q[i - 1]
    BY <1>1, <1>5, <1>6, PutCases
  <2>3. QED
    BY <1>1, <1>5, <2>1, <2>2
<1>12. ASSUME NEW i \in 1..(k + 1) PROVE r[i] \in 1..(k + 1) /\ t[i] = cs[r[i]]
  <2>1. CASE i \in 1..k /\ t[i] = s[i] /\ r[i] = q[i]
    <3>1. q[i] \in 1..k /\ s[i] = cs[q[i]]
      BY <1>4, <2>1
    <3>2. QED
      BY <1>1, <2>1, <3>1
  <2>2. CASE t[i] = c /\ r[i] = k + 1
    BY <1>1, <2>2 DEF c
  <2>3. CASE i - 1 \in 1..k /\ t[i] = s[i - 1] /\ r[i] = q[i - 1]
    <3>1. q[i - 1] \in 1..k /\ s[i - 1] = cs[q[i - 1]]
      BY <1>4, <2>3
    <3>2. QED
      BY <1>1, <2>3, <3>1
  <2>4. QED
    BY <1>11, <2>1, <2>2, <2>3
<1>13. ASSUME NEW i \in 1..(k + 1), NEW j \in 1..(k + 1), i # j PROVE r[i] # r[j]
  <2> DEFINE Old(m, n) == /\ n \in 1..k
                          /\ r[m] = q[n]
                          /\ \/ m = n /\ m <= p
                             \/ m = n + 1 /\ m > p + 1
             New(m) == m = p + 1 /\ r[m] = k + 1
  <2>1. ASSUME NEW m \in 1..(k + 1)
        PROVE  New(m) \/ \E n \in 1..k : Old(m, n)
    <3>1. CASE m \in 1..k /\ r[m] = q[m] /\ m <= p
      <4>1. Old(m, m)
        BY <3>1, Zenon
      <4>2. QED
        BY <3>1, <4>1
    <3>2. CASE m - 1 \in 1..k /\ r[m] = q[m - 1] /\ m > p + 1
      <4>1. Old(m, m - 1)
        BY <1>1, <3>2
      <4>2. QED
        BY <3>2, <4>1
    <3>3. QED
      BY <1>11, <3>1, <3>2
  <2>2. CASE New(i) \/ New(j)
    <3>1. \A m, n \in 1..(k + 1) : New(m) /\ (\E o \in 1..k : Old(n, o)) => r[m] # r[n]
      BY <1>1, <1>4
    <3>2. ~(New(i) /\ New(j))
      BY <1>13
    <3> HIDE DEF New, Old
    <3>3. QED
      BY <2>1, <2>2, <3>1, <3>2
  <2>3. CASE ~New(i) /\ ~New(j)
    <3>1. PICK m \in 1..k : Old(i, m)
      BY <2>1, <2>3
    <3>2. PICK n \in 1..k : Old(j, n)
      BY <2>1, <2>3
    <3>3. m # n
      BY <1>1, <1>5, <1>13, <3>1, <3>2
    <3>4. QED
      BY <1>4, <3>1, <3>2, <3>3
  <2>4. QED
    BY <2>2, <2>3
<1>14. Sorted(cs, k + 1, t)
  BY <1>10, <1>12, <1>13, Zenon DEF Sorted, g
<1>15. QED
  BY <1>3, <1>14 DEF t, c

(* What Insert makes of a sequence of candidates is one.                    *)
LEMMA InsertType ==
    ASSUME NEW s \in Seq(Candidates), NEW c \in Candidates
    PROVE  P!Insert(s, c) \in Seq(Candidates)
<1>1. PICK p \in 0..Len(s) : P!Insert(s, c) = InsertAt(s, p, c)
  BY InsertPlace
<1>2. QED
  BY <1>1, InsertAtPlace, Zenon

(* The loop of Sort.                                                        *)
LEMMA SortLoop ==
    ASSUME NEW cs \in Seq(Candidates)
    PROVE  \E f : /\ P!Sort(cs) = f[Len(cs)]
                  /\ f[0] = <<>>
                  /\ \A n \in 1..Len(cs) : f[n] = P!Insert(f[n - 1], cs[n])
<1> DEFINE N == Len(cs)
           G == [w \in (1..N) \X Seq(Candidates) |-> P!Insert(w[2], cs[w[1]])]
<1>1. N \in Nat /\ <<>> \in Seq(Candidates)
  OBVIOUS
<1>2. G \in [(1..N) \X Seq(Candidates) -> Seq(Candidates)]
  <2>1. ASSUME NEW w \in (1..N) \X Seq(Candidates)
        PROVE  P!Insert(w[2], cs[w[1]]) \in Seq(Candidates)
    <3>1. w[2] \in Seq(Candidates) /\ cs[w[1]] \in Candidates
      OBVIOUS
    <3>2. QED
      BY <3>1, InsertType
  <2>2. QED
    BY <2>1, Zenon
<1>3. PICK g : LoopRun(N, Seq(Candidates), <<>>, G, g)
  <2>1. LoopBody(N, Seq(Candidates), G)
    BY <1>2, Zenon DEF LoopBody
  <2> HIDE DEF G, N
  <2>2. QED
    BY <1>1, <2>1, LoopRuns, Zenon
<1> USE DEF LoopRun
<1>4. ASSUME NEW m \in 1..N PROVE g[m] = P!Insert(g[m - 1], cs[m])
  <2>1. m - 1 \in 0..N
    BY <1>1
  <2>2. <<m, g[m - 1]>> \in (1..N) \X Seq(Candidates)
    BY <1>3, <2>1
  <2>3. G[<<m, g[m - 1]>>] = P!Insert(g[m - 1], cs[m])
    BY <2>2
  <2>4. QED
    BY <1>3, <2>3
<1>5. g = [n \in 0..N |-> IF n = 0 THEN <<>> ELSE P!Insert(g[n - 1], cs[n])]
  <2>1. \A n \in 0..N : n # 0 => n \in 1..N
    BY <1>1
  <2>2. \A n \in 0..N : g[n] = IF n = 0 THEN <<>> ELSE P!Insert(g[n - 1], cs[n])
    BY <1>3, <1>4, <2>1, Zenon
  <2>3. QED
    BY <1>3, <2>2, Zenon
<1> DEFINE f == CHOOSE f : f = [n \in 0..N |->
                    IF n = 0 THEN <<>> ELSE P!Insert(f[n - 1], cs[n])]
<1>6. f = [n \in 0..N |-> IF n = 0 THEN <<>> ELSE P!Insert(f[n - 1], cs[n])]
  BY <1>5, Zenon
<1>7. P!Sort(cs) = f[N]
  BY Zenon DEF P!Sort
<1> HIDE DEF f, N
<1>8. f[0] = <<>> /\ \A n \in 1..N : f[n] = P!Insert(f[n - 1], cs[n])
  <2>1. 0 \in 0..N /\ \A n \in 1..N : n \in 0..N /\ n # 0
    BY <1>1
  <2>2. QED
    BY <1>6, <2>1, Zenon
<1>9. QED
  BY <1>7, <1>8, Zenon DEF N

(* Sort's comment: descending by priority, and stable, so that candidates   *)
(* of one priority keep the order of the interfaces.  Whatever its length,  *)
(* what Sort returns has each candidate of its argument once.               *)
THEOREM SortIsStable ==
    ASSUME NEW cs \in Seq(Candidates)
    PROVE  /\ P!Sort(cs) \in Seq(Candidates)
           /\ Len(P!Sort(cs)) = Len(cs)
           /\ Sorted(cs, Len(cs), P!Sort(cs))
<1>1. PICK f : /\ P!Sort(cs) = f[Len(cs)]
               /\ f[0] = <<>>
               /\ \A n \in 1..Len(cs) : f[n] = P!Insert(f[n - 1], cs[n])
  BY SortLoop
<1> DEFINE Good(n) == /\ f[n] \in Seq(Candidates)
                      /\ Len(f[n]) = n
                      /\ Sorted(cs, n, f[n])
           S == {n \in 0..Len(cs) : Good(n)}
<1>2. 0 \in S
  <2>1. Sorted(cs, 0, <<>>)
    BY DEF Sorted, Ordered
  <2>2. Len(<<>>) = 0 /\ <<>> \in Seq(Candidates)
    OBVIOUS
  <2>3. Good(0)
    BY <1>1, <2>1, <2>2, Zenon
  <2> HIDE DEF Good
  <2>4. QED
    BY <2>3
<1>3. ASSUME NEW m \in 0..(Len(cs) - 1), m \in S PROVE m + 1 \in S
  <2>1. m + 1 \in 1..Len(cs) /\ (m + 1) - 1 = m /\ m + 1 \in 0..Len(cs)
    OBVIOUS
  <2>2. f[m + 1] = P!Insert(f[m], cs[m + 1])
    BY <1>1, <2>1
  <2>3. Good(m)
    BY <1>3, Zenon
  <2>4. Good(m + 1)
    BY <2>1, <2>2, <2>3, InsertSorts
  <2> HIDE DEF Good
  <2>5. QED
    BY <2>1, <2>4
<1>4. Len(cs) \in S
  <2>1. Len(cs) \in Nat
    OBVIOUS
  <2> DEFINE n == Len(cs)
  <2> HIDE DEF S, n
  <2>2. n \in Nat /\ \A m \in 0..(n - 1) : m \in S => m + 1 \in S
    BY <1>3, <2>1 DEF n
  <2>3. n \in S
    <3>1. \A m \in 0..n : m \in S
      BY <1>2, <2>2, Induction, Zenon
    <3>2. QED
      BY <2>2, <3>1
  <2>4. QED
    BY <2>3 DEF n
<1>5. QED
  BY <1>1, <1>4, Zenon

-----------------------------------------------------------------------------
(* The candidates that main advertises.                                     *)

(* What hostPriority gives: below the override, above the reflexive one.    *)
Hosts == [kind : {"host"}, priority : 30..80]

LEMMA HostRange ==
    ASSUME NEW a \in [scope : STRING, v6 : BOOLEAN]
    PROVE  P!Host(a) \in Hosts
<1>1. P!hostPriority(a) \in 30..80
  BY DEF P!hostPriority
<1>2. QED
  BY <1>1 DEF P!Host, Hosts

(* The loop of Hosts.                                                       *)
LEMMA HostLoop == P!HostCandidates \in Seq(Hosts)
<1> DEFINE N == Len(Interfaces)
           Step(n, out) == IF P!Dialable(Interfaces[n])
                             THEN Append(out, P!Host(Interfaces[n])) ELSE out
           G == [w \in (1..N) \X Seq(Hosts) |-> Step(w[1], w[2])]
<1>1. N \in Nat /\ <<>> \in Seq(Hosts)
  BY PromotionAssumption
<1>2. ASSUME NEW n \in 1..N, NEW out \in Seq(Hosts)
      PROVE  Step(n, out) \in Seq(Hosts)
  <2>1. Interfaces[n] \in [scope : STRING, v6 : BOOLEAN]
    <3> DEFINE T == [scope : STRING, v6 : BOOLEAN]
    <3>1. Interfaces \in Seq(T)
      BY PromotionAssumption
    <3> HIDE DEF T
    <3>2. Interfaces[n] \in T
      BY <3>1
    <3>3. QED
      BY <3>2 DEF T
  <2>2. P!Host(Interfaces[n]) \in Hosts
    BY <2>1, HostRange
  <2>3. QED
    BY <2>2
<1>3. PICK g : LoopRun(N, Seq(Hosts), <<>>, G, g)
  <2>1. \A w \in (1..N) \X Seq(Hosts) : Step(w[1], w[2]) \in Seq(Hosts)
    <3> HIDE DEF Step, N
    <3>1. QED
      BY <1>2
  <2>2. LoopBody(N, Seq(Hosts), G)
    BY <2>1, Zenon DEF LoopBody
  <2> HIDE DEF G, N
  <2>3. QED
    BY <1>1, <2>2, LoopRuns, Zenon
<1> USE DEF LoopRun
<1>4. ASSUME NEW m \in 1..N PROVE g[m] = Step(m, g[m - 1])
  <2> HIDE DEF Step, N
  <2>1. m - 1 \in 0..N
    BY <1>1
  <2>2. <<m, g[m - 1]>> \in (1..N) \X Seq(Hosts)
    BY <1>3, <2>1
  <2>3. G[<<m, g[m - 1]>>] = Step(m, g[m - 1])
    BY <2>2
  <2>4. QED
    BY <1>3, <2>3
<1> DEFINE Loop(f) == [n \in 0..N |-> IF n = 0 THEN <<>> ELSE
                         IF P!Dialable(Interfaces[n])
                           THEN Append(f[n - 1], P!Host(Interfaces[n]))
                           ELSE f[n - 1]]
<1>5. g = Loop(g)
  <2>1. \A n \in 0..N : n # 0 => n \in 1..N
    BY <1>1
  <2>2. \A n \in 0..N : g[n] = IF n = 0 THEN <<>> ELSE Step(n, g[n - 1])
    <3> HIDE DEF Step
    <3>1. QED
      BY <1>3, <1>4, <2>1, Zenon
  <2>3. QED
    BY <1>3, <2>2, Zenon
<1> DEFINE f == CHOOSE f : f = Loop(f)
<1>6. f = Loop(f)
  BY <1>5, Zenon
<1>7. P!HostCandidates = f[N]
  BY Zenon DEF P!HostCandidates
<1> HIDE DEF f
<1>8. f[0] = <<>> /\ \A n \in 1..N : f[n] = Step(n, f[n - 1])
  <2>1. 0 \in 0..N /\ \A n \in 1..N : n \in 0..N /\ n # 0
    BY <1>1
  <2>2. QED
    BY <1>6, <2>1, Zenon
<1> DEFINE S == {n \in 0..N : f[n] \in Seq(Hosts)}
<1> HIDE DEF N, Step
<1>9. 0 \in S
  <2>1. 0 \in 0..N
    BY <1>1
  <2>2. QED
    BY <1>1, <1>8, <2>1, Zenon
<1>10. ASSUME NEW m \in 0..(N - 1), m \in S PROVE m + 1 \in S
  <2>1. m + 1 \in 1..N /\ (m + 1) - 1 = m /\ m + 1 \in 0..N
    BY <1>1
  <2>2. f[m + 1] = Step(m + 1, f[m])
    BY <1>8, <2>1
  <2>3. f[m] \in Seq(Hosts)
    BY <1>10
  <2>4. f[m + 1] \in Seq(Hosts)
    BY <1>2, <2>1, <2>2, <2>3
  <2>5. QED
    BY <2>1, <2>4
<1>11. N \in S
  <2> HIDE DEF S
  <2>1. \A m \in 0..N : m \in S
    BY <1>1, <1>9, <1>10, Induction
  <2>2. QED
    BY <1>1, <2>1
<1>12. QED
  BY <1>7, <1>11

(* What tells the candidates apart: the override alone has a priority of    *)
(* 100, the reflexive candidate alone one of 20, and there is one of each   *)
(* at most.                                                                 *)
Distinct(cs) ==
    /\ \A i \in 1..Len(cs) :
         /\ cs[i] = P!Override => cs[i].priority >= 100
         /\ cs[i].kind = "srflx" => cs[i].priority <= 20
    /\ \A i, j \in 1..Len(cs) :
         i # j => /\ ~(cs[i].priority >= 100 /\ cs[j].priority >= 100)
                  /\ ~(cs[i].priority <= 20 /\ cs[j].priority <= 20)

(* What main puts before the hosts.                                         *)
Fronts == {<<>>, <<P!Override>>, <<P!Reflexive>>, <<P!Override, P!Reflexive>>}

(* The hosts behind what main puts before them.                             *)
LEMMA Appended ==
    ASSUME NEW hs \in Seq(Hosts), NEW f \in Fronts
    PROVE  f \o hs \in Seq(Candidates) /\ Distinct(f \o hs)
<1> DEFINE cs == f \o hs
<1>1. \A h \in Hosts : h \in Candidates /\ h.kind = "host" /\ h.priority \in 30..80
  <2> TAKE h \in Hosts
  <2>1. /\ h.kind = "host" /\ h.priority \in 30..80
        /\ h = [kind |-> h.kind, priority |-> h.priority]
    BY DEF Hosts
  <2>2. h.priority \in Nat
    <3>1. \A p \in 30..80 : p \in Nat
      OBVIOUS
    <3>2. QED
      BY <2>1, <3>1, Zenon
  <2>3. [kind |-> "host", priority |-> h.priority] \in Candidates
    BY <2>2 DEF Candidates
  <2>4. QED
    BY <2>1, <2>3, Zenon
<1>2. P!Override \in Candidates /\ P!Reflexive \in Candidates
  BY DEF P!Override, P!Reflexive, Candidates
<1>3. f \in Seq(Candidates) /\ hs \in Seq(Candidates) /\ Len(f) <= 2
  <2>1. \A c, d \in Candidates : /\ <<>> \in Seq(Candidates) /\ Len(<<>>) <= 2
                                 /\ <<c>> \in Seq(Candidates) /\ Len(<<c>>) <= 2
                                 /\ <<c, d>> \in Seq(Candidates) /\ Len(<<c, d>>) <= 2
    OBVIOUS
  <2>2. f \in Seq(Candidates) /\ Len(f) <= 2
    BY <1>2, <2>1, Zenon DEF Fronts
  <2>3. \A i \in 1..Len(hs) : hs[i] \in Candidates
    BY <1>1
  <2>4. QED
    BY <2>2, <2>3
<1>4. cs \in Seq(Candidates) /\ Len(cs) = Len(f) + Len(hs)
  BY <1>3
<1>5. ASSUME NEW i \in 1..Len(cs)
      PROVE  \/ i <= Len(f) /\ cs[i] = f[i]
             \/ i > Len(f) /\ cs[i].kind = "host" /\ cs[i].priority \in 30..80
  <2>1. CASE i <= Len(f)
    BY <1>3, <2>1
  <2>2. CASE i > Len(f)
    <3>1. i - Len(f) \in 1..Len(hs)
      BY <1>3, <1>4, <2>2
    <3>2. cs[i] = hs[i - Len(f)] /\ hs[i - Len(f)] \in Hosts
      BY <1>3, <2>2, <3>1
    <3>3. QED
      BY <1>1, <2>2, <3>2
  <2>3. QED
    BY <1>3, <2>1, <2>2
<1>6. ASSUME NEW i \in 1..Len(f)
      PROVE  \/ i = 1 /\ f[i] = P!Override
             \/ i = Len(f) /\ f[i] = P!Reflexive
  <2> DEFINE o == P!Override
             r == P!Reflexive
  <2> HIDE DEF o, r
  <2>1. CASE f = <<>>
    BY <1>6, <2>1
  <2>2. CASE f = <<o>>
    BY <1>6, <2>2 DEF o
  <2>3. CASE f = <<r>>
    BY <1>6, <2>3 DEF r
  <2>4. CASE f = <<o, r>>
    BY <1>6, <2>4 DEF o, r
  <2>5. QED
    BY <2>1, <2>2, <2>3, <2>4, Zenon DEF o, r, Fronts
<1>7. /\ P!Override.priority = 100 /\ P!Override.kind = "host"
      /\ P!Reflexive.priority = 20 /\ P!Reflexive.kind = "srflx"
      /\ P!Override # P!Reflexive
  BY DEF P!Override, P!Reflexive
<1> HIDE DEF cs
<1>8. ASSUME NEW i \in 1..Len(cs)
      PROVE  \/ i = 1 /\ cs[i] = P!Override
             \/ i = Len(f) /\ cs[i] = P!Reflexive
             \/ cs[i].kind = "host" /\ cs[i].priority \in 30..80
  <2>1. CASE i <= Len(f) /\ cs[i] = f[i]
    <3>1. i \in 1..Len(f)
      BY <1>3, <1>4, <2>1
    <3>2. QED
      BY <1>6, <2>1, <3>1, Zenon
  <2>2. QED
    BY <1>5, <2>1, Zenon
<1>9. Distinct(cs)
  <2>1. ASSUME NEW i \in 1..Len(cs)
        PROVE  /\ cs[i] = P!Override => cs[i].priority >= 100
               /\ cs[i].kind = "srflx" => cs[i].priority <= 20
    BY <1>7, <1>8
  <2>2. ASSUME NEW i \in 1..Len(cs), NEW j \in 1..Len(cs), i # j
        PROVE  /\ ~(cs[i].priority >= 100 /\ cs[j].priority >= 100)
               /\ ~(cs[i].priority <= 20 /\ cs[j].priority <= 20)
    <3>1. ASSUME NEW m \in 1..Len(cs)
          PROVE  /\ cs[m].priority >= 100 => m = 1
                 /\ cs[m].priority <= 20 => m = Len(f)
      <4>1. CASE m = 1 /\ cs[m] = P!Override
        BY <1>7, <4>1
      <4>2. CASE m = Len(f) /\ cs[m] = P!Reflexive
        BY <1>7, <4>2
      <4>3. CASE cs[m].priority \in 30..80
        <5>1. \A p \in 30..80 : ~(p >= 100) /\ ~(p <= 20)
          OBVIOUS
        <5>2. QED
          BY <4>3, <5>1, Zenon
      <4>4. QED
        BY <1>8, <4>1, <4>2, <4>3
    <3>2. QED
      BY <2>2, <3>1
  <2>3. QED
    BY <2>1, <2>2, Zenon DEF Distinct
<1>10. QED
  BY <1>4, <1>9 DEF cs

(* What main advertises, with and without --p2p-advertise and an answer of  *)
(* the relay's reflector.                                                   *)
LEMMA LocalDistinct ==
    P!LocalCandidates \in Seq(Candidates) /\ Distinct(P!LocalCandidates)
<1> DEFINE f == (IF Advertise THEN <<P!Override>> ELSE <<>>)
                  \o (IF peer.srflx THEN <<P!Reflexive>> ELSE <<>>)
<1>1. <<>> \in Seq(Candidates) /\ Distinct(<<>>)
  BY DEF Distinct
<1>2. f \in Fronts
  <2> DEFINE o == P!Override
             r == P!Reflexive
             x == IF Advertise THEN <<o>> ELSE <<>>
             y == IF peer.srflx THEN <<r>> ELSE <<>>
  <2>1. (x = <<o>> \/ x = <<>>) /\ (y = <<r>> \/ y = <<>>)
    OBVIOUS
  <2> HIDE DEF o, r, x, y
  <2>2. /\ <<>> \o <<>> = <<>> /\ <<o>> \o <<>> = <<o>>
        /\ <<>> \o <<r>> = <<r>>
    <3>1. <<>> \in Seq({o, r}) /\ <<o>> \in Seq({o, r}) /\ <<r>> \in Seq({o, r})
      OBVIOUS
    <3>2. QED
      BY <3>1, ConcatEmptySeq, Zenon
  <2>3. <<o>> \o <<r>> = <<o, r>>
    <3> DEFINE z == <<o>> \o <<r>>
    <3>1. <<o>> \in Seq({o, r}) /\ <<r>> \in Seq({o, r})
      OBVIOUS
    <3>2. z \in Seq({o, r}) /\ Len(z) = 2 /\ z[1] = o /\ z[2] = r
      BY <3>1
    <3> HIDE DEF z
    <3>3. z = <<z[1], z[2]>>
      BY <3>2
    <3>4. QED
      BY <3>2, <3>3, Zenon DEF z
  <2>4. QED
    BY <2>1, <2>2, <2>3, Zenon DEF o, r, x, y, Fronts
<1> HIDE DEF f
<1>3. CASE peer.shared
  <2>1. P!LocalCandidates = f \o P!HostCandidates
    BY <1>3, Zenon DEF P!LocalCandidates, f
  <2>2. QED
    BY <1>2, <2>1, HostLoop, Appended, Zenon
<1>4. CASE ~peer.shared
  BY <1>1, <1>4, Zenon DEF P!LocalCandidates
<1>5. QED
  BY <1>3, <1>4

(* Sorted candidates that Distinct tells apart: the override first, the     *)
(* reflexive one last.                                                      *)
InOrder(rs) ==
    \A i \in 1..Len(rs) : /\ rs[i] = P!Override => i = 1
                          /\ rs[i].kind = "srflx" => i = Len(rs)

(* Sort brings the override to the front and the reflexive one to the end.  *)
LEMMA SortedInOrder ==
    ASSUME NEW cs \in Seq(Candidates), Distinct(cs)
    PROVE  InOrder(P!Sort(cs))
<1> DEFINE rs == P!Sort(cs)
           N == Len(cs)
           pr == [i \in 1..N |-> rs[i].priority]
<1>1. rs \in Seq(Candidates) /\ Len(rs) = N /\ Sorted(cs, N, rs)
  BY SortIsStable
<1> HIDE DEF rs
<1>2. PICK q : /\ \A i \in 1..N : q[i] \in 1..N /\ rs[i] = cs[q[i]]
               /\ \A i, j \in 1..N : i # j => q[i] # q[j]
               /\ Ordered(N, pr, q)
  BY <1>1, Zenon DEF Sorted
<1>3. N \in Nat /\ \A c \in Candidates : c.priority \in Nat
  BY DEF Candidates
<1>4. ASSUME NEW i \in 1..N PROVE pr[i] = rs[i].priority /\ pr[i] \in Nat
  BY <1>1, <1>3
<1> HIDE DEF pr, N
<1>5. ASSUME NEW i \in 1..N, NEW j \in 1..N, i < j
      PROVE  rs[i].priority >= rs[j].priority
  BY <1>2, <1>4, <1>5 DEF Ordered
<1>6. ASSUME NEW i \in 1..N, NEW j \in 1..N, i # j
      PROVE  /\ ~(rs[i].priority >= 100 /\ rs[j].priority >= 100)
             /\ ~(rs[i].priority <= 20 /\ rs[j].priority <= 20)
  <2>1. /\ q[i] \in 1..N /\ q[j] \in 1..N /\ q[i] # q[j]
        /\ rs[i] = cs[q[i]] /\ rs[j] = cs[q[j]]
    BY <1>2, <1>6
  <2>2. QED
    BY <2>1 DEF Distinct, N
<1>7. ASSUME NEW i \in 1..N
      PROVE  /\ rs[i] = P!Override => rs[i].priority >= 100
             /\ rs[i].kind = "srflx" => rs[i].priority <= 20
  <2>1. q[i] \in 1..N /\ rs[i] = cs[q[i]]
    BY <1>2
  <2>2. QED
    BY <2>1 DEF Distinct, N
<1>8. ASSUME NEW i \in 1..N, rs[i] = P!Override, i # 1 PROVE FALSE
  <2>1. 1 \in 1..N /\ 1 < i
    BY <1>3, <1>8
  <2>2. rs[1].priority \in Nat /\ rs[i].priority \in Nat
    BY <1>4, <2>1
  <2>3. QED
    BY <1>5, <1>6, <1>7, <1>8, <2>1, <2>2
<1>9. ASSUME NEW i \in 1..N, rs[i].kind = "srflx", i # N PROVE FALSE
  <2>1. N \in 1..N /\ i < N
    BY <1>3, <1>9
  <2>2. rs[N].priority \in Nat /\ rs[i].priority \in Nat
    BY <1>4, <2>1
  <2>3. QED
    BY <1>5, <1>6, <1>7, <1>9, <2>1, <2>2
<1>10. QED
  BY <1>1, <1>8, <1>9 DEF InOrder, rs

-----------------------------------------------------------------------------
(* Engine.Check.                                                            *)

(* The list in every answer: main makes it once.                            *)
Advertised == P!LocalCandidates

(* What the dials have cost: PerPair seconds each at most.                  *)
Spent(n) == began <= budget + n * PerPair

(* The invariant of an attempt: the only list there is is the advertised    *)
(* one, no dial has begun before the answer came, the dials so far have cost*)
(* PerPair each at most, and an attempt that gave up had no time left or    *)
(* nothing to dial.                                                         *)
CheckInv ==
    /\ budget \in Nat /\ began \in Nat /\ next \in Nat \ {0}
    /\ answer \in {<<>>, <<Advertised>>} /\ box \in {<<>>, <<Advertised>>}
    /\ remotes \in {<<>>, P!Sort(Advertised)}
    /\ pc \in {"delay", "offer", "wait"} =>
         remotes = <<>> /\ next = 1 /\ conn = "none"
    /\ pc = "check" => Spent(next - 1)
    /\ pc \in {"found", "migrate", "migrated"} => conn = "open"
    /\ pc = "ended" /\ remotes # <<>> /\ conn = "none" =>
         next > Len(remotes) \/ next * PerPair >= began

LEMMA CheckInit == P!Init => CheckInv
BY PromotionAssumption DEF P!Init, CheckInv

(* What one more dial costs.                                                *)
LEMMA Costs ==
    ASSUME NEW n \in Nat \ {0}, NEW c \in Nat
    PROVE  /\ (n - 1) * c \in Nat /\ n * c \in Nat /\ n * c = (n - 1) * c + c
           /\ (n + 1) - 1 = n
OBVIOUS

LEMMA SameAdvertised == UNCHANGED peer => UNCHANGED Advertised
BY DEF Advertised, P!LocalCandidates

(* Every step of the attempt, the relay and the control readers keeps it.   *)
LEMMA CheckStep == ASSUME CheckInv, P!Next PROVE CheckInv'
<1> USE PromotionAssumption DEF CheckInv, P!setup, P!mail, P!check
<1>1. UNCHANGED peer /\ UNCHANGED Advertised
  <2>1. UNCHANGED peer
    BY DEF P!Next, P!Attempt, P!Promote, P!SendOffer, P!Wait, P!RecvTimeout,
           P!RecvAnswer, P!DialSucceeds, P!DialRefused, P!DialTimesOut, P!NoPair,
           P!SendMigrate, P!MigrateToDirect, P!MigrateFails, P!Lose,
           P!AnswerOffer, P!warmupPunch, P!deliverAnswer
  <2>2. QED
    BY <2>1, SameAdvertised
<1>2. CASE P!Promote
  BY <1>1, <1>2 DEF P!Promote
<1>3. CASE P!SendOffer
  BY <1>1, <1>3 DEF P!SendOffer
<1>4. CASE P!Wait
  BY <1>1, <1>4 DEF P!Wait
<1>5. CASE P!RecvTimeout
  BY <1>1, <1>5 DEF P!RecvTimeout
<1>6. CASE P!RecvAnswer
  <2>1. box[1] = Advertised
    BY <1>6 DEF P!RecvAnswer
  <2>2. QED
    BY <1>1, <1>6, <2>1 DEF P!RecvAnswer, Spent
<1>7. CASE P!DialSucceeds
  BY <1>1, <1>7 DEF P!DialSucceeds, P!Dialling
<1>8. CASE P!DialRefused
  BY <1>1, <1>8, Costs DEF P!DialRefused, P!Dialling, P!TryNext, Spent
<1>9. CASE P!DialTimesOut
  <2>1. /\ next \in Nat \ {0} /\ budget \in Nat /\ began \in Nat /\ budget' \in Nat
        /\ began <= budget + (next - 1) * PerPair
        /\ budget' = IF budget > PerPair THEN budget - PerPair ELSE 0
    BY <1>9 DEF P!DialTimesOut, P!Dialling, Spent
  <2>2. PICK c \in Nat : c = (next - 1) * PerPair /\ next * PerPair = c + PerPair
    BY <2>1, Costs
  <2>3. began <= budget' + next * PerPair
    BY <2>1, <2>2
  <2>4. CASE budget' = 0
    <3>1. next * PerPair >= began
      BY <2>1, <2>2, <2>3, <2>4
    <3>2. QED
      BY <1>1, <1>9, <2>1, <2>4, <3>1 DEF P!DialTimesOut, P!Dialling, P!TryNext
  <2>5. CASE budget' # 0
    <3>1. next' = next + 1 /\ next' - 1 = next
      BY <1>9, <2>1, <2>5 DEF P!DialTimesOut, P!TryNext
    <3>2. Spent(next - 1)'
      BY <1>9, <2>3, <3>1 DEF P!DialTimesOut, Spent
    <3>3. QED
      BY <1>1, <1>9, <2>1, <2>5, <3>1, <3>2 DEF P!DialTimesOut, P!Dialling, P!TryNext
  <2>6. QED
    BY <2>4, <2>5
<1>10. CASE P!NoPair
  BY <1>1, <1>10 DEF P!NoPair
<1>11. CASE P!SendMigrate
  BY <1>1, <1>11 DEF P!SendMigrate
<1>12. CASE P!MigrateToDirect
  BY <1>1, <1>12 DEF P!MigrateToDirect
<1>13. CASE P!MigrateFails
  BY <1>1, <1>13 DEF P!MigrateFails
<1>14. CASE P!Lose
  BY <1>1, <1>14 DEF P!Lose, Spent
<1>15. CASE P!AnswerOffer
  BY <1>1, <1>15 DEF P!AnswerOffer, Spent, Advertised
<1>16. CASE P!warmupPunch
  BY <1>1, <1>16 DEF P!warmupPunch, Spent
<1>17. CASE P!deliverAnswer
  BY <1>1, <1>17 DEF P!deliverAnswer, Spent
<1>18. QED
  BY <1>2, <1>3, <1>4, <1>5, <1>6, <1>7, <1>8, <1>9, <1>10, <1>11, <1>12,
     <1>13, <1>14, <1>15, <1>16, <1>17 DEF P!Next, P!Attempt

(* Engine.Check gives up only when it has dialled every candidate or its    *)
(* time can be used up, and it dials the override first and the reflexive   *)
(* candidate last: for any interfaces of the provider, any budget and any   *)
(* time per dial.                                                           *)
THEOREM ChecksThoroughly == AgentSpec => []CheckIsThorough
<1>1. AgentInit => CheckInv
  BY CheckInit DEF AgentInit
<1>2. CheckInv /\ [AgentNext]_avars => CheckInv'
  <2> SUFFICES ASSUME CheckInv, [AgentNext]_avars PROVE CheckInv'
    OBVIOUS
  <2>1. ASSUME UNCHANGED <<peer, pc, budget, mail, punch, remotes, next, began, conn>>
        PROVE  CheckInv'
    BY <2>1, SameAdvertised DEF CheckInv, Spent, mail
  <2>2. CASE Race \/ Exit \/ ComeUp \/ Fallback \/ UNCHANGED avars
    BY <2>1, <2>2 DEF Race, Exit, ComeUp, Fallback, avars, promotion
  <2>3. CASE TryPromote
    BY <2>3, CheckStep DEF TryPromote
  <2>4. QED
    BY <2>2, <2>3 DEF AgentNext
<1>3. CheckInv => CheckIsThorough
  <2> SUFFICES ASSUME CheckInv PROVE CheckIsThorough
    OBVIOUS
  <2>1. InOrder(remotes)
    <3>1. CASE remotes = <<>>
      BY <3>1 DEF InOrder
    <3>2. CASE remotes = P!Sort(Advertised)
      BY <3>2, LocalDistinct, SortedInOrder, Zenon DEF Advertised
    <3>3. QED
      BY <3>1, <3>2 DEF CheckInv
  <2>2. DOMAIN remotes = 1..Len(remotes)
    <3>1. P!Sort(Advertised) \in Seq(Candidates)
      BY LocalDistinct, SortIsStable DEF Advertised
    <3>2. QED
      BY <3>1 DEF CheckInv
  <2>3. QED
    BY <2>1, <2>2, Zenon DEF CheckInv, InOrder, CheckIsThorough, P!CheckIsThorough
<1>4. QED
  BY <1>1, <1>2, <1>3, PTL DEF AgentSpec
=============================================================================
