------------------------- MODULE InterceptionProofs -------------------------
(***************************************************************************)
(* Proofs about interception, for any number of listeners, connections and *)
(* services and any prefix of virtual addresses.                           *)
(***************************************************************************)
EXTENDS Interception, SequenceTheorems, TLAPS

-----------------------------------------------------------------------------
(* Who owns a connection.                                                   *)

(* An accept loop holds a connection exactly while it resolves or offers    *)
(* it.                                                                      *)
HeldInv ==
    \A l \in Listeners : held[l] # None <=> loop[l] \in {"resolve", "send"}

OwnerInv ==
    /\ TypeOK
    /\ HeldInv
    /\ OneOwner

LEMMA OwnerInit == Init => OwnerInv
BY DEF Init, OwnerInv, TypeOK, HeldInv, OneOwner, Conns, None

(* The steps of the accept loops, of Accept and of Close.                   *)
LEMMA OwnerStep == OwnerInv /\ Next => OwnerInv'
<1> SUFFICES ASSUME OwnerInv, Next PROVE OwnerInv'
  OBVIOUS
<1>0. None \notin Conns
  BY DEF None, Conns
<1> USE <1>0 DEF OwnerInv, TypeOK, HeldInv, OneOwner
<1>1. ASSUME NEW l \in Listeners, Bind(l) PROVE OwnerInv'
  BY <1>1 DEF Bind
<1>2. ASSUME NEW l \in Listeners, NEW c \in Conns, AcceptConn(l, c)
      PROVE OwnerInv'
  BY <1>2 DEF AcceptConn, Seen
<1>3. ASSUME NEW l \in Listeners, Resolve(l) PROVE OwnerInv'
  BY <1>3 DEF Resolve
<1>4. ASSUME NEW l \in Listeners, DropConn(l) PROVE OwnerInv'
  BY <1>4 DEF DropConn
<1>5. ASSUME NEW l \in Listeners, AcceptError(l) PROVE OwnerInv'
  BY <1>5 DEF AcceptError
<1>6. ASSUME NEW l \in Listeners, ReportError(l) PROVE OwnerInv'
  BY <1>6 DEF ReportError
<1>7. ASSUME NEW l \in Listeners, LoopClosed(l) PROVE OwnerInv'
  BY <1>7 DEF LoopClosed
<1>8. ASSUME NEW l \in Listeners, AcceptReturns(l) PROVE OwnerInv'
  BY <1>8 DEF AcceptReturns
<1>9. ASSUME NEW l \in Listeners, CloseListener(l) PROVE OwnerInv'
  BY <1>9 DEF CloseListener
<1>10. CASE BindFails
  BY <1>10 DEF BindFails
<1>11. CASE CallAccept
  BY <1>11 DEF CallAccept
<1>12. CASE AcceptReturnsError \/ AcceptReturnsClosed \/ AcceptCancelled
  BY <1>12 DEF AcceptReturnsError, AcceptReturnsClosed, AcceptCancelled
<1>13. CASE Close
  BY <1>13 DEF Close
<1>14. QED
  BY <1>1, <1>2, <1>3, <1>4, <1>5, <1>6, <1>7, <1>8, <1>9, <1>10, <1>11,
     <1>12, <1>13 DEF Next

-----------------------------------------------------------------------------
(* Which service a connection reaches.                                      *)

(* Allocate has taken every usable address below next.                      *)
TakenBelowNext ==
    \A ip \in N!Prefix :
        N!isUsable(ip) /\ ip < next => \E n \in N!Names : <<n, ip>> \in nameToIP

(* What the DNS server has answered is what the allocator says.             *)
AnswersInv ==
    \A a \in answers : <<N!ToLower(a.q.name), a.ip>> \in nameToIP

(* Every service that was consumed has an address.                          *)
ConsumedInv ==
    \A n \in consumed : \E ip \in N!Prefix : <<n, ip>> \in nameToIP

NamesInv ==
    /\ N!TypeOK
    /\ N!AllocatorConsistent
    /\ N!ConnectedAsAsked
    /\ TakenBelowNext
    /\ AnswersInv
    /\ ConsumedInv

LEMMA NamesInit == N!Init => NamesInv
<1> SUFFICES ASSUME N!Init PROVE NamesInv
  OBVIOUS
<1>1. consumes \in Seq(N!Names)
  <2>1. PICK n \in 1 .. MaxConsumes : consumes \in [1 .. n -> N!Names]
    BY DEF N!Init
  <2>2. QED
    BY <2>1, SeqDef
<1>2. N!TypeOK
  BY <1>1, PrefixAssumption DEF N!Init, N!TypeOK
<1>3. TakenBelowNext
  BY PrefixAssumption DEF N!Init, TakenBelowNext, N!Prefix
<1>4. QED
  BY <1>2, <1>3
  DEF N!Init, NamesInv, N!AllocatorConsistent, N!ConnectedAsAsked, AnswersInv,
      ConsumedInv

(* A new name gets an address that no name has.                             *)
LEMMA AllocateStep == NamesInv /\ N!Allocate => NamesInv'
<1> SUFFICES ASSUME NamesInv, N!Allocate PROVE NamesInv'
  OBVIOUS
<1> DEFINE svc == Head(consumes)
<1>1. svc \in N!Names /\ Tail(consumes) \in Seq(N!Names)
  BY DEF NamesInv, N!TypeOK, N!Allocate
<1>2. PICK ip \in N!Available :
        /\ \A i \in N!Available : ip <= i
        /\ nameToIP' = nameToIP \cup {<<svc, ip>>}
        /\ ipToName' = ipToName \cup {<<ip, svc>>}
        /\ next' = ip + 1
  BY DEF N!Allocate
<1>3. /\ ip \in N!Prefix /\ ip \in Nat /\ ip >= next
      /\ \A n \in N!Names : <<ip, n>> \notin ipToName
      /\ \A i \in N!Prefix : <<svc, i>> \notin nameToIP
  <2>1. ip \in N!Prefix /\ ip >= next /\ \A n \in N!Names : <<ip, n>> \notin ipToName
    BY DEF N!Available
  <2>2. ip \in Nat
    BY <2>1, PrefixAssumption DEF N!Prefix
  <2>3. \A i \in N!Prefix : <<svc, i>> \notin nameToIP
    BY Zenon DEF N!Allocate
  <2>4. QED
    BY <2>1, <2>2, <2>3
<1> HIDE DEF svc
<1>4. N!TypeOK'
  BY <1>1, <1>2, <1>3 DEF NamesInv, N!TypeOK, N!Allocate, svc
<1>5. N!AllocatorConsistent'
  <2>1. \A n \in N!Names, i \in N!Prefix :
          (<<n, i>> \in nameToIP)' <=> (<<i, n>> \in ipToName)'
    BY <1>1, <1>2, <1>3 DEF NamesInv, N!AllocatorConsistent
  <2>2. \A p \in nameToIP : p[1] # svc /\ p[2] # ip
    <3> SUFFICES ASSUME NEW p \in nameToIP PROVE p[1] # svc /\ p[2] # ip
      OBVIOUS
    <3>1. p = <<p[1], p[2]>> /\ p[1] \in N!Names /\ p[2] \in N!Prefix
      BY DEF NamesInv, N!TypeOK
    <3>2. <<p[1], p[2]>> \in nameToIP
      BY <3>1
    <3>3. p[1] # svc
      BY <3>1, <3>2, <1>3
    <3>4. <<p[2], p[1]>> \in ipToName
      BY <3>1, <3>2 DEF NamesInv, N!AllocatorConsistent
    <3>5. QED
      BY <3>1, <3>3, <3>4, <1>3
  <2>3. \A p, r \in nameToIP' : p[1] = r[1] <=> p[2] = r[2]
    BY <1>2, <2>2 DEF NamesInv, N!AllocatorConsistent
  <2>4. phase' # "failed"
    BY DEF N!Allocate
  <2>5. QED
    BY <2>1, <2>3, <2>4 DEF N!AllocatorConsistent
<1>6. TakenBelowNext'
  <2> SUFFICES ASSUME NEW i \in N!Prefix, N!isUsable(i), i < ip + 1
               PROVE  \E n \in N!Names : <<n, i>> \in nameToIP'
    BY <1>2 DEF TakenBelowNext, N!isUsable
  <2>0. i \in Nat /\ next \in Nat
    BY PrefixAssumption DEF N!Prefix, NamesInv, N!TypeOK
  <2>1. CASE i < next
    BY <2>1, <1>2 DEF NamesInv, TakenBelowNext
  <2>2. CASE i = ip
    BY <2>2, <1>1, <1>2
  <2>3. CASE i >= next /\ i < ip
    <3>1. i \notin N!Available
      BY <2>0, <2>3, <1>2, <1>3
    <3>2. PICK n \in N!Names : <<i, n>> \in ipToName
      BY <3>1, <2>3 DEF N!Available
    <3>3. QED
      BY <3>2, <1>2 DEF NamesInv, N!AllocatorConsistent
  <2>4. QED
    BY <2>0, <2>1, <2>2, <2>3, <1>3
<1>7. AnswersInv' /\ ConsumedInv' /\ N!ConnectedAsAsked'
  BY <1>1, <1>2, <1>3
  DEF NamesInv, AnswersInv, ConsumedInv, N!ConnectedAsAsked, N!Allocate, svc
<1>8. QED
  BY <1>4, <1>5, <1>6, <1>7 DEF NamesInv

(* The other steps of the allocator, the DNS server and the reverse lookup. *)
LEMMA NamesStep == NamesInv /\ N!Next => NamesInv'
<1> SUFFICES ASSUME NamesInv, N!Next PROVE NamesInv'
  OBVIOUS
<1>1. CASE N!AllocateKnown
  <2>1. N!TypeOK'
    BY <1>1 DEF NamesInv, N!TypeOK, N!AllocateKnown
  <2>2. ConsumedInv'
    BY <1>1 DEF NamesInv, ConsumedInv, N!AllocateKnown
  <2>3. N!AllocatorConsistent' /\ N!ConnectedAsAsked' /\ TakenBelowNext'
          /\ AnswersInv'
    BY <1>1
    DEF NamesInv, N!AllocatorConsistent, N!ConnectedAsAsked, TakenBelowNext,
        AnswersInv, N!AllocateKnown
  <2>4. QED
    BY <2>1, <2>2, <2>3 DEF NamesInv
<1>2. CASE N!Allocate
  BY <1>2, AllocateStep
<1>3. CASE N!AllocateExhausted
  <2>0. next \in Nat /\ Last \in Nat /\ First \in Nat
    BY PrefixAssumption DEF NamesInv, N!TypeOK
  <2>1. \A ip \in N!Prefix : N!isUsable(ip) =>
            \E n \in N!Names : <<n, ip>> \in nameToIP
    <3> SUFFICES ASSUME NEW ip \in N!Prefix, N!isUsable(ip)
                 PROVE  \E n \in N!Names : <<n, ip>> \in nameToIP
      OBVIOUS
    <3>0. ip \in Nat
      BY PrefixAssumption DEF N!Prefix
    <3>1. CASE ip < next
      BY <3>1 DEF NamesInv, TakenBelowNext
    <3>2. CASE ip >= next
      <4>1. PICK n \in N!Names : <<ip, n>> \in ipToName
        BY <1>3, <3>2 DEF N!AllocateExhausted, N!Available
      <4>2. QED
        BY <4>1 DEF NamesInv, N!AllocatorConsistent
    <3>3. QED
      BY <2>0, <3>0, <3>1, <3>2
  <2>2. N!TypeOK'
    BY <1>3, <2>0 DEF NamesInv, N!TypeOK, N!AllocateExhausted
  <2>3. N!AllocatorConsistent' /\ TakenBelowNext'
    BY <1>3, <2>1
    DEF NamesInv, N!AllocatorConsistent, TakenBelowNext, N!AllocateExhausted,
        N!isUsable
  <2>4. N!ConnectedAsAsked' /\ AnswersInv' /\ ConsumedInv'
    BY <1>3
    DEF NamesInv, N!ConnectedAsAsked, AnswersInv, ConsumedInv,
        N!AllocateExhausted
  <2>5. QED
    BY <2>2, <2>3, <2>4 DEF NamesInv
<1>4. CASE N!Serve
  BY <1>4
  DEF NamesInv, N!TypeOK, N!AllocatorConsistent, N!ConnectedAsAsked,
      TakenBelowNext, AnswersInv, ConsumedInv, N!Serve
<1>5. ASSUME NEW q \in N!Questions, N!Respond(q) PROVE NamesInv'
  <2>1. PICK ip \in N!LookupName(q) :
          answers' = answers \cup {[q |-> q, ip |-> ip]}
    BY <1>5 DEF N!Respond
  <2>2. ip \in N!Prefix /\ <<N!ToLower(q.name), ip>> \in nameToIP
    BY <2>1 DEF N!LookupName
  <2>3. N!TypeOK'
    BY <1>5, <2>1, <2>2 DEF NamesInv, N!TypeOK, N!Respond
  <2>4. AnswersInv'
    BY <1>5, <2>1, <2>2 DEF NamesInv, AnswersInv, N!Respond
  <2>5. QED
    BY <1>5, <2>3, <2>4
    DEF NamesInv, N!AllocatorConsistent, N!ConnectedAsAsked, TakenBelowNext,
        ConsumedInv, N!Respond
<1>6. ASSUME NEW a \in answers, N!AcceptLookup(a) PROVE NamesInv'
  <2>1. PICK n \in N!Names :
          /\ <<a.ip, n>> \in ipToName
          /\ conns' = conns \cup {[q |-> a.q, svc |-> n]}
    BY <1>6 DEF N!AcceptLookup
  <2>2. a.q \in N!Questions /\ a.ip \in N!Prefix
    BY DEF NamesInv, N!TypeOK
  <2>3. n = N!ToLower(a.q.name)
    <3>1. <<n, a.ip>> \in nameToIP /\ <<N!ToLower(a.q.name), a.ip>> \in nameToIP
      BY <2>1, <2>2 DEF NamesInv, N!AllocatorConsistent, AnswersInv
    <3>2. QED
      BY <3>1 DEF NamesInv, N!AllocatorConsistent
  <2>4. N!TypeOK'
    BY <1>6, <2>1, <2>2 DEF NamesInv, N!TypeOK, N!AcceptLookup
  <2>5. N!ConnectedAsAsked'
    BY <2>1, <2>3 DEF NamesInv, N!ConnectedAsAsked
  <2>6. QED
    BY <1>6, <2>4, <2>5
    DEF NamesInv, N!AllocatorConsistent, TakenBelowNext, AnswersInv,
        ConsumedInv, N!AcceptLookup
<1>7. QED
  BY <1>1, <1>2, <1>3, <1>4, <1>5, <1>6 DEF N!Next

-----------------------------------------------------------------------------
(* The composition.                                                         *)

(* Every step of startInterceptor, runConsumer and the servers is a step of *)
(* the interceptor, of the names, or of both at once.                       *)
LEMMA ComposedStep ==
    [InterceptionNext]_<<vars, names>> => [Next]_vars /\ [N!Next]_names
<1> SUFFICES ASSUME [InterceptionNext]_<<vars, names>>
             PROVE  [Next]_vars /\ [N!Next]_names
  OBVIOUS
<1>1. CASE StartInterceptor
  BY <1>1, Zenon DEF StartInterceptor, Next, N!Next
<1>2. CASE AnswerQuery
  BY <1>2, Zenon DEF AnswerQuery, N!Next
<1>3. ASSUME NEW l \in Listeners, ResolveConn(l)
      PROVE  [Next]_vars /\ [N!Next]_names
  BY <1>3, Zenon DEF ResolveConn, Next, N!Next
<1>4. CASE Intercept
  BY <1>4, Zenon DEF Intercept, Next
<1>5. CASE UNCHANGED <<vars, names>>
  BY <1>5
<1>6. QED
  BY <1>1, <1>2, <1>3, <1>4, <1>5 DEF InterceptionNext

(* What is composed keeps what was specified of its parts: interception as  *)
(* main runs it implements both the interceptor and the service names.      *)
THEOREM ComposesBoth == InterceptionSpec => Spec /\ N!Spec
<1>1. InterceptionInit => Init /\ N!Init
  BY DEF InterceptionInit
<1>2. [InterceptionNext]_<<vars, names>> => [Next]_vars /\ [N!Next]_(N!vars)
  BY ComposedStep, Zenon DEF names, N!vars
<1>3. QED
  BY <1>1, <1>2, PTL DEF InterceptionSpec, Spec, N!Spec

(* In tproxy mode a connection is offered to Accept only after a lookup     *)
(* has found its service.                                                   *)
LookedUp ==
    transparent /\ (given # {} \/ \E l \in Listeners : loop[l] = "send")
        => conns # {}

InterceptionInv == OwnerInv /\ NamesInv /\ LookedUp

LEMMA LookedUpStep ==
    ASSUME InterceptionInv, [InterceptionNext]_<<vars, names>>
    PROVE  LookedUp'
<1>0. conns \subseteq conns'
  <2>1. CASE UNCHANGED names
    BY <2>1 DEF names
  <2>2. CASE N!Next
    BY <2>2
    DEF N!Next, N!AllocateKnown, N!Allocate, N!AllocateExhausted, N!Serve,
        N!Respond, N!AcceptLookup
  <2>3. QED
    BY <2>1, <2>2, ComposedStep
<1>1. ASSUME NEW l \in Listeners, ResolveConn(l) PROVE LookedUp'
  BY <1>1 DEF ResolveConn, N!AcceptLookup, LookedUp
<1>2. ASSUME NEW l \in Listeners, NEW c \in Conns, AcceptConn(l, c)
      PROVE  LookedUp'
  BY <1>0, <1>2 DEF AcceptConn, LookedUp, InterceptionInv, OwnerInv, TypeOK
<1>3. ASSUME NEW l \in Listeners, AcceptReturns(l) PROVE LookedUp'
  BY <1>0, <1>3 DEF AcceptReturns, LookedUp, InterceptionInv, OwnerInv, TypeOK
<1>4. ASSUME NEW l \in Listeners,
             Bind(l) \/ DropConn(l) \/ AcceptError(l) \/ ReportError(l)
               \/ LoopClosed(l) \/ CloseListener(l)
      PROVE  LookedUp'
  BY <1>0, <1>4
  DEF Bind, DropConn, AcceptError, ReportError, LoopClosed, CloseListener,
      LookedUp, InterceptionInv, OwnerInv, TypeOK
<1>5. CASE UNCHANGED <<transparent, given, loop>>
  BY <1>0, <1>5 DEF LookedUp, InterceptionInv
<1>6. CASE StartInterceptor
  BY <1>4, <1>5, <1>6 DEF StartInterceptor, BindFails, vars
<1>7. CASE Intercept
  BY <1>2, <1>3, <1>4, <1>5, <1>7
  DEF Intercept, CallAccept, AcceptReturnsError, AcceptReturnsClosed,
      AcceptCancelled, Close
<1>8. QED
  BY <1>1, <1>5, <1>6, <1>7 DEF InterceptionNext, AnswerQuery, vars

LEMMA InterceptionInvariant == InterceptionSpec => []InterceptionInv
<1>1. InterceptionInit => InterceptionInv
  BY OwnerInit, NamesInit DEF InterceptionInit, InterceptionInv, LookedUp, Init
<1>2. InterceptionInv /\ [InterceptionNext]_<<vars, names>> => InterceptionInv'
  <2> SUFFICES ASSUME InterceptionInv, [InterceptionNext]_<<vars, names>>
               PROVE  InterceptionInv'
    OBVIOUS
  <2>1. ASSUME UNCHANGED vars PROVE OwnerInv'
    BY <2>1 DEF InterceptionInv, vars, OwnerInv, TypeOK, HeldInv, OneOwner
  <2>2. OwnerInv'
    BY <2>1, OwnerStep, ComposedStep DEF InterceptionInv
  <2>3. ASSUME UNCHANGED names PROVE NamesInv'
    BY <2>3
    DEF InterceptionInv, names, NamesInv, N!TypeOK, N!AllocatorConsistent,
        N!ConnectedAsAsked, TakenBelowNext, AnswersInv, ConsumedInv
  <2>4. NamesInv'
    BY <2>3, NamesStep, ComposedStep DEF InterceptionInv
  <2>5. QED
    BY <2>2, <2>4, LookedUpStep DEF InterceptionInv
<1>3. QED
  BY <1>1, <1>2, PTL DEF InterceptionSpec

(* A connection has one owner, however Close, Accept and the accept loops   *)
(* interleave.                                                              *)
THEOREM ConnectionHasOneOwner == InterceptionSpec => []OneOwner
<1>1. InterceptionInv => OneOwner
  BY DEF InterceptionInv, OwnerInv
<1>2. QED
  BY <1>1, InterceptionInvariant, PTL

(* The allocator's maps are inverse and one to one, and the prefix is full  *)
(* when Allocate fails, for every prefix and every list of services.        *)
THEOREM AllocatorIsConsistent == InterceptionSpec => []AllocatorConsistent
<1>1. InterceptionInv => AllocatorConsistent
  BY DEF InterceptionInv, NamesInv, AllocatorConsistent
<1>2. QED
  BY <1>1, InterceptionInvariant, PTL

(* A client that asked for a service is connected to that service.          *)
THEOREM ClientReachesService == InterceptionSpec => []ConnectedAsAsked
<1>1. InterceptionInv => ConnectedAsAsked
  BY DEF InterceptionInv, NamesInv, LookedUp, ConnectedAsAsked
<1>2. QED
  BY <1>1, InterceptionInvariant, PTL

(* A service consumed under a lower-case name is found by every question    *)
(* with the configured suffix, in any case.                                 *)
THEOREM ServiceIsFound == InterceptionSpec => []ConsumedResolves
<1>1. InterceptionInv => ConsumedResolves
  <2> SUFFICES ASSUME InterceptionInv, NEW n \in consumed,
                      NEW q \in N!Questions, n.lower,
                      q.name.word = n.word,
                      q.suffix = IF Suffix THEN "ours" ELSE ""
               PROVE  N!LookupName(q) # {}
    BY DEF ConsumedResolves, N!ConsumedResolves
  <2>1. n \in N!Names /\ q.name \in N!Names
    BY DEF InterceptionInv, NamesInv, N!TypeOK, N!Questions
  <2>2. N!ToLower(q.name) = n
    BY <2>1 DEF N!Names, N!ToLower
  <2>3. PICK ip \in N!Prefix : <<n, ip>> \in nameToIP
    BY DEF InterceptionInv, NamesInv, ConsumedInv
  <2>4. QED
    BY <2>2, <2>3 DEF N!LookupName
<1>2. QED
  BY <1>1, InterceptionInvariant, PTL
=============================================================================
