---------------------------- MODULE ServiceNames ----------------------------
(***************************************************************************)
(* How transparent interception turns a service name into an address and   *)
(* an address back into a service: VIPAllocator (pkg/intercept/vip.go),    *)
(* DNSServer (dns.go), the lookup of the tproxy accept loop                *)
(* (tproxy_linux.go) and the order in which startInterceptor               *)
(* (cmd/outrelay-agent/main.go) sets them up.                              *)
(*                                                                         *)
(* An address is a number; the prefix is First .. Last with the network    *)
(* address left out.  A name is a word and whether it is spelled in lower  *)
(* case, which is all ToLower changes; a question is a name, what follows  *)
(* it and a record type.                                                   *)
(***************************************************************************)
EXTENDS Naturals, Sequences, FiniteSets

CONSTANTS
    Words,      \* the words service names are made of
    First, Last,\* the prefix, its network address excluded
    Block,      \* 256: addresses of a /24
    Suffix,     \* a DNS suffix is configured
    MaxConsumes \* bound: entries of the consume list

Names == [word : Words, lower : BOOLEAN]

ToLower(name) == [name EXCEPT !.lower = TRUE]

Questions == [name : Names, suffix : {"", "ours", "foreign"},
              type : {"A", "AAAA", "other"}]

VARIABLES
    consumes,   \* --consume values not yet allocated
    consumed,   \* the ones that were
    nameToIP,   \* the two maps of the allocator, as sets of pairs
    ipToName,
    next,       \* the address Allocate tries first
    phase,      \* "allocate", then "serve", or "failed"
    answers,    \* [q, ip] that the DNS server has given, cached by clients
    conns       \* [q, svc] that tproxy has accepted from those clients

vars == <<consumes, consumed, nameToIP, ipToName, next, phase, answers, conns>>

Prefix == First .. Last

(* One type invariant.                                                      *)
TypeOK ==
    /\ consumes \in Seq(Names)
    /\ consumed \subseteq Names
    /\ nameToIP \subseteq Names \X Prefix
    /\ ipToName \subseteq Prefix \X Names
    /\ next \in Nat
    /\ phase \in {"allocate", "serve", "failed"}
    /\ answers \subseteq [q : Questions, ip : Prefix]
    /\ conns \subseteq [q : Questions, svc : Names]

Init ==
    /\ consumes \in UNION {[1..n -> Names] : n \in 1..MaxConsumes}
    /\ consumed = {}
    /\ nameToIP = {}
    /\ ipToName = {}
    /\ next = First
    /\ phase = "allocate"
    /\ answers = {}
    /\ conns = {}

-----------------------------------------------------------------------------
(* Not the first or the last address of a /24.                              *)
isUsable(ip) == ip % Block \notin {0, Block - 1}

(* The addresses the loop of Allocate may return, all at or after next.     *)
Available ==
    {ip \in Prefix : ip >= next /\ isUsable(ip)
                     /\ ~\E n \in Names : <<ip, n>> \in ipToName}

(* Allocate, one entry of the consume list.  A name that has an address     *)
(* keeps it.                                                                *)
AllocateKnown ==
    /\ phase = "allocate"
    /\ consumes # <<>>
    /\ \E ip \in Prefix : <<Head(consumes), ip>> \in nameToIP
    /\ consumed' = consumed \cup {Head(consumes)}
    /\ consumes' = Tail(consumes)
    /\ UNCHANGED <<nameToIP, ipToName, next, phase, answers, conns>>

(* Allocate that forgets to advance and to look whether an address is       *)
(* taken.                                                                   *)
AllocateTwice ==
    /\ phase = "allocate"
    /\ consumes # <<>>
    /\ ~\E ip \in Prefix : <<Head(consumes), ip>> \in nameToIP
    /\ \E ip \in {i \in Prefix : isUsable(i)} :
        /\ nameToIP' = nameToIP \cup {<<Head(consumes), ip>>}
        /\ ipToName' = ipToName \cup {<<ip, Head(consumes)>>}
        /\ next' = next
    /\ consumed' = consumed \cup {Head(consumes)}
    /\ consumes' = Tail(consumes)
    /\ UNCHANGED <<phase, answers, conns>>

(* A new name gets the first usable address that is free.                   *)
Allocate ==
    /\ phase = "allocate"
    /\ consumes # <<>>
    /\ ~\E ip \in Prefix : <<Head(consumes), ip>> \in nameToIP
    /\ \E ip \in Available :
        /\ \A i \in Available : ip <= i
        /\ nameToIP' = nameToIP \cup {<<Head(consumes), ip>>}
        /\ ipToName' = ipToName \cup {<<ip, Head(consumes)>>}
        /\ next' = ip + 1
    /\ consumed' = consumed \cup {Head(consumes)}
    /\ consumes' = Tail(consumes)
    /\ UNCHANGED <<phase, answers, conns>>

(* The loop runs off the prefix: Allocate fails, and main exits.            *)
AllocateExhausted ==
    /\ phase = "allocate"
    /\ consumes # <<>>
    /\ ~\E ip \in Prefix : <<Head(consumes), ip>> \in nameToIP
    /\ Available = {}
    /\ next' = IF next > Last THEN next ELSE Last + 1
    /\ phase' = "failed"
    /\ UNCHANGED <<consumes, consumed, nameToIP, ipToName, answers, conns>>

(* startInterceptor starts the DNS server and the interceptor.              *)
Serve ==
    /\ phase = "allocate"
    /\ consumes = <<>>
    /\ phase' = "serve"
    /\ UNCHANGED <<consumes, consumed, nameToIP, ipToName, next, answers,
                   conns>>

-----------------------------------------------------------------------------
(* A lookup that takes the question as it was typed.                        *)
LookupNameAsTyped(q) ==
    IF q.suffix # (IF Suffix THEN "ours" ELSE "")
    THEN {}
    ELSE {ip \in Prefix : <<q.name, ip>> \in nameToIP}

(* lookup: without a configured suffix the whole question is the name, with *)
(* one only a question that ends in it is considered; then LookupName of    *)
(* the lower-cased name.                                                    *)
LookupName(q) ==
    IF q.suffix # (IF Suffix THEN "ours" ELSE "")
    THEN {}
    ELSE {ip \in Prefix : <<ToLower(q.name), ip>> \in nameToIP}

(* respond that answers with whatever address is allocated.                 *)
RespondAny(q) ==
    /\ phase = "serve"
    /\ q.type = "A"
    /\ \E p \in nameToIP : answers' = answers \cup {[q |-> q, ip |-> p[2]]}
    /\ UNCHANGED <<consumes, consumed, nameToIP, ipToName, next, phase, conns>>

(* respond, for a question that gets an address.  All others are answered   *)
(* NXDOMAIN (unknown names, AAAA) or not implemented, which changes         *)
(* nothing.                                                                 *)
Respond(q) ==
    /\ phase = "serve"
    /\ q.type = "A"
    /\ \E ip \in LookupName(q) : answers' = answers \cup {[q |-> q, ip |-> ip]}
    /\ UNCHANGED <<consumes, consumed, nameToIP, ipToName, next, phase, conns>>

(* A client connects to an address it was given; iptables redirects the     *)
(* connection, acceptLoop looks its original destination up and hands the   *)
(* service to runConsumer.  A miss closes the connection.                   *)
AcceptLookup(a) ==
    /\ \E n \in Names :
        /\ <<a.ip, n>> \in ipToName
        /\ conns' = conns \cup {[q |-> a.q, svc |-> n]}
    /\ UNCHANGED <<consumes, consumed, nameToIP, ipToName, next, phase,
                   answers>>

Next ==
    \/ AllocateKnown
    \/ Allocate
    \/ AllocateExhausted
    \/ Serve
    \/ \E q \in Questions : Respond(q)
    \/ \E a \in answers : AcceptLookup(a)

Spec == Init /\ [][Next]_vars

-----------------------------------------------------------------------------
(* Properties.                                                              *)

(* The two maps of the allocator are inverse to each other and one to one:  *)
(* a service has one address and an address one service, so that Lookup     *)
(* undoes LookupName.  And Allocate fails only when every usable address of *)
(* the prefix is taken.                                                     *)
AllocatorConsistent ==
    /\ \A n \in Names, ip \in Prefix :
        <<n, ip>> \in nameToIP <=> <<ip, n>> \in ipToName
    /\ \A p, r \in nameToIP : p[1] = r[1] <=> p[2] = r[2]
    /\ phase = "failed" =>
        \A ip \in Prefix : isUsable(ip) => \E n \in Names : <<n, ip>> \in nameToIP

(* Whoever asked for a service is connected to that service: through DNS,   *)
(* the address and the reverse lookup, the name that comes out is the name  *)
(* that was asked for.                                                      *)
ConnectedAsAsked ==
    \A c \in conns : c.svc = ToLower(c.q.name)

(* Every service consumed under a lower-case name can be asked for: with    *)
(* the suffix that is configured and in any case, its address is found.     *)
ConsumedResolves ==
    phase = "serve" =>
        \A n \in consumed, q \in Questions :
            /\ n.lower
            /\ q.type = "A"
            /\ q.name.word = n.word
            /\ q.suffix = IF Suffix THEN "ours" ELSE ""
            => LookupName(q) # {}

-----------------------------------------------------------------------------
(* Claims of comments that the code does not keep.                          *)

(* The server's comment: bare service names are recognized.                 *)
BareNamesResolve ==
    phase = "serve" =>
        \A n \in consumed, q \in Questions :
            q.type = "A" /\ q.name = n /\ n.lower /\ q.suffix = ""
                => LookupName(q) # {}

(* The server's comment: names are recognized whatever their case.          *)
CaseInsensitive ==
    phase = "serve" =>
        \A n \in consumed, q \in Questions :
            /\ q.type = "A"
            /\ q.name.word = n.word
            /\ q.suffix = IF Suffix THEN "ours" ELSE ""
            => LookupName(q) # {}
=============================================================================
