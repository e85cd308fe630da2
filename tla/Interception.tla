---------------------------- MODULE Interception ----------------------------
(***************************************************************************)
(* How an agent that consumes services intercepts local connections:       *)
(* startInterceptor and runConsumer (cmd/outrelay-agent/main.go) over the  *)
(* interceptors (module Interceptor) and, in tproxy mode, over the virtual *)
(* addresses and the DNS server (module ServiceNames).  The explicit       *)
(* interceptor needs no names: its mappings say which service a listener   *)
(* is for.                                                                 *)
(***************************************************************************)
EXTENDS Interceptor, Sequences

CONSTANTS Words, First, Last, Block, Suffix, MaxConsumes  \* as in ServiceNames

ASSUME PrefixAssumption == First \in Nat /\ Last \in Nat

VARIABLES consumes, consumed, nameToIP, ipToName, next, phase, answers, conns

N == INSTANCE ServiceNames

names == <<consumes, consumed, nameToIP, ipToName, next, phase, answers, conns>>

(* The list is short in explicit mode because nothing is allocated for it. *)
InterceptionInit ==
    /\ Init
    /\ N!Init
    /\ ~transparent => Len(consumes) = 1

(* The switch on the mode: tproxy mode allocates an address per service,    *)
(* starts the DNS server and goes on to NewTProxy; explicit mode goes       *)
(* straight to NewExplicit.                                                 *)
StartInterceptor ==
    \/ /\ transparent
       /\ N!AllocateKnown \/ N!Allocate \/ N!AllocateExhausted \/ N!Serve
       /\ UNCHANGED vars
    \/ /\ transparent => phase = "serve"
       /\ BindFails \/ \E l \in Listeners : Bind(l)
       /\ UNCHANGED names

(* The DNS server answers while it runs, from before the listener is bound. *)
AnswerQuery ==
    /\ \E q \in N!Questions : N!Respond(q)
    /\ UNCHANGED vars

(* The transparent loop looks up where its connection was going.  A client  *)
(* goes to an address that it was given; one that goes elsewhere is         *)
(* dropped (DropConn).                                                      *)
ResolveConn(l) ==
    /\ Resolve(l)
    /\ \E a \in answers : N!AcceptLookup(a)

Intercept ==
    /\ \/ \E l \in Listeners :
            \/ \E c \in Conns : AcceptConn(l, c)
            \/ DropConn(l)
            \/ AcceptError(l)
            \/ ReportError(l)
            \/ LoopClosed(l)
            \/ AcceptReturns(l)
            \/ CloseListener(l)
       \/ CallAccept
       \/ AcceptReturnsError
       \/ AcceptReturnsClosed
       \/ AcceptCancelled
       \/ Close
    /\ UNCHANGED names

InterceptionNext ==
    \/ StartInterceptor
    \/ AnswerQuery
    \/ \E l \in Listeners : ResolveConn(l)
    \/ Intercept

(* What an accept loop does by itself; Resolve and DropConn are the two     *)
(* ends of the same lookup.                                                 *)
AcceptLoopStep(l) ==
    \/ ResolveConn(l)
    \/ /\ \/ l \notin open /\ AcceptError(l)
          \/ DropConn(l)
          \/ ReportError(l)
          \/ LoopClosed(l)
       /\ UNCHANGED names

(* The goroutines run when they can, and a select does not pass over a      *)
(* ready case for ever.  Connections need not come, a working listener need *)
(* not fail, ctx need not end and Close need not be called.                 *)
InterceptionFairness ==
    /\ \A l \in Listeners :
        /\ WF_<<vars, names>>(AcceptLoopStep(l))
        /\ WF_<<vars, names>>(CloseListener(l) /\ UNCHANGED names)
    /\ WF_<<vars, names>>(CallAccept /\ UNCHANGED names)
    /\ SF_<<vars, names>>(AcceptReturnsError /\ UNCHANGED names)

InterceptionSpec ==
    /\ InterceptionInit
    /\ [][InterceptionNext]_<<vars, names>>
    /\ InterceptionFairness

-----------------------------------------------------------------------------
(* Properties, beside OneOwner, LoopsEnd and ErrorSurfaces of Interceptor.  *)

(* The allocator's two maps are inverse and one to one, and a name is       *)
(* refused an address only when the prefix is full.                         *)
AllocatorConsistent == N!AllocatorConsistent

(* Every service consumed under a lower-case name can be asked for.         *)
ConsumedResolves == N!ConsumedResolves

(* Whoever asked the DNS server for a service and connects to the address   *)
(* it was given is connected to that service, and to no other; and a        *)
(* transparent agent has given runConsumer nothing before some client has   *)
(* connected.                                                               *)
ConnectedAsAsked ==
    /\ N!ConnectedAsAsked
    /\ transparent /\ given # {} => conns # {}
=============================================================================
