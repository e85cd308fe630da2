------------------------------ MODULE MCAgent ------------------------------
(* Agent with three relays, a winner, a loser and an error, and a provider  *)
(* with a loopback, a private and a global address.                         *)
EXTENDS Agent

CONSTANTS a1, a2, a3

Addresses == << [scope |-> "loopback", v6 |-> FALSE],
                [scope |-> "private", v6 |-> FALSE],
                [scope |-> "global", v6 |-> TRUE] >>
=============================================================================
