------------------------- MODULE MCResumeRendezvous -------------------------
(* ResumeRendezvous with three agents: two streams between a and b, so that *)
(* their loops can cross, one between b and c, so that c depends on a loop  *)
(* that waits for a.                                                        *)
EXTENDS ResumeRendezvous

CONSTANTS a, b, c

MCAgents == {a, b, c}

MCEnds == <<{a, b}, {a, b}, {b, c}>>
=============================================================================
