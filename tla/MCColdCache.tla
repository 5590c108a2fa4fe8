---------------------------- MODULE MCColdCache ----------------------------
(* The instance of ColdCache for TLC. The three files fit by their size,   *)
(* but not by the count cap; what the cap drops makes them too large.      *)
EXTENDS ColdCache

CONSTANTS u1, u2, u3

MCSizeOf == [u \in Uri |-> 1]
MCPlans == {{u1, u2}, {u2, u3}}

=============================================================================
