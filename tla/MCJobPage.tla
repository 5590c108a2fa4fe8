----------------------------- MODULE MCJobPage -----------------------------
(* The instance of the job queue and its page for TLC: all requests come   *)
(* from one client.                                                        *)
EXTENDS JobPage

CONSTANTS client, j1, j2

MCClientOf == [j \in Job |-> client]

=============================================================================
