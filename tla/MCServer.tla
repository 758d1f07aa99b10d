------------------------------ MODULE MCServer ------------------------------
(* A small instance of Server for TLC. *)
EXTENDS Server

CONSTANTS r1, r2, r3, p1, p2, c1

\* A request with a fallback and one without.
Chains == [r \in Requests |-> IF r = r1 THEN <<p1, p2>> ELSE <<p2>>]

=============================================================================
