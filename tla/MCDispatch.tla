----------------------------- MODULE MCDispatch -----------------------------
(* Small instances of Dispatch for TLC. *)
EXTENDS Dispatch

CONSTANTS r1, r2, r3, p1, p2, ghost, c1, c2

\* Two requests that prefer different providers and fall back to each other's.
CrossChains == [r \in Requests |-> IF r = r1 THEN <<p1, p2>> ELSE <<p2, p1>>]

\* A chain whose second name was never registered, and a chain of one name.
GhostChains == [r \in Requests |-> IF r = r1 THEN <<p1, ghost>> ELSE <<p1>>]

=============================================================================
