---------------------------- MODULE MCGovernance ----------------------------
(* A small instance of Governance for TLC. *)
EXTENDS Governance, TLC

CONSTANTS s1, s2, s3, k1, k2, stranger, p1, p2, m1, m2

\* Calls with a fallback in both orders and calls for the other model; calls
\* of a key nobody configured and of a key with quotas of tokens only.
Ask(key, model, chain) == [key |-> key, model |-> model, chain |-> chain]
AllCalls ==
    {Ask(k1, m1, <<p1, p2>>), Ask(k1, m1, <<p2, p1>>), Ask(k1, m2, <<p1>>),
     Ask(stranger, m1, <<p1, p2>>), Ask(k2, m1, <<p1>>)}

\* k1 has a quota of requests, and one provider and one model it may use; k2
\* has quotas of tokens and may use everything.
Only(key, v, other) == [k \in Keys |-> IF k = key THEN v ELSE other]
TwoRequests == Only(k1, 2, 0)
ThreeTokens == Only(k2, 3, 0)
OneProvider == Only(k1, {p1}, {})
OneModel == Only(k1, {m1}, {})

\* The input and the output tokens of a response.
SmallOrLarge == {<<1, 2>>, <<2, 1>>}

Symmetry == Permutations(Clients)

=============================================================================
