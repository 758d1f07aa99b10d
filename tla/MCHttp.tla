------------------------------- MODULE MCHttp -------------------------------
(* A small instance of Http for TLC. *)
EXTENDS Http

CONSTANTS c1, c2

\* One client sends both headers, the other only a bearer token.
SomeHeaders ==
    [c \in {c1, c2} |-> IF c = c1 THEN [own |-> "vk1", bearer |-> "vk2"]
                                  ELSE [own |-> "", bearer |-> "vk2"]]

\* A stream, then a chat request of one of three kinds, then a look at the summaries.
StreamThenList == <<{"stream"}, {"plain", "stream", "malformed"}, {"list"}>>

Alternating == [q \in 1..3 |-> IF q = 2 THEN "p2" ELSE "p1"]

=============================================================================
