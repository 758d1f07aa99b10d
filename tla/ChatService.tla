---------------------------- MODULE ChatService ----------------------------
(***************************************************************************)
(* What HandleChat promises its callers, without queues, workers, retries  *)
(* and Shutdown: the names of the chain are asked one after the other, the *)
(* next one only when the one before has refused or failed in a way that   *)
(* allows it; the caller gets the verdict of the name asked last; and only *)
(* for a caller that gave up may a provider still be answering a question  *)
(* that is no longer asked.                                                *)
(***************************************************************************)
EXTENDS Naturals, Sequences

CONSTANTS
    Requests,     \* the requests
    Cancellable,  \* the requests whose caller may give up
    Chain         \* Chain[r]: the names to ask for request r, in order

VARIABLES
    phase,      \* new, asking, judged, answered or aborted
    at,         \* the position in the chain of the name asked now
    verdict,    \* what the attempt that ended last came to
    said,       \* everything the providers answered
    cancelled   \* the requests whose caller gave up

vars == <<phase, at, verdict, said, cancelled>>

Unknown == [kind |-> "none"]

\* What a provider may answer; "nil" is neither a response nor an error.
Spoken == {"ok", "transient", "fatal", "deadline", "canceled", "nil"}

\* What an attempt comes to when no provider was asked.
Refusals == {"noqueue", "closed", "full"}

Verdict(r, k) ==
    [req |-> r, pos |-> at[r], prov |-> Chain[r][at[r]], kind |-> k]

Final(r) == verdict[r].kind \in {"ok", "nil", "fatal"} \/ at[r] = Len(Chain[r])

Init ==
    /\ phase = [r \in Requests |-> "new"]
    /\ at = [r \in Requests |-> 1]
    /\ verdict = [r \in Requests |-> Unknown]
    /\ said = {}
    /\ cancelled = {}

Accept(r) ==
    /\ phase[r] = "new"
    /\ phase' = [phase EXCEPT ![r] = "asking"]
    /\ UNCHANGED <<at, verdict, said, cancelled>>

Reject(r) ==
    /\ phase[r] = "new"
    /\ phase' = [phase EXCEPT ![r] = "answered"]
    /\ UNCHANGED <<at, verdict, said, cancelled>>

\* A provider answers the question it was asked, once.
Say(r, k, kind) ==
    /\ ~ \E m \in said : m.req = r /\ m.pos = k
    /\ r \notin cancelled => phase[r] = "asking" /\ k = at[r]
    /\ said' = said \cup
          {[req |-> r, pos |-> k, prov |-> Chain[r][k], kind |-> kind]}
    /\ UNCHANGED <<phase, at, verdict, cancelled>>

\* The attempt ends: with what the provider said, without asking it, or
\* because the caller gave up.
Judge(r) ==
    /\ phase[r] = "asking"
    /\ \E m \in said \cup {Verdict(r, k) : k \in Refusals \cup {"canceled"}} :
          /\ m.req = r /\ m.pos = at[r]
          /\ m \in said \/ m.kind \in Refusals \/ r \in cancelled
          /\ r \notin cancelled /\ m.kind \in Refusals =>
                ~ \E n \in said : n.req = r /\ n.pos = at[r]
          /\ verdict' = [verdict EXCEPT ![r] = m]
    /\ phase' = [phase EXCEPT ![r] = "judged"]
    /\ UNCHANGED <<at, said, cancelled>>

AskNext(r) ==
    /\ phase[r] = "judged"
    /\ ~Final(r)
    /\ at' = [at EXCEPT ![r] = @ + 1]
    /\ verdict' = [verdict EXCEPT ![r] = Unknown]
    /\ phase' = [phase EXCEPT ![r] = "asking"]
    /\ UNCHANGED <<said, cancelled>>

Answer(r) ==
    /\ phase[r] = "judged"
    /\ Final(r)
    /\ phase' = [phase EXCEPT ![r] = "answered"]
    /\ UNCHANGED <<at, verdict, said, cancelled>>

\* The goroutine of the request panics while the system shuts down.
Abort(r) ==
    /\ phase[r] = "asking"
    /\ phase' = [phase EXCEPT ![r] = "aborted"]
    /\ UNCHANGED <<at, verdict, said, cancelled>>

GiveUp(r) ==
    /\ r \in Cancellable \ cancelled
    /\ phase[r] \in {"asking", "judged"}
    /\ cancelled' = cancelled \cup {r}
    /\ UNCHANGED <<phase, at, verdict, said>>

Proceed(r) == Judge(r) \/ AskNext(r) \/ Answer(r) \/ Abort(r)

Next ==
    \E r \in Requests :
        \/ Accept(r) \/ Reject(r) \/ GiveUp(r) \/ Proceed(r)
        \/ \E k \in 1..Len(Chain[r]), kind \in Spoken : Say(r, k, kind)

Spec == Init /\ [][Next]_vars

=============================================================================
