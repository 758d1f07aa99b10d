----------------------------- MODULE Governance -----------------------------
(***************************************************************************)
(* The governance plugin (plugin/governance) in its place around the       *)
(* attempts of HandleChat: PreHook admits every attempt of a request       *)
(* against the configuration and the usage of its virtual key, PostHook    *)
(* accounts a successful one.  The check reads the counters without the    *)
(* lock that PostHook takes, one counter after the other, and nothing is   *)
(* reserved between the check and the accounting.                          *)
(*                                                                         *)
(* Clients send one request after the other and run side by side.  What a  *)
(* provider does is an outcome here; Dispatch models how it is reached.    *)
(***************************************************************************)
EXTENDS Integers, Sequences, FiniteSets

CONSTANTS
    Clients,           \* the requests that may be in the gateway together
    Calls,             \* what a client may ask: [key, model, chain]
    Keys,              \* the configured virtual keys
    AllowedProviders,  \* AllowedProviders[k], {} for every provider
    AllowedModels,     \* AllowedModels[k], {} for every model
    MaxRequests,       \* MaxRequests[k], not positive for no limit
    MaxInputTokens,    \* MaxInputTokens[k], not positive for no limit
    MaxOutputTokens,   \* MaxOutputTokens[k], not positive for no limit
    Costs,             \* the <<input, output>> tokens one response may use
    Horizon            \* the accounted requests of a key that TLC explores

ASSUME GovernanceAssumption ==
    /\ IsFiniteSet(Clients)
    /\ \A c \in Calls : c.chain # <<>>
    /\ MaxRequests \in [Keys -> Int]
    /\ MaxInputTokens \in [Keys -> Int]
    /\ MaxOutputTokens \in [Keys -> Int]
    /\ Costs \subseteq Nat \X Nat
    /\ \E t \in Costs : \A u \in Costs : u[1] <= t[1]
    /\ Horizon \in Nat

VARIABLES
    pc,       \* pc[s]: where the request of client s is
    call,     \* call[s]: what it asks
    pos,      \* pos[s]: fallbackIndex + 1
    out,      \* out[s]: what its last attempt came to
    cost,     \* cost[s]: the tokens of its last response
    usage,    \* usage[k]: the UsageSnapshot of key k
    charged,  \* charged[s]: how often the request of s was accounted (history)
    spent     \* spent[s]: its key was exhausted when it came in (history)

vars == <<pc, call, pos, out, cost, usage, charged, spent>>

-----------------------------------------------------------------------------
Provider(s) == call[s].chain[pos[s]]
Key(s) == call[s].key

Outcomes == {"ok", "nil", "retryable", "fatal"}

\* validateProvider, validateModel
Admitted(k, provider, model) ==
    /\ AllowedProviders[k] = {} \/ provider \in AllowedProviders[k]
    /\ AllowedModels[k] = {} \/ model \in AllowedModels[k]

\* One comparison of validateQuota; the first form lets one request too many in.
BugExceeded(limit, n) == limit > 0 /\ n > limit
Exceeded(limit, n) == limit > 0 /\ n >= limit

Exhausted(k) ==
    \/ Exceeded(MaxRequests[k], usage[k].requests)
    \/ Exceeded(MaxInputTokens[k], usage[k].input)
    \/ Exceeded(MaxOutputTokens[k], usage[k].output)

NoUse == [requests |-> 0, input |-> 0, output |-> 0]

Init ==
    /\ pc = [s \in Clients |-> "idle"]
    /\ call \in [Clients -> Calls]
    /\ pos = [s \in Clients |-> 1]
    /\ out = [s \in Clients |-> "ok"]
    /\ cost = [s \in Clients |-> <<0, 0>>]
    /\ usage = [k \in Keys |-> NoUse]
    /\ charged = [s \in Clients |-> 0]
    /\ spent = [s \in Clients |-> FALSE]

Goto(s, where) == pc' = [pc EXCEPT ![s] = where]

\* HandleChat begins with the first name of the chain; a client that has its
\* answer may ask again.
Arrive(s, c) ==
    /\ pc[s] \in {"idle", "returned"}
    /\ c.key \in Keys => usage[c.key].requests < Horizon
    /\ call' = [call EXCEPT ![s] = c]
    /\ pos' = [pos EXCEPT ![s] = 1]
    /\ charged' = [charged EXCEPT ![s] = 0]
    /\ spent' = [spent EXCEPT ![s] = c.key \in Keys /\ Exhausted(c.key)]
    /\ out' = [out EXCEPT ![s] = "ok"]
    /\ cost' = [cost EXCEPT ![s] = <<0, 0>>]
    /\ Goto(s, "prehook")
    /\ UNCHANGED usage

\* PreHook: the key is looked up under the read lock; its configuration never
\* changes.  A RejectionError is an error like another to HandleChat.
PreHook(s) ==
    /\ pc[s] = "prehook"
    /\ IF Key(s) \in Keys /\ Admitted(Key(s), Provider(s), call[s].model)
       THEN Goto(s, "requests") /\ UNCHANGED out
       ELSE Goto(s, "attempted") /\ out' = [out EXCEPT ![s] = "rejected"]
    /\ UNCHANGED <<call, pos, cost, usage, charged, spent>>

\* validateQuota: the three counters are read at three moments.
CheckQuota(s, here, limit, n, there) ==
    /\ pc[s] = here
    /\ IF Exceeded(limit, n)
       THEN Goto(s, "attempted") /\ out' = [out EXCEPT ![s] = "rejected"]
       ELSE Goto(s, there) /\ UNCHANGED out
    /\ UNCHANGED <<call, pos, cost, usage, charged, spent>>

\* One counter compared where another is meant.
BugCheckOutput(s) ==
    CheckQuota(s, "output", MaxOutputTokens[Key(s)], usage[Key(s)].input, "running")

CheckRequests(s) ==
    CheckQuota(s, "requests", MaxRequests[Key(s)], usage[Key(s)].requests, "input")
CheckInput(s) ==
    CheckQuota(s, "input", MaxInputTokens[Key(s)], usage[Key(s)].input, "output")
CheckOutput(s) ==
    CheckQuota(s, "output", MaxOutputTokens[Key(s)], usage[Key(s)].output, "running")

\* executeRequest returns.
Execute(s, outcome, tokens) ==
    /\ pc[s] = "running"
    /\ out' = [out EXCEPT ![s] = outcome]
    /\ cost' = [cost EXCEPT ![s] = IF outcome = "ok" THEN tokens ELSE <<0, 0>>]
    /\ Goto(s, "posthook")
    /\ UNCHANGED <<call, pos, usage, charged, spent>>

\* Every attempt is accounted, a failed one too.
BugPostHookPerAttempt(s) ==
    /\ pc[s] = "posthook"
    /\ usage' = [usage EXCEPT ![Key(s)] =
          [requests |-> @.requests + 1,
           input |-> @.input + cost[s][1],
           output |-> @.output + cost[s][2]]]
    /\ charged' = [charged EXCEPT ![s] = @ + 1]
    /\ Goto(s, "attempted")
    /\ UNCHANGED <<call, pos, out, cost, spent>>

\* PostHook: only an attempt with a response and no error is accounted, the
\* three counters under the lock.
PostHook(s) ==
    /\ pc[s] = "posthook"
    /\ IF out[s] = "ok"
       THEN /\ usage' = [usage EXCEPT ![Key(s)] =
                 [requests |-> @.requests + 1,
                  input |-> @.input + cost[s][1],
                  output |-> @.output + cost[s][2]]]
            /\ charged' = [charged EXCEPT ![s] = @ + 1]
       ELSE UNCHANGED <<usage, charged>>
    /\ Goto(s, "attempted")
    /\ UNCHANGED <<call, pos, out, cost, spent>>

\* The hooks run once for the request and not once for every attempt.
BugFallbackUnchecked(s) ==
    /\ pc[s] = "attempted"
    /\ out[s] \in {"retryable", "rejected"}
    /\ pos[s] < Len(call[s].chain)
    /\ pos' = [pos EXCEPT ![s] = @ + 1]
    /\ Goto(s, "running")
    /\ UNCHANGED <<call, out, cost, usage, charged, spent>>

\* HandleChat: another attempt, with its own hooks, after any error but a
\* NonRetryableError; a rejection is not one.
Fallback(s) ==
    /\ pc[s] = "attempted"
    /\ out[s] \in {"retryable", "rejected"}
    /\ pos[s] < Len(call[s].chain)
    /\ pos' = [pos EXCEPT ![s] = @ + 1]
    /\ Goto(s, "prehook")
    /\ UNCHANGED <<call, out, cost, usage, charged, spent>>

Return(s) ==
    /\ pc[s] = "attempted"
    /\ out[s] \in {"ok", "nil", "fatal"} \/ pos[s] = Len(call[s].chain)
    /\ Goto(s, "returned")
    /\ UNCHANGED <<call, pos, out, cost, usage, charged, spent>>

Next ==
    \E s \in Clients :
        \/ \E c \in Calls : Arrive(s, c)
        \/ PreHook(s) \/ CheckRequests(s) \/ CheckInput(s) \/ CheckOutput(s)
        \/ \E o \in Outcomes, t \in Costs : Execute(s, o, t)
        \/ PostHook(s) \/ Fallback(s) \/ Return(s)

Spec == Init /\ [][Next]_vars

-----------------------------------------------------------------------------
(* Properties *)

PastRequests == {"input", "output", "running", "posthook"}

TypeOK ==
    /\ pc \in [Clients -> {"idle", "prehook", "requests", "input", "output",
                           "running", "posthook", "attempted", "returned"}]
    /\ call \in [Clients -> Calls]
    /\ pos \in [Clients -> Nat \ {0}]
    /\ out \in [Clients -> Outcomes \cup {"rejected"}]
    /\ cost \in [Clients -> Nat \X Nat]
    /\ usage \in [Keys -> [requests : Nat, input : Nat, output : Nat]]
    /\ charged \in [Clients -> Nat]
    /\ spent \in [Clients -> BOOLEAN]
    /\ \A s \in Clients : pc[s] \in PastRequests \cup {"requests"} => Key(s) \in Keys

\* The admitted requests of key k that are not accounted yet.
Pending(k) == {s \in Clients : pc[s] \in PastRequests /\ Key(s) = k}

\* Concurrent requests can pass the check together (validateQuota reserves
\* nothing), but the accounted and the admitted requests of a key never exceed
\* the limit by more than the other clients that run beside the last one.
QuotaOvershootBounded ==
    \A k \in Keys : MaxRequests[k] > 0 =>
        usage[k].requests + Cardinality(Pending(k)) <= MaxRequests[k] - 1 + Cardinality(Clients)

\* Tokens are known only afterwards, so a request may always overshoot by its
\* own cost, and so may every other one that runs beside it.
LargestInput == CHOOSE n \in {t[1] : t \in Costs} : \A t \in Costs : t[1] <= n

InputOvershootBounded ==
    \A k \in Keys : MaxInputTokens[k] > 0 =>
        usage[k].input <= MaxInputTokens[k] - 1 + LargestInput * Cardinality(Clients)

\* No client passes a limit that its key has already reached when the request
\* came in, on no name of the chain: the counters only grow.
NothingRunsOnSpentKey ==
    \A s \in Clients : pc[s] \in {"running", "posthook"} => ~spent[s]

\* Why it is so: the limit reached at arrival is still reached at each check.
SpentIsNoticed ==
    \A s \in Clients : spent[s] =>
        /\ pc[s] # "idle" /\ Key(s) \in Keys => Exhausted(Key(s))
        /\ pc[s] = "input" => \/ Exceeded(MaxInputTokens[Key(s)], usage[Key(s)].input)
                              \/ Exceeded(MaxOutputTokens[Key(s)], usage[Key(s)].output)
        /\ pc[s] = "output" => Exceeded(MaxOutputTokens[Key(s)], usage[Key(s)].output)
        /\ pc[s] \notin {"running", "posthook"}

\* What runs is allowed for the key, after every fallback too.
OnlyAllowedRuns ==
    \A s \in Clients : pc[s] = "running" =>
        Key(s) \in Keys /\ Admitted(Key(s), Provider(s), call[s].model)

\* A request is accounted once if its caller gets a response and not at all
\* otherwise, however many of its attempts failed.
AccountedIffAnswered ==
    \A s \in Clients : pc[s] = "returned" =>
        charged[s] = IF out[s] = "ok" THEN 1 ELSE 0

=============================================================================
