-------------------------- MODULE GovernanceProofs --------------------------
(* Theorems about Governance, for any clients, keys, limits and costs. *)
EXTENDS Governance, FiniteSetTheorems, TLAPS

\* The counters of a key never shrink.
Grows == \A k \in Keys :
    /\ usage'[k].requests >= usage[k].requests
    /\ usage'[k].input >= usage[k].input
    /\ usage'[k].output >= usage[k].output

LEMMA TypeInit == Init => TypeOK
BY GovernanceAssumption DEF Init, TypeOK, Outcomes, NoUse, PastRequests

\* What PostHook adds.
LEMMA Charge ==
    ASSUME TypeOK, NEW s \in Clients, PostHook(s)
    PROVE  /\ usage' \in [Keys -> [requests : Nat, input : Nat, output : Nat]]
           /\ \A k \in Keys :
                 \/ usage'[k] = usage[k]
                 \/ /\ k = Key(s) /\ out[s] = "ok"
                    /\ cost[s][1] \in Nat /\ cost[s][2] \in Nat
                    /\ usage'[k].requests = usage[k].requests + 1
                    /\ usage'[k].input = usage[k].input + cost[s][1]
                    /\ usage'[k].output = usage[k].output + cost[s][2]
<1>1. cost[s][1] \in Nat /\ cost[s][2] \in Nat
  BY DEF TypeOK
<1>2. usage \in [Keys -> [requests : Nat, input : Nat, output : Nat]]
  BY DEF TypeOK
<1>3. CASE out[s] = "ok"
  <2> DEFINE Add(u) == [requests |-> u.requests + 1,
                        input |-> u.input + cost[s][1],
                        output |-> u.output + cost[s][2]]
  <2>1. usage' = [usage EXCEPT ![Key(s)] = Add(usage[Key(s)])]
    BY <1>3 DEF PostHook
  <2>2. \A k \in Keys : /\ Add(usage[k]) \in [requests : Nat, input : Nat, output : Nat]
                        /\ Add(usage[k]).requests = usage[k].requests + 1
                        /\ Add(usage[k]).input = usage[k].input + cost[s][1]
                        /\ Add(usage[k]).output = usage[k].output + cost[s][2]
    BY <1>1, <1>2
  <2> HIDE DEF Add
  <2>3. \A k \in Keys : usage'[k] = IF k = Key(s) THEN Add(usage[k]) ELSE usage[k]
    BY <1>2, <2>1
  <2> QED
    BY <1>1, <1>2, <1>3, <2>1, <2>2, <2>3
<1>4. CASE out[s] # "ok"
  BY <1>2, <1>4 DEF PostHook
<1> QED
  BY <1>3, <1>4

LEMMA UsageGrows == TypeOK /\ [Next]_vars => Grows
<1> SUFFICES ASSUME TypeOK, [Next]_vars PROVE Grows
  OBVIOUS
<1>1. ASSUME UNCHANGED usage PROVE Grows
  BY <1>1 DEF TypeOK, Grows
<1>2. ASSUME NEW s \in Clients, PostHook(s) PROVE Grows
  BY <1>1, <1>2, Charge DEF TypeOK, Grows
<1>3. ASSUME NEW s \in Clients, ~PostHook(s),
             \/ \E c \in Calls : Arrive(s, c)
             \/ PreHook(s) \/ CheckRequests(s) \/ CheckInput(s) \/ CheckOutput(s)
             \/ \E o \in Outcomes, t \in Costs : Execute(s, o, t)
             \/ Fallback(s) \/ Return(s)
      PROVE  UNCHANGED usage
  BY <1>3 DEF Arrive, PreHook, CheckRequests, CheckInput, CheckOutput, CheckQuota,
     Execute, Fallback, Return
<1> QED
  BY <1>1, <1>2, <1>3 DEF Next, vars

LEMMA TypeNext == TypeOK /\ [Next]_vars => TypeOK'
<1> SUFFICES ASSUME TypeOK, [Next]_vars PROVE TypeOK'
  OBVIOUS
<1> USE DEF TypeOK, PastRequests, Goto, Key
<1>1. ASSUME NEW s \in Clients, NEW c \in Calls, Arrive(s, c) PROVE TypeOK'
  BY <1>1 DEF Arrive, Outcomes
<1>2. ASSUME NEW s \in Clients, PreHook(s) PROVE TypeOK'
  BY <1>2 DEF PreHook
<1>3. ASSUME NEW s \in Clients, CheckRequests(s) PROVE TypeOK'
  BY <1>3 DEF CheckRequests, CheckQuota
<1>4. ASSUME NEW s \in Clients, CheckInput(s) PROVE TypeOK'
  BY <1>4 DEF CheckInput, CheckQuota
<1>5. ASSUME NEW s \in Clients, CheckOutput(s) PROVE TypeOK'
  BY <1>5 DEF CheckOutput, CheckQuota
<1>6. ASSUME NEW s \in Clients, NEW o \in Outcomes, NEW t \in Costs, Execute(s, o, t)
      PROVE  TypeOK'
  BY <1>6, GovernanceAssumption DEF Execute, GovernanceAssumption
<1>7. ASSUME NEW s \in Clients, PostHook(s) PROVE TypeOK'
  <2>1. charged' \in [Clients -> Nat]
    <3>1. charged' = charged \/ charged' = [charged EXCEPT ![s] = charged[s] + 1]
      BY <1>7 DEF PostHook
    <3>2. charged \in [Clients -> Nat]
      OBVIOUS
    <3> HIDE DEF TypeOK
    <3> QED
      BY <3>1, <3>2
  <2> QED
    BY <1>7, <2>1, Charge DEF PostHook
<1>8. ASSUME NEW s \in Clients, Fallback(s) PROVE TypeOK'
  BY <1>8 DEF Fallback
<1>9. ASSUME NEW s \in Clients, Return(s) PROVE TypeOK'
  BY <1>9 DEF Return
<1>10. CASE UNCHANGED vars
  BY <1>10 DEF vars
<1> QED
  BY <1>1, <1>2, <1>3, <1>4, <1>5, <1>6, <1>7, <1>8, <1>9, <1>10 DEF Next

THEOREM TypeCorrect == Spec => []TypeOK
BY TypeInit, TypeNext, PTL DEF Spec

-----------------------------------------------------------------------------
(* The quota *)

LEMMA PendingSize ==
    \A k : /\ IsFiniteSet(Pending(k)) /\ Cardinality(Pending(k)) \in Nat
           /\ Cardinality(Clients) \in Nat
           /\ Cardinality(Pending(k)) <= Cardinality(Clients)
<1> SUFFICES ASSUME NEW k
             PROVE  /\ IsFiniteSet(Pending(k)) /\ Cardinality(Pending(k)) \in Nat
                    /\ Cardinality(Clients) \in Nat
                    /\ Cardinality(Pending(k)) <= Cardinality(Clients)
  OBVIOUS
<1>1. IsFiniteSet(Clients) /\ Pending(k) \in SUBSET Clients
  BY GovernanceAssumption DEF GovernanceAssumption, Pending
<1> QED
  BY <1>1, FS_Subset, FS_CardinalityType

LEMMA PendingSizeNext ==
    \A k : /\ Cardinality(Pending(k)') \in Nat
           /\ Cardinality(Pending(k)') <= Cardinality(Clients)
<1> SUFFICES ASSUME NEW k
             PROVE  /\ Cardinality(Pending(k)') \in Nat
                    /\ Cardinality(Pending(k)') <= Cardinality(Clients)
  OBVIOUS
<1>1. IsFiniteSet(Clients) /\ Pending(k)' \in SUBSET Clients
  BY GovernanceAssumption DEF GovernanceAssumption, Pending
<1> QED
  BY <1>1, FS_Subset, FS_CardinalityType

LEMMA QuotaInit == Init => QuotaOvershootBounded
<1> SUFFICES ASSUME Init, NEW k \in Keys, MaxRequests[k] > 0
             PROVE  usage[k].requests + Cardinality(Pending(k))
                       <= MaxRequests[k] - 1 + Cardinality(Clients)
  BY DEF QuotaOvershootBounded
<1>1. usage[k].requests = 0
  BY DEF Init, NoUse
<1> QED
  BY <1>1, PendingSize, GovernanceAssumption DEF GovernanceAssumption

LEMMA QuotaNext == TypeOK /\ QuotaOvershootBounded /\ [Next]_vars => QuotaOvershootBounded'
<1> SUFFICES ASSUME TypeOK, QuotaOvershootBounded, [Next]_vars,
                    NEW k \in Keys, MaxRequests[k] > 0
             PROVE  usage'[k].requests + Cardinality(Pending(k)')
                       <= MaxRequests[k] - 1 + Cardinality(Clients)
  BY DEF QuotaOvershootBounded, Pending
<1> DEFINE n == Cardinality(Pending(k))
           N == Cardinality(Clients)
           Bounded == usage'[k].requests + Cardinality(Pending(k)') <= MaxRequests[k] - 1 + N
<1>1. /\ usage[k].requests \in Nat /\ n \in Nat /\ N \in Nat /\ MaxRequests[k] \in Int
      /\ Cardinality(Pending(k)') \in Nat /\ Cardinality(Pending(k)') <= N
      /\ usage[k].requests + n <= MaxRequests[k] - 1 + N
  BY PendingSize, PendingSizeNext, GovernanceAssumption
  DEF TypeOK, QuotaOvershootBounded, GovernanceAssumption
<1>2. ASSUME UNCHANGED usage, Pending(k)' \subseteq Pending(k) PROVE Bounded
  <2>1. Cardinality(Pending(k)') <= n
    BY <1>2, PendingSize, FS_Subset
  <2> QED
    BY <1>1, <1>2, <2>1
<1>3. ASSUME NEW s \in Clients,
             \/ \E c \in Calls : Arrive(s, c)
             \/ PreHook(s) \/ CheckInput(s) \/ CheckOutput(s)
             \/ \E o \in Outcomes, t \in Costs : Execute(s, o, t)
             \/ Fallback(s) \/ Return(s)
      PROVE  Bounded
  <2>1. UNCHANGED usage /\ Pending(k)' \subseteq Pending(k)
    BY <1>3 DEF Arrive, PreHook, CheckInput, CheckOutput, CheckQuota, Execute, Fallback,
       Return, Goto, Key, Pending, PastRequests, TypeOK
  <2> QED
    BY <1>2, <2>1
<1>4. ASSUME NEW s \in Clients, CheckRequests(s) PROVE Bounded
  <2>1. CASE Exceeded(MaxRequests[Key(s)], usage[Key(s)].requests) \/ k # Key(s)
    <3>1. UNCHANGED usage /\ Pending(k)' \subseteq Pending(k)
      BY <1>4, <2>1 DEF CheckRequests, CheckQuota, Goto, Key, Pending, PastRequests, TypeOK
    <3> QED
      BY <1>2, <3>1
  <2>2. CASE ~Exceeded(MaxRequests[Key(s)], usage[Key(s)].requests) /\ k = Key(s)
    <3>1. usage' = usage /\ usage[k].requests <= MaxRequests[k] - 1
      BY <1>1, <1>4, <2>2 DEF CheckRequests, CheckQuota, Exceeded
    <3> QED
      BY <1>1, <3>1
  <2> QED
    BY <2>1, <2>2
<1>5. ASSUME NEW s \in Clients, PostHook(s) PROVE Bounded
  <2>1. Pending(k)' = Pending(k) \ {s}
    BY <1>5 DEF PostHook, Goto, Key, Pending, PastRequests, TypeOK
  <2>2. CASE usage'[k] = usage[k]
    <3>1. Cardinality(Pending(k)') <= n
      BY <2>1, PendingSize, FS_Subset
    <3> QED
      BY <1>1, <2>2, <3>1
  <2>3. CASE k = Key(s) /\ usage'[k].requests = usage[k].requests + 1
    <3>1. s \in Pending(k)
      BY <1>5, <2>3 DEF PostHook, Pending, PastRequests
    <3>2. Cardinality(Pending(k)') = n - 1
      BY <2>1, <3>1, PendingSize, FS_RemoveElement
    <3> QED
      BY <1>1, <2>3, <3>2
  <2> QED
    BY <1>5, <2>2, <2>3, Charge
<1>6. CASE UNCHANGED vars
  BY <1>2, <1>6 DEF vars, Pending, Key
<1> QED
  BY <1>3, <1>4, <1>5, <1>6 DEF Next

\* However many clients pass validateQuota together, a key is accounted at most
\* one request per client beyond its limit.
THEOREM QuotaBounded == Spec => []QuotaOvershootBounded
BY TypeInit, TypeNext, QuotaInit, QuotaNext, PTL DEF Spec

-----------------------------------------------------------------------------
(* Spent keys *)

LEMMA ExceededStays ==
    ASSUME NEW limit \in Int, NEW m \in Nat, NEW n \in Nat, m <= n, Exceeded(limit, m)
    PROVE  Exceeded(limit, n)
BY DEF Exceeded

LEMMA SpentNext == TypeOK /\ SpentIsNoticed /\ [Next]_vars => SpentIsNoticed'
<1> SUFFICES ASSUME TypeOK, SpentIsNoticed, [Next]_vars, NEW s \in Clients, spent'[s]
             PROVE  /\ pc'[s] # "idle" /\ Key(s)' \in Keys => Exhausted(Key(s))'
                    /\ pc'[s] = "input" =>
                          \/ Exceeded(MaxInputTokens[Key(s)], usage[Key(s)].input)'
                          \/ Exceeded(MaxOutputTokens[Key(s)], usage[Key(s)].output)'
                    /\ pc'[s] = "output" =>
                          Exceeded(MaxOutputTokens[Key(s)], usage[Key(s)].output)'
                    /\ pc'[s] \notin {"running", "posthook"}
  BY DEF SpentIsNoticed
<1> DEFINE In(k) == Exceeded(MaxInputTokens[k], usage[k].input)
           Out(k) == Exceeded(MaxOutputTokens[k], usage[k].output)
           Goal == /\ pc[s] # "idle" /\ Key(s) \in Keys => Exhausted(Key(s))
                   /\ pc[s] = "input" => In(Key(s)) \/ Out(Key(s))
                   /\ pc[s] = "output" => Out(Key(s))
                   /\ pc[s] \notin {"running", "posthook"}
<1>1. SUFFICES Goal'
  OBVIOUS
<1>2. spent[s] => Goal
  BY DEF SpentIsNoticed
<1>3. \A k \in Keys : /\ Exhausted(k) => Exhausted(k)'
                      /\ In(k) => In(k)'
                      /\ Out(k) => Out(k)'
  BY UsageGrows, ExceededStays, TypeNext, GovernanceAssumption
  DEF TypeOK, Grows, Exhausted, GovernanceAssumption
<1>4. pc[s] \in PastRequests \cup {"requests"} => Key(s) \in Keys
  BY DEF TypeOK
<1> HIDE DEF In, Out
<1>5. ASSUME UNCHANGED <<pc[s], call[s], spent[s]>> PROVE Goal'
  BY <1>2, <1>3, <1>4, <1>5 DEF Key, PastRequests
<1>6. ASSUME NEW c \in Calls, Arrive(s, c) PROVE Goal'
  <2>1. UNCHANGED usage /\ c.key = Key(s)' /\ (c.key \in Keys => Exhausted(c.key))
    BY <1>6 DEF Arrive, TypeOK, Key
  <2>2. c.key \in Keys => Exhausted(c.key)'
    BY <1>3, <2>1
  <2> QED
    BY <1>6, <2>1, <2>2 DEF Arrive, Goto, TypeOK, Exhausted
<1>7. ASSUME PreHook(s) PROVE Goal'
  BY <1>2, <1>3, <1>7 DEF PreHook, Goto, TypeOK, Key
<1>8. ASSUME CheckRequests(s) PROVE Goal'
  <2>1. Key(s) \in Keys /\ spent[s] /\ pc[s] = "requests"
    BY <1>4, <1>8 DEF CheckRequests, CheckQuota
  <2>2. CASE Exceeded(MaxRequests[Key(s)], usage[Key(s)].requests)
    BY <1>2, <1>3, <1>8, <2>1, <2>2 DEF CheckRequests, CheckQuota, Goto, TypeOK, Key
  <2>3. CASE ~Exceeded(MaxRequests[Key(s)], usage[Key(s)].requests)
    <3>1. In(Key(s)) \/ Out(Key(s))
      BY <1>2, <2>1, <2>3 DEF Exhausted, In, Out
    <3> QED
      BY <1>2, <1>3, <1>8, <2>1, <2>3, <3>1 DEF CheckRequests, CheckQuota, Goto, TypeOK, Key
  <2> QED
    BY <2>2, <2>3
<1>9. ASSUME CheckInput(s) PROVE Goal'
  <2>1. Key(s) \in Keys /\ spent[s] /\ pc[s] = "input"
    BY <1>4, <1>9 DEF CheckInput, CheckQuota, PastRequests
  <2>2. Exceeded(MaxInputTokens[Key(s)], usage[Key(s)].input) \/ Out(Key(s))
    BY <1>2, <2>1 DEF In
  <2> QED
    BY <1>2, <1>3, <1>9, <2>1, <2>2 DEF CheckInput, CheckQuota, Goto, TypeOK, Key
<1>10. ASSUME CheckOutput(s) PROVE Goal'
  <2>1. Key(s) \in Keys /\ spent[s] /\ pc[s] = "output"
    BY <1>4, <1>10 DEF CheckOutput, CheckQuota, PastRequests
  <2>2. Exceeded(MaxOutputTokens[Key(s)], usage[Key(s)].output)
    BY <1>2, <2>1 DEF Out
  <2> QED
    BY <1>2, <1>3, <1>10, <2>1, <2>2 DEF CheckOutput, CheckQuota, Goto, TypeOK, Key
<1>11. ASSUME NEW o \in Outcomes, NEW t \in Costs, Execute(s, o, t) PROVE Goal'
  BY <1>2, <1>11 DEF Execute
<1>12. ASSUME PostHook(s) PROVE Goal'
  BY <1>2, <1>12 DEF PostHook
<1>13. ASSUME Fallback(s) \/ Return(s) PROVE Goal'
  BY <1>2, <1>3, <1>13 DEF Fallback, Return, Goto, TypeOK, Key
<1>14. ASSUME NEW r \in Clients, r # s,
              \/ \E c \in Calls : Arrive(r, c)
              \/ PreHook(r) \/ CheckRequests(r) \/ CheckInput(r) \/ CheckOutput(r)
              \/ \E o \in Outcomes, t \in Costs : Execute(r, o, t)
              \/ PostHook(r) \/ Fallback(r) \/ Return(r)
       PROVE  Goal'
  <2>1. UNCHANGED <<pc[s], call[s], spent[s]>>
    BY <1>14 DEF Arrive, PreHook, CheckRequests, CheckInput, CheckOutput, CheckQuota,
       Execute, PostHook, Fallback, Return, Goto, TypeOK
  <2> QED
    BY <1>5, <2>1
<1>15. CASE UNCHANGED vars
  BY <1>5, <1>15 DEF vars
<1> QED
  BY <1>6, <1>7, <1>8, <1>9, <1>10, <1>11, <1>12, <1>13, <1>14, <1>15 DEF Next

\* A request that finds its key spent reaches no provider, on no name of its
\* chain and whatever other clients do meanwhile.
THEOREM SpentKeyRunsNothing == Spec => []NothingRunsOnSpentKey
<1>1. Init => SpentIsNoticed
  BY DEF Init, SpentIsNoticed
<1>2. SpentIsNoticed => NothingRunsOnSpentKey
  BY DEF SpentIsNoticed, NothingRunsOnSpentKey
<1> QED
  BY <1>1, <1>2, TypeInit, TypeNext, SpentNext, PTL DEF Spec

-----------------------------------------------------------------------------
(* Access and accounting *)

\* PreHook is the only way to the checks and to the provider, so whatever is
\* behind it was admitted with the name it is for.
AdmittedBehindPreHook ==
    \A s \in Clients : pc[s] \in {"requests", "input", "output", "running"} =>
        Admitted(Key(s), Provider(s), call[s].model)

\* Nothing is accounted before PostHook, and one response afterwards.
ChargedAfterPostHook ==
    \A s \in Clients :
        /\ pc[s] \in {"prehook", "requests"} \cup PastRequests => charged[s] = 0
        /\ pc[s] \in {"attempted", "returned"} => charged[s] = IF out[s] = "ok" THEN 1 ELSE 0

\* What the step of one client leaves alone in the others.
LEMMA OthersUnchanged ==
    ASSUME TypeOK, NEW s \in Clients, NEW r \in Clients, r # s,
           \/ \E c \in Calls : Arrive(r, c)
           \/ PreHook(r) \/ CheckRequests(r) \/ CheckInput(r) \/ CheckOutput(r)
           \/ \E o \in Outcomes, t \in Costs : Execute(r, o, t)
           \/ PostHook(r) \/ Fallback(r) \/ Return(r)
    PROVE  UNCHANGED <<pc[s], call[s], pos[s], out[s], cost[s], charged[s]>>
BY DEF Arrive, PreHook, CheckRequests, CheckInput, CheckOutput, CheckQuota, Execute,
   PostHook, Fallback, Return, Goto, TypeOK

LEMMA AdmittedNext == TypeOK /\ AdmittedBehindPreHook /\ [Next]_vars => AdmittedBehindPreHook'
<1> SUFFICES ASSUME TypeOK, AdmittedBehindPreHook, [Next]_vars, NEW s \in Clients,
                    pc'[s] \in {"requests", "input", "output", "running"}
             PROVE  Admitted(Key(s), Provider(s), call[s].model)'
  BY DEF AdmittedBehindPreHook
<1> DEFINE Goal == Admitted(Key(s), Provider(s), call[s].model)
<1>1. pc[s] \in {"requests", "input", "output", "running"} => Goal
  BY DEF AdmittedBehindPreHook
<1>2. ASSUME UNCHANGED <<pc[s], call[s], pos[s]>> PROVE Goal'
  BY <1>1, <1>2 DEF Key, Provider, Admitted
<1>3. ASSUME NEW c \in Calls, Arrive(s, c) PROVE Goal'
  BY <1>3 DEF Arrive, Goto, TypeOK
<1>4. ASSUME PreHook(s) PROVE Goal'
  <2>1. UNCHANGED <<call, pos>>
    BY <1>4 DEF PreHook
  <2>2. Goal
    BY <1>4 DEF PreHook, Goto, TypeOK
  <2> QED
    BY <2>1, <2>2 DEF Key, Provider, Admitted
<1>5. ASSUME CheckRequests(s) \/ CheckInput(s) \/ CheckOutput(s) PROVE Goal'
  <2>1. UNCHANGED <<call, pos>> /\ Goal
    BY <1>1, <1>5 DEF CheckRequests, CheckInput, CheckOutput, CheckQuota
  <2> QED
    BY <2>1 DEF Key, Provider, Admitted
<1>6. ASSUME \/ \E o \in Outcomes, t \in Costs : Execute(s, o, t)
             \/ PostHook(s) \/ Fallback(s) \/ Return(s)
      PROVE  Goal'
  BY <1>6 DEF Execute, PostHook, Fallback, Return, Goto, TypeOK
<1>7. CASE UNCHANGED vars
  BY <1>2, <1>7 DEF vars
<1> QED
  BY <1>2, <1>3, <1>4, <1>5, <1>6, <1>7, OthersUnchanged DEF Next

\* A provider is only asked on behalf of a key that exists and is allowed that
\* provider and that model, at the first name of the chain and at every other.
THEOREM AccessHolds == Spec => []OnlyAllowedRuns
<1>1. Init => AdmittedBehindPreHook
  BY DEF Init, AdmittedBehindPreHook
<1>2. TypeOK /\ AdmittedBehindPreHook => OnlyAllowedRuns
  BY DEF TypeOK, PastRequests, AdmittedBehindPreHook, OnlyAllowedRuns
<1> QED
  BY <1>1, <1>2, TypeInit, TypeNext, AdmittedNext, PTL DEF Spec

LEMMA ChargedNext == TypeOK /\ ChargedAfterPostHook /\ [Next]_vars => ChargedAfterPostHook'
<1> DEFINE Goal(s) ==
        /\ pc[s] \in {"prehook", "requests"} \cup PastRequests => charged[s] = 0
        /\ pc[s] \in {"attempted", "returned"} => charged[s] = IF out[s] = "ok" THEN 1 ELSE 0
<1> SUFFICES ASSUME TypeOK, ChargedAfterPostHook, [Next]_vars, NEW s \in Clients
             PROVE  Goal(s)'
  BY DEF ChargedAfterPostHook
<1>1. Goal(s) /\ charged[s] \in Nat
  BY DEF ChargedAfterPostHook, TypeOK
<1>2. ASSUME UNCHANGED <<pc[s], out[s], charged[s]>> PROVE Goal(s)'
  BY <1>1, <1>2 DEF PastRequests
<1>3. ASSUME NEW c \in Calls, Arrive(s, c) PROVE Goal(s)'
  BY <1>3 DEF Arrive, Goto, TypeOK
<1>4. ASSUME PreHook(s) PROVE Goal(s)'
  BY <1>1, <1>4 DEF PreHook, Goto, TypeOK, PastRequests
<1>5. ASSUME CheckRequests(s) \/ CheckInput(s) \/ CheckOutput(s) PROVE Goal(s)'
  BY <1>1, <1>5 DEF CheckRequests, CheckInput, CheckOutput, CheckQuota, Goto, TypeOK,
     PastRequests
<1>6. ASSUME NEW o \in Outcomes, NEW t \in Costs, Execute(s, o, t) PROVE Goal(s)'
  BY <1>1, <1>6 DEF Execute, Goto, TypeOK, PastRequests
<1>7. ASSUME PostHook(s) PROVE Goal(s)'
  <2>1. charged[s] = 0 /\ out'[s] = out[s] /\ pc'[s] = "attempted"
    BY <1>1, <1>7 DEF PostHook, Goto, TypeOK, PastRequests
  <2>2. charged'[s] = IF out[s] = "ok" THEN 1 ELSE 0
    BY <1>7, <2>1 DEF PostHook, TypeOK
  <2> QED
    BY <2>1, <2>2 DEF PastRequests
<1>8. ASSUME Fallback(s) PROVE Goal(s)'
  BY <1>1, <1>8 DEF Fallback, Goto, TypeOK, PastRequests
<1>9. ASSUME Return(s) PROVE Goal(s)'
  BY <1>1, <1>9 DEF Return, Goto, TypeOK, PastRequests
<1>10. CASE UNCHANGED vars
  BY <1>2, <1>10 DEF vars
<1> QED
  BY <1>2, <1>3, <1>4, <1>5, <1>6, <1>7, <1>8, <1>9, <1>10, OthersUnchanged DEF Next

\* One request is accounted once if it was answered with a response and never
\* otherwise, whatever its attempts came to and other clients do meanwhile.
THEOREM AccountedOnce == Spec => []AccountedIffAnswered
<1>1. Init => ChargedAfterPostHook
  BY DEF Init, ChargedAfterPostHook, PastRequests
<1>2. ChargedAfterPostHook => AccountedIffAnswered
  BY DEF ChargedAfterPostHook, AccountedIffAnswered
<1> QED
  BY <1>1, <1>2, TypeInit, TypeNext, ChargedNext, PTL DEF Spec

-----------------------------------------------------------------------------
(* The input tokens *)

\* The requests of key k whose input tokens are still to come.
Spenders(k) == {s \in Clients : pc[s] \in {"output", "running", "posthook"} /\ Key(s) = k}

\* InputOvershootBounded with a place kept for each of them; the output tokens
\* have no such bound, for their check comes last.
InputReserved ==
    /\ \A s \in Clients : cost[s][1] <= LargestInput
    /\ \A k \in Keys : MaxInputTokens[k] > 0 =>
          usage[k].input + LargestInput * Cardinality(Spenders(k))
             <= MaxInputTokens[k] - 1 + LargestInput * Cardinality(Clients)

LEMMA LargestCost ==
    LargestInput \in Nat /\ \A t \in Costs : t[1] \in Nat /\ t[1] <= LargestInput
<1>1. Costs \subseteq Nat \X Nat
  BY GovernanceAssumption DEF GovernanceAssumption
<1>2. \E n \in {t[1] : t \in Costs} : \A t \in Costs : t[1] <= n
  BY GovernanceAssumption DEF GovernanceAssumption
<1>3. LargestInput \in {t[1] : t \in Costs} /\ \A t \in Costs : t[1] <= LargestInput
  BY <1>2 DEF LargestInput
<1> QED
  BY <1>1, <1>3

\* More places weigh more, and one place weighs what one response may.
LEMMA Weight ==
    ASSUME NEW L \in Nat, NEW m \in Nat, NEW n \in Nat
    PROVE  /\ L * m \in Nat
           /\ m <= n => L * m <= L * n
           /\ n > 0 => L * (n - 1) = L * n - L
<1>1. L * m \in Nat
  OBVIOUS
<1>2. ASSUME m <= n PROVE L * m <= L * n
  <2>1. PICK d \in Nat : n = m + d
    <3>1. n - m \in Nat /\ n = m + (n - m)
      BY <1>2
    <3> QED
      BY <3>1
  <2>2. L * n = L * m + L * d
    BY <2>1
  <2>3. L * d \in Nat
    OBVIOUS
  <2> QED
    BY <1>1, <2>2, <2>3
<1>3. n > 0 => L * (n - 1) = L * n - L
  OBVIOUS
<1> QED
  BY <1>1, <1>2, <1>3

LEMMA SpendersSize ==
    \A k : /\ IsFiniteSet(Spenders(k)) /\ Cardinality(Spenders(k)) \in Nat
           /\ Cardinality(Clients) \in Nat
           /\ Cardinality(Spenders(k)) <= Cardinality(Clients)
<1> SUFFICES ASSUME NEW k
             PROVE  /\ IsFiniteSet(Spenders(k)) /\ Cardinality(Spenders(k)) \in Nat
                    /\ Cardinality(Clients) \in Nat
                    /\ Cardinality(Spenders(k)) <= Cardinality(Clients)
  OBVIOUS
<1>1. IsFiniteSet(Clients) /\ Spenders(k) \in SUBSET Clients
  BY GovernanceAssumption DEF GovernanceAssumption, Spenders
<1> QED
  BY <1>1, FS_Subset, FS_CardinalityType

LEMMA SpendersSizeNext ==
    \A k : /\ Cardinality(Spenders(k)') \in Nat
           /\ Cardinality(Spenders(k)') <= Cardinality(Clients)
<1> SUFFICES ASSUME NEW k
             PROVE  /\ Cardinality(Spenders(k)') \in Nat
                    /\ Cardinality(Spenders(k)') <= Cardinality(Clients)
  OBVIOUS
<1>1. IsFiniteSet(Clients) /\ Spenders(k)' \in SUBSET Clients
  BY GovernanceAssumption DEF GovernanceAssumption, Spenders
<1> QED
  BY <1>1, FS_Subset, FS_CardinalityType

LEMMA CostNext ==
    ASSUME TypeOK, InputReserved, [Next]_vars
    PROVE  \A s \in Clients : cost'[s][1] <= LargestInput
<1> SUFFICES ASSUME NEW s \in Clients PROVE cost'[s][1] <= LargestInput
  OBVIOUS
<1>1. cost[s][1] <= LargestInput
  BY DEF InputReserved
<1>2. ASSUME NEW c \in Calls, Arrive(s, c) PROVE cost'[s][1] <= LargestInput
  <2>1. cost'[s] = <<0, 0>>
    BY <1>2 DEF Arrive, TypeOK
  <2> QED
    BY <2>1, LargestCost
<1>3. ASSUME NEW o \in Outcomes, NEW t \in Costs, Execute(s, o, t)
      PROVE  cost'[s][1] <= LargestInput
  <2>1. cost'[s] = t \/ cost'[s] = <<0, 0>>
    BY <1>3 DEF Execute, TypeOK
  <2> QED
    BY <2>1, LargestCost
<1>4. ASSUME \/ PreHook(s) \/ CheckRequests(s) \/ CheckInput(s) \/ CheckOutput(s)
             \/ PostHook(s) \/ Fallback(s) \/ Return(s)
      PROVE  UNCHANGED cost
  BY <1>4 DEF PreHook, CheckRequests, CheckInput, CheckOutput, CheckQuota, PostHook,
     Fallback, Return
<1> QED
  BY <1>1, <1>2, <1>3, <1>4, OthersUnchanged DEF Next, vars

LEMMA InputNext == TypeOK /\ InputReserved /\ [Next]_vars => InputReserved'
<1> SUFFICES ASSUME TypeOK, InputReserved, [Next]_vars,
                    NEW k \in Keys, MaxInputTokens[k] > 0
             PROVE  usage'[k].input + LargestInput * Cardinality(Spenders(k)')
                       <= MaxInputTokens[k] - 1 + LargestInput * Cardinality(Clients)
  BY CostNext DEF InputReserved, Spenders
<1> DEFINE n == Cardinality(Spenders(k))
           m == Cardinality(Spenders(k)')
           N == Cardinality(Clients)
           L == LargestInput
           Bounded == usage'[k].input + L * m <= MaxInputTokens[k] - 1 + L * N
<1>1. /\ usage[k].input \in Nat /\ MaxInputTokens[k] \in Int
      /\ usage[k].input + L * n <= MaxInputTokens[k] - 1 + L * N
  BY GovernanceAssumption DEF TypeOK, InputReserved, GovernanceAssumption
<1>2. n \in Nat /\ m \in Nat /\ N \in Nat /\ L \in Nat /\ m <= N
  BY SpendersSize, SpendersSizeNext, LargestCost
<1>3. /\ L * m \in Nat /\ L * n \in Nat /\ L * N \in Nat
      /\ m <= n => L * m <= L * n
      /\ L * m <= L * N
      /\ n > 0 => L * (n - 1) = L * n - L
  <2> HIDE DEF n, m, N, L
  <2> QED
    BY <1>2, Weight
<1>4. ASSUME usage'[k] = usage[k], Spenders(k)' \subseteq Spenders(k) PROVE Bounded
  <2>1. m <= n
    BY <1>4, SpendersSize, FS_Subset
  <2> HIDE DEF n, m, N, L
  <2> QED
    BY <1>1, <1>2, <1>3, <1>4, <2>1
<1>5. ASSUME NEW s \in Clients,
             \/ \E c \in Calls : Arrive(s, c)
             \/ PreHook(s) \/ CheckRequests(s) \/ CheckOutput(s)
             \/ \E o \in Outcomes, t \in Costs : Execute(s, o, t)
             \/ Fallback(s) \/ Return(s)
      PROVE  Bounded
  <2>1. UNCHANGED usage /\ Spenders(k)' \subseteq Spenders(k)
    BY <1>5 DEF Arrive, PreHook, CheckRequests, CheckOutput, CheckQuota, Execute, Fallback,
       Return, Goto, Key, Spenders, TypeOK
  <2> QED
    BY <1>4, <2>1
<1>6. ASSUME NEW s \in Clients, CheckInput(s) PROVE Bounded
  <2>1. CASE Exceeded(MaxInputTokens[Key(s)], usage[Key(s)].input) \/ k # Key(s)
    <3>1. UNCHANGED usage /\ Spenders(k)' \subseteq Spenders(k)
      BY <1>6, <2>1 DEF CheckInput, CheckQuota, Goto, Key, Spenders, TypeOK
    <3> QED
      BY <1>4, <3>1
  <2>2. CASE ~Exceeded(MaxInputTokens[Key(s)], usage[Key(s)].input) /\ k = Key(s)
    <3>1. usage' = usage /\ usage[k].input <= MaxInputTokens[k] - 1
      BY <1>1, <1>6, <2>2 DEF CheckInput, CheckQuota, Exceeded
    <3> HIDE DEF n, m, N, L
    <3> QED
      BY <1>1, <1>2, <1>3, <3>1
  <2> QED
    BY <2>1, <2>2
<1>7. ASSUME NEW s \in Clients, PostHook(s) PROVE Bounded
  <2>1. Spenders(k)' = Spenders(k) \ {s}
    BY <1>7 DEF PostHook, Goto, Key, Spenders, TypeOK
  <2>2. CASE usage'[k] = usage[k]
    BY <1>4, <2>1, <2>2
  <2>3. CASE k = Key(s) /\ usage'[k].input = usage[k].input + cost[s][1]
    <3>1. s \in Spenders(k)
      BY <1>7, <2>3 DEF PostHook, Spenders
    <3>2. m = n - 1
      BY <2>1, <3>1, SpendersSize, FS_RemoveElement
    <3>3. cost[s][1] \in Nat /\ cost[s][1] <= L
      BY DEF TypeOK, InputReserved
    <3> HIDE DEF n, m, N, L
    <3>4. L * m = L * n - L
      BY <1>2, <1>3, <3>2
    <3> QED
      BY <1>1, <1>2, <1>3, <2>3, <3>3, <3>4
  <2> QED
    BY <1>7, <2>2, <2>3, Charge
<1>8. CASE UNCHANGED vars
  BY <1>4, <1>8 DEF vars, Spenders, Key
<1> QED
  BY <1>5, <1>6, <1>7, <1>8 DEF Next

\* A key is charged less than its limit plus the largest input of one response
\* for each client, however many clients pass the check together.
THEOREM InputBounded == Spec => []InputOvershootBounded
<1>1. Init => InputReserved
  <2> SUFFICES ASSUME Init PROVE InputReserved
    OBVIOUS
  <2>1. \A s \in Clients : cost[s][1] <= LargestInput
    BY LargestCost DEF Init
  <2>2. ASSUME NEW k \in Keys, MaxInputTokens[k] > 0
        PROVE  usage[k].input + LargestInput * Cardinality(Spenders(k))
                  <= MaxInputTokens[k] - 1 + LargestInput * Cardinality(Clients)
    <3>1. usage[k].input = 0 /\ MaxInputTokens[k] \in Int
      BY GovernanceAssumption DEF Init, NoUse, GovernanceAssumption
    <3>2. Spenders(k) = {}
      BY DEF Init, Spenders
    <3>3. Cardinality(Spenders(k)) = 0
      BY <3>2, FS_EmptySet
    <3>4. LargestInput * 0 = 0 /\ LargestInput * Cardinality(Clients) \in Nat
      BY LargestCost, SpendersSize
    <3> QED
      BY <2>2, <3>1, <3>3, <3>4
  <2> QED
    BY <2>1, <2>2 DEF InputReserved
<1>2. TypeOK /\ InputReserved => InputOvershootBounded
  <2> SUFFICES ASSUME TypeOK, InputReserved, NEW k \in Keys, MaxInputTokens[k] > 0
               PROVE  usage[k].input <= MaxInputTokens[k] - 1 + LargestInput * Cardinality(Clients)
    BY DEF InputOvershootBounded
  <2>1. LargestInput * Cardinality(Spenders(k)) \in Nat
    BY LargestCost, SpendersSize, Weight
  <2>2. LargestInput * Cardinality(Clients) \in Nat
    BY LargestCost, SpendersSize, Weight
  <2>3. usage[k].input \in Nat /\ MaxInputTokens[k] \in Int
    BY GovernanceAssumption DEF TypeOK, GovernanceAssumption
  <2> QED
    BY <2>1, <2>2, <2>3 DEF InputReserved
<1> QED
  BY <1>1, <1>2, TypeInit, TypeNext, InputNext, PTL DEF Spec

=============================================================================
