------------------------- MODULE DispatchRefinement -------------------------
(* Dispatch implements ChatService: every step of the gateway is a step of    *)
(* the service its callers see, or one they do not see.                       *)
EXTENDS DispatchProofs

Phase == [r \in Requests |-> PhaseOf(r)]

\* What workers send is what providers said; refusals come from the callers.
RepliesSpoken == \A m \in replies : m.kind \in CallKinds \cup {"nil"}

LEMMA SpokenNext == TypeOK /\ RepliesSpoken /\ [Next]_vars => RepliesSpoken'
<1> SUFFICES ASSUME TypeOK, RepliesSpoken, [Next]_vars, NEW m \in replies'
             PROVE  m.kind \in CallKinds \cup {"nil"}
  BY DEF RepliesSpoken
<1>1. CASE m \in replies
  BY <1>1 DEF RepliesSpoken
<1>2. CASE m \notin replies
  <2>1. PICK w \in Workers : SendResult(w)
    BY <1>2, QuietSteps DEF Quiet, Enqueue, TakeTask, DropResult
  <2> QED
    BY <1>2, <2>1 DEF SendResult, TypeOK
<1> QED
  BY <1>1, <1>2

\* The phase of a request, and of the others, when only its pc changes.
LEMMA PhaseIs ==
    /\ \A r \in Requests : Phase[r] = PhaseOf(r)
    /\ \A r \in Requests : Phase'[r] = PhaseOf(r)'
BY DEF Phase

LEMMA PhaseMoves ==
    ASSUME TypeOK, NEW r \in Requests,
           NEW where \in {"attempt", "enqueue", "wait", "return", "done", "panic"},
           pc' = [pc EXCEPT ![r] = where],
           NEW ph \in {"asking", "judged", "answered", "aborted"},
           \/ where \in {"attempt", "enqueue", "wait"} /\ ph = "asking"
           \/ where = "return" /\ ph = "judged"
           \/ where = "done" /\ ph = "answered"
           \/ where = "panic" /\ ph = "aborted"
    PROVE  Phase' = [Phase EXCEPT ![r] = ph]
<1>1. pc'[r] = where /\ \A q \in Requests : q # r => pc'[q] = pc[q]
  BY DEF TypeOK
<1>2. PhaseOf(r)' = ph
  BY <1>1 DEF PhaseOf
<1>3. \A q \in Requests : q # r => PhaseOf(q)' = PhaseOf(q)
  BY <1>1 DEF PhaseOf
<1> QED
  BY <1>2, <1>3 DEF Phase

\* An attempt that nobody has answered before is not answered when it is
\* refused.
LEMMA NotYetReplied ==
    ASSUME TypeOK, Started, NEW r \in Requests, pc[r] \in {"attempt", "enqueue"}
    PROVE  ~ \E n \in replies : n.req = r /\ n.pos = pos[r]
<1>1. pos[r] \in 1..Len(Chain[r])
  BY DispatchAssumption DEF TypeOK, DispatchAssumption
<1>2. ~Replied(Task(r, pos[r]))
  BY <1>1 DEF Started
<1> QED
  BY <1>2 DEF Replied, Task

LEMMA Judges ==
    ASSUME TypeOK, NEW r \in Requests, pc[r] \in {"attempt", "enqueue", "wait"},
           NEW m, m.req = r, m.pos = pos[r],
           \/ m \in replies
           \/ /\ \E kind \in {"noqueue", "closed", "full"} : m = AttemptError(r, kind)
              /\ ~ \E n \in replies : n.req = r /\ n.pos = pos[r]
           \/ m = AttemptError(r, "canceled") /\ r \in cancelled,
           res' = [res EXCEPT ![r] = m],
           pc' = [pc EXCEPT ![r] = "return"],
           UNCHANGED <<pos, cancelled, replies>>,
           m \in replies => m.kind \notin {"noqueue", "closed", "full"}
    PROVE  Service!Judge(r)
<1>1. Phase' = [Phase EXCEPT ![r] = "judged"]
  BY PhaseMoves
<1>2. Phase[r] = "asking"
  BY PhaseIs DEF PhaseOf
<1>3. /\ m \in replies \cup {Service!Verdict(r, k) : k \in Service!Refusals \cup {"canceled"}}
      /\ m \in replies \/ m.kind \in Service!Refusals \/ r \in cancelled
      /\ r \notin cancelled /\ m.kind \in Service!Refusals =>
            ~ \E n \in replies : n.req = r /\ n.pos = pos[r]
  BY DEF Service!Verdict, Service!Refusals, AttemptError, Target
<1> QED
  BY <1>1, <1>2, <1>3 DEF Service!Judge, Phase

LEMMA RequestRefines ==
    ASSUME IInv, RepliesSpoken, NEW r \in Requests,
           HandleChat(r) \/ RejectInvalid(r) \/ Cancel(r) \/ RequestStep(r)
    PROVE  Service!Next \/ UNCHANGED Service!vars
<1> USE DEF IInv
<1> DEFINE Refines == Service!Next \/ UNCHANGED Service!vars
<1>1. pc \in [Requests -> {"idle", "attempt", "enqueue", "wait", "return", "done", "panic"}]
  BY DEF TypeOK
<1>2. /\ pc[r] = "idle" => Phase[r] = "new"
      /\ pc[r] \in {"attempt", "enqueue", "wait"} => Phase[r] = "asking"
      /\ pc[r] = "return" => Phase[r] = "judged"
  BY PhaseIs DEF PhaseOf
<1>3. CASE HandleChat(r)
  <2>1. Phase' = [Phase EXCEPT ![r] = "asking"]
    BY <1>3, PhaseMoves DEF HandleChat
  <2>2. Service!Accept(r)
    BY <1>2, <1>3, <2>1 DEF HandleChat, Service!Accept, Phase
  <2> QED
    BY <2>2 DEF Service!Next
<1>4. CASE RejectInvalid(r)
  <2>1. Phase' = [Phase EXCEPT ![r] = "answered"]
    BY <1>4, PhaseMoves DEF RejectInvalid
  <2>2. Service!Reject(r)
    BY <1>2, <1>4, <2>1 DEF RejectInvalid, Service!Reject, Phase
  <2> QED
    BY <2>2 DEF Service!Next
<1>5. CASE Cancel(r)
  <2>1. Phase' = Phase /\ Phase[r] \in {"asking", "judged"}
    BY <1>1, <1>2, <1>5 DEF Cancel, Finished, Phase, PhaseOf
  <2>2. Service!GiveUp(r)
    BY <1>5, <2>1 DEF Cancel, Service!GiveUp, Phase
  <2> QED
    BY <2>2 DEF Service!Next
<1>6. CASE GetQueue(r) \/ Enqueue(r)
  <2>1. pc[r] \in {"attempt", "enqueue"} /\ \E where \in {"enqueue", "wait"} : pc' = [pc EXCEPT ![r] = where]
    BY <1>6 DEF GetQueue, Enqueue
  <2>2. Phase' = [Phase EXCEPT ![r] = "asking"]
    BY <2>1, PhaseMoves
  <2>3. Phase' = Phase
    BY <1>2, <2>1, <2>2 DEF Phase
  <2> QED
    BY <1>6, <2>3 DEF GetQueue, Enqueue, Service!vars, Phase
<1>7. ASSUME Service!Judge(r) PROVE Refines
  BY <1>7 DEF Service!Next, Service!Proceed
<1>8. \A kind : AttemptError(r, kind).req = r /\ AttemptError(r, kind).pos = pos[r]
                /\ AttemptError(r, kind).kind = kind
  BY DEF AttemptError
<1>9. \A m \in replies : m.kind \notin {"noqueue", "closed", "full"}
  BY DEF RepliesSpoken, CallKinds
<1>10. CASE GetQueueFails(r)
  <2>1. PICK kind \in {"noqueue", "closed"} :
           res' = [res EXCEPT ![r] = AttemptError(r, kind)]
    BY <1>10 DEF GetQueueFails
  <2>2. ~ \E n \in replies : n.req = r /\ n.pos = pos[r]
    BY <1>10, NotYetReplied DEF GetQueueFails
  <2>3. Service!Judge(r)
    BY <1>8, <1>9, <1>10, <2>1, <2>2, Judges DEF GetQueueFails
  <2> QED
    BY <1>7, <2>3
<1>11. CASE EnqueueFull(r)
  <2>1. ~ \E n \in replies : n.req = r /\ n.pos = pos[r]
    BY <1>11, NotYetReplied DEF EnqueueFull
  <2>2. Service!Judge(r)
    BY <1>8, <1>9, <1>11, <2>1, Judges DEF EnqueueFull
  <2> QED
    BY <1>7, <2>2
<1>12. CASE EnqueueCancelled(r) \/ AwaitCancelled(r)
  <2>1. Service!Judge(r)
    BY <1>8, <1>9, <1>12, Judges DEF EnqueueCancelled, AwaitCancelled
  <2> QED
    BY <1>7, <2>1
<1>13. CASE ReceiveResult(r)
  <2>1. PICK m \in replies : m.req = r /\ m.pos = pos[r] /\ res' = [res EXCEPT ![r] = m]
    BY <1>13 DEF ReceiveResult
  <2>2. Service!Judge(r)
    BY <1>9, <1>13, <2>1, Judges DEF ReceiveResult
  <2> QED
    BY <1>7, <2>2
<1>14. CASE EnqueuePanics(r)
  <2>1. Phase' = [Phase EXCEPT ![r] = "aborted"]
    BY <1>14, PhaseMoves DEF EnqueuePanics
  <2>2. Service!Abort(r)
    BY <1>2, <1>14, <2>1 DEF EnqueuePanics, Service!Abort, Phase
  <2> QED
    BY <2>2 DEF Service!Next, Service!Proceed
<1>15. CASE Fallback(r)
  <2>1. Phase' = [Phase EXCEPT ![r] = "asking"]
    BY <1>15, PhaseMoves DEF Fallback
  <2>2. ~Service!Final(r)
    BY <1>15, DispatchAssumption
    DEF Fallback, ShouldTryFallback, NoError, Service!Final, TypeOK, DispatchAssumption
  <2>3. Service!AskNext(r)
    BY <1>2, <1>15, <2>1, <2>2 DEF Fallback, Service!AskNext, Service!Unknown, NoResult, Phase
  <2> QED
    BY <2>3 DEF Service!Next, Service!Proceed
<1>16. CASE Finish(r)
  <2>1. Phase' = [Phase EXCEPT ![r] = "answered"]
    BY <1>16, PhaseMoves DEF Finish
  <2>2. Service!Final(r)
    BY <1>16 DEF Finish, ShouldTryFallback, NoError, Service!Final
  <2>3. Service!Answer(r)
    BY <1>2, <1>16, <2>1, <2>2 DEF Finish, Service!Answer, Phase
  <2> QED
    BY <2>3 DEF Service!Next, Service!Proceed
<1> QED
  BY <1>3, <1>4, <1>5, <1>6, <1>10, <1>11, <1>12, <1>13, <1>14, <1>15, <1>16 DEF RequestStep

\* Nobody sees what a worker does but its result.
LEMMA WorkerRefines ==
    ASSUME IInv, NEW w \in Workers, WorkerStep(w)
    PROVE  Service!Next \/ UNCHANGED Service!vars
<1> USE DEF IInv
<1>1. UNCHANGED <<pc, pos, res, cancelled>>
  BY DEF WorkerStep, TakeTask, WorkerExit, ProviderReturns, BackoffElapsed, BackoffCancelled,
     SendResult, DropResult, reqVars
<1>2. Phase' = Phase
  BY <1>1 DEF Phase, PhaseOf
<1>3. CASE SendResult(w)
  <2> DEFINE r == job[w].req
             k == job[w].pos
             m == [req |-> r, pos |-> k, prov |-> w[1], kind |-> out[w]]
  <2>1. /\ job[w] \in Tasks /\ Busy(w) /\ out[w] \in CallKinds \cup {"nil"}
        /\ replies' = replies \cup {m}
    BY <1>3 DEF SendResult, TypeOK, Busy
  <2>2. r \in Requests /\ k \in 1..Len(Chain[r]) /\ job[w] = Task(r, k) /\ Chain[r][k] = w[1]
    BY <2>1, DispatchAssumption DEF Routed, Tasks, Task, DispatchAssumption
  <2>3. InFlight(Task(r, k))
    BY <2>1, <2>2 DEF InFlight, HeldBy
  <2>4. ~Replied(Task(r, k))
    BY <2>2, <2>3 DEF Unique
  <2>5. r \notin cancelled => pc[r] = "wait" /\ k = pos[r]
    BY <2>2, <2>3 DEF InFlightIsAwaited
  <2>6. r \notin cancelled => Phase[r] = "asking" /\ k = pos[r]
    BY <2>2, <2>5 DEF Phase, PhaseOf
  <2>7. ~ \E n \in replies : n.req = r /\ n.pos = k
    BY <2>4 DEF Replied, Task
  <2>8. out[w] \in Service!Spoken
    BY <2>1 DEF CallKinds, Service!Spoken
  <2>9. Service!Say(r, k, out[w])
    BY <1>2, <1>1, <2>1, <2>2, <2>6, <2>7 DEF Service!Say, Phase
  <2> QED
    BY <2>2, <2>8, <2>9 DEF Service!Next
<1>4. CASE ~SendResult(w)
  <2>1. replies' = replies
    BY <1>4 DEF WorkerStep, TakeTask, WorkerExit, ProviderReturns, BackoffElapsed,
       BackoffCancelled, DropResult
  <2> QED
    BY <1>2, <1>1, <2>1 DEF Service!vars, Phase
<1> QED
  BY <1>3, <1>4

LEMMA StepRefines == IInv /\ RepliesSpoken /\ [Next]_vars => Service!Next \/ UNCHANGED Service!vars
<1> SUFFICES ASSUME IInv, RepliesSpoken, [Next]_vars PROVE Service!Next \/ UNCHANGED Service!vars
  OBVIOUS
<1>1. ASSUME NEW c \in Closers, ShutdownStart(c) \/ GiveUp(c) \/ CloserStep(c)
      PROVE  UNCHANGED <<pc, pos, res, cancelled, replies>>
  BY <1>1 DEF ShutdownStart, GiveUp, CloserStep, ClaimQueue, CloseQueue, WorkersDone, reqVars
<1>2. ASSUME UNCHANGED <<pc, pos, res, cancelled, replies>> PROVE UNCHANGED Service!vars
  BY <1>2 DEF Service!vars, PhaseOf
<1> QED
  BY <1>1, <1>2, RequestRefines, WorkerRefines DEF Next, Terminating, vars

LEMMA InitRefines == Init => Service!Init
<1> SUFFICES ASSUME Init PROVE Service!Init
  OBVIOUS
<1>1. [r \in Requests |-> PhaseOf(r)] = [r \in Requests |-> "new"]
  BY DEF Init, PhaseOf
<1> QED
  BY <1>1 DEF Init, Service!Init, Service!Unknown, NoResult

\* HandleChat with its queues, workers, retries and any number of concurrent
\* Shutdown calls implements ChatService, for every configuration.
THEOREM Implements == Spec => ImplementsChatService
<1>1. IInv /\ RepliesSpoken /\ [Next]_vars => [Service!Next]_(Service!vars)
  BY StepRefines
<1>2. Init => RepliesSpoken
  BY DEF Init, RepliesSpoken
<1>3. IInv => TypeOK
  BY DEF IInv
<1> QED
  BY <1>1, <1>2, <1>3, InitRefines, InvariantInit, InvariantNext, SpokenNext, PTL
  DEF Spec, ImplementsChatService, Service!Spec

=============================================================================
