-------------------------- MODULE DispatchEndProofs --------------------------
(* How calls of Shutdown and of HandleChat end: what follows from the         *)
(* inductive invariant of DispatchProofs and a few facts of their own.        *)
EXTENDS DispatchProofs

-----------------------------------------------------------------------------
(* Shutdown *)

\* A queue that one call has claimed is claimed by no other and still open.
ClaimedOnce ==
    /\ \A c \in Closers : spc[c] # "panic" /\ mine[c] \cap closed = {}
    /\ \A c, d \in Closers : c # d => mine[c] \cap mine[d] = {}

\* The goroutines of requests and workers close nothing.
LEMMA OnlyClosersClose ==
    ASSUME \/ \E r \in Requests : HandleChat(r) \/ RejectInvalid(r) \/ Cancel(r) \/ RequestStep(r)
           \/ \E w \in Workers : WorkerStep(w)
           \/ UNCHANGED vars
    PROVE  UNCHANGED <<closing, closed, spc, mine>>
BY DEF HandleChat, RejectInvalid, Cancel, RequestStep, GetQueue, GetQueueFails, Enqueue,
   EnqueueFull, EnqueueCancelled, EnqueuePanics, ReceiveResult, AwaitCancelled, Fallback,
   Finish, WorkerStep, TakeTask, WorkerExit, ProviderReturns, BackoffElapsed,
   BackoffCancelled, SendResult, DropResult, Release, chanVars, stopVars, vars

LEMMA ClaimedNext == TypeOK /\ ClaimedOnce /\ [Next]_vars => ClaimedOnce'
<1> SUFFICES ASSUME TypeOK, ClaimedOnce, [Next]_vars PROVE ClaimedOnce'
  OBVIOUS
<1> USE DEF ClaimedOnce
<1>1. /\ closed \subseteq closing
      /\ mine \in [Closers -> SUBSET closing]
      /\ spc \in [Closers -> {"idle", "sweep", "stopped", "timedout", "panic"}]
  BY DEF TypeOK
<1>2. ASSUME UNCHANGED <<closed, spc, mine>> PROVE ClaimedOnce'
  BY <1>2
<1>3. ASSUME NEW c \in Closers, ShutdownStart(c) \/ WorkersDone(c) \/ GiveUp(c)
      PROVE  ClaimedOnce'
  BY <1>1, <1>3 DEF ShutdownStart, WorkersDone, GiveUp, chanVars
<1>4. ASSUME NEW c \in Closers, NEW p \in Providers, ClaimQueue(c, p) PROVE ClaimedOnce'
  <2>1. closed' = closed /\ spc' = spc /\ mine' = [mine EXCEPT ![c] = {p} \ closing]
    BY <1>4 DEF ClaimQueue
  <2>2. \A d \in Closers : d # c => mine'[d] = mine[d] /\ mine'[d] \cap mine'[c] = {}
    BY <1>1, <2>1
  <2>3. mine'[c] \cap closed' = {}
    BY <1>1, <2>1
  <2> QED
    BY <2>1, <2>2, <2>3
<1>5. ASSUME NEW c \in Closers, CloseQueue(c) PROVE ClaimedOnce'
  <2>1. ~(mine[c] \subseteq closed)
    BY <1>5 DEF CloseQueue
  <2>2. spc' = spc /\ closed' = closed \cup mine[c] /\ mine' = [mine EXCEPT ![c] = {}]
    BY <1>1, <1>5, <2>1 DEF CloseQueue
  <2> QED
    BY <1>1, <2>2
<1> QED
  BY <1>2, <1>3, <1>4, <1>5, OnlyClosersClose DEF Next, CloserStep, Terminating

\* Whatever number of Shutdown calls sweep the queues, the CompareAndSwap keeps
\* each of them from closing what another has closed (lifecycle.go:25).
THEOREM ClosedOnce == Spec => []NoDoubleClose
<1>1. Init => ClaimedOnce
  BY DEF Init, ClaimedOnce
<1>2. ClaimedOnce => NoDoubleClose
  BY DEF ClaimedOnce, NoDoubleClose
<1> QED
  BY <1>1, <1>2, TypeInit, TypeNext, ClaimedNext, PTL DEF Spec

\* A Shutdown that is over has seen every worker leave, and none comes back.
WorkersLeft ==
    \A c \in Closers : spc[c] = "stopped" => \A w \in Workers : wpc[w] = "exited"

LEMMA LeftNext == TypeOK /\ WorkersLeft /\ [Next]_vars => WorkersLeft'
<1> SUFFICES ASSUME TypeOK, WorkersLeft, [Next]_vars,
                    NEW c \in Closers, spc'[c] = "stopped", NEW w \in Workers
             PROVE  wpc'[w] = "exited"
  BY DEF WorkersLeft
<1>1. CASE spc[c] = "stopped"
  <2>1. \A v \in Workers : wpc[v] = "exited"
    BY <1>1 DEF WorkersLeft
  <2>2. ASSUME NEW v \in Workers, WorkerStep(v) PROVE FALSE
    BY <2>1, <2>2 DEF WorkerStep, TakeTask, WorkerExit, ProviderReturns, BackoffElapsed,
       BackoffCancelled, SendResult, DropResult
  <2>3. ASSUME NEW r \in Requests,
               HandleChat(r) \/ RejectInvalid(r) \/ Cancel(r) \/ RequestStep(r)
        PROVE  wpc' = wpc
    BY <2>3 DEF HandleChat, RejectInvalid, Cancel, RequestStep, GetQueue, GetQueueFails,
       Enqueue, EnqueueFull, EnqueueCancelled, EnqueuePanics, ReceiveResult, AwaitCancelled,
       Fallback, Finish, workVars
  <2>4. ASSUME NEW d \in Closers, ShutdownStart(d) \/ GiveUp(d) \/ CloserStep(d)
        PROVE  wpc' = wpc
    BY <2>4 DEF ShutdownStart, GiveUp, CloserStep, ClaimQueue, CloseQueue, WorkersDone, workVars
  <2> QED
    BY <2>1, <2>2, <2>3, <2>4 DEF Next, Terminating, vars
<1>2. CASE spc[c] # "stopped"
  <2>1. ASSUME ~WorkersDone(c) PROVE FALSE
    <3>1. ASSUME NEW d \in Closers,
                 \/ ShutdownStart(d) \/ GiveUp(d) \/ CloseQueue(d) \/ (d # c /\ WorkersDone(d))
                 \/ \E p \in Providers : ClaimQueue(d, p)
          PROVE  FALSE
      BY <1>2, <3>1 DEF ShutdownStart, GiveUp, CloseQueue, WorkersDone, ClaimQueue, TypeOK
    <3> QED
      BY <1>2, <2>1, <3>1, OnlyClosersClose DEF Next, CloserStep, Terminating
  <2> QED
    BY <2>1 DEF WorkersDone, workVars
<1> QED
  BY <1>1, <1>2

\* Every queue has a worker, so it is empty once they have all left.
LEMMA LeftMeansDrained == IInv /\ WorkersLeft => StoppedMeansDrained
<1> SUFFICES ASSUME IInv, WorkersLeft, NEW c \in Closers, spc[c] = "stopped"
             PROVE  /\ \A p \in Providers : queue[p] = <<>>
                    /\ \A w \in Workers : wpc[w] = "exited"
                    /\ \A r \in Requests \ cancelled : pc[r] = "wait" => Replied(Attempt(r))
  BY DEF StoppedMeansDrained
<1>1. \A w \in Workers : wpc[w] = "exited" /\ ~Busy(w)
  BY DEF WorkersLeft, Busy
<1>2. ASSUME NEW p \in Providers PROVE queue[p] = <<>>
  <2>1. 1 \in 1..PoolSize
    BY DispatchAssumption DEF DispatchAssumption, PoolSize
  <2>2. <<p, 1>> \in Workers /\ <<p, 1>>[1] = p
    BY <2>1 DEF Workers
  <2> QED
    BY <1>1, <2>2 DEF IInv, ExitedOnlyWhenDrained
<1>3. \A t : ~InFlight(t)
  BY <1>1, <1>2 DEF InFlight, Queued, HeldBy
<1> QED
  BY <1>1, <1>2, <1>3 DEF IInv, WaiterHasWork

\* A Shutdown that returns nil leaves no task, no worker and no caller that
\* waits in vain (lifecycle.go:33-48), for any number of workers and queues.
THEOREM NothingAbandoned == Spec => []StoppedMeansDrained
<1>1. Init => WorkersLeft
  BY DEF Init, WorkersLeft
<1>2. IInv => TypeOK
  BY DEF IInv
<1> QED
  BY <1>1, <1>2, InvariantInit, InvariantNext, LeftNext, LeftMeansDrained, PTL DEF Spec

-----------------------------------------------------------------------------
(* HandleChat *)

\* A request that was not attempted has no result.
Verdicts == ErrorOnlyAfterWholeChain /\ \A r \in Requests : pc[r] = "idle" => res[r] = NoResult

LEMMA VerdictNext == TypeOK /\ Verdicts /\ [Next]_vars => Verdicts'
<1> DEFINE Goal(r) ==
        /\ pc[r] = "idle" => res[r] = NoResult
        /\ pc[r] = "done" /\ res[r] # NoResult /\ res[r].kind \notin {"ok", "nil", "fatal"}
           => pos[r] = Len(Chain[r])
<1> SUFFICES ASSUME TypeOK, Verdicts, [Next]_vars, NEW r \in Requests
             PROVE  Goal(r)'
  BY DEF Verdicts, ErrorOnlyAfterWholeChain
<1>1. Goal(r)
  BY DEF Verdicts, ErrorOnlyAfterWholeChain
<1>2. ASSUME UNCHANGED <<pc[r], pos[r], res[r]>> PROVE Goal(r)'
  BY <1>1, <1>2
<1>3. CASE Finish(r)
  <2>1. res'[r] = res[r] /\ pos'[r] = pos[r] /\ pc'[r] = "done"
    BY <1>3 DEF Finish, TypeOK
  <2> QED
    BY <1>3, <2>1 DEF Finish, ShouldTryFallback, NoError
<1>4. CASE RejectInvalid(r)
  BY <1>1, <1>4 DEF RejectInvalid, TypeOK
<1>5. ASSUME \/ HandleChat(r) \/ GetQueue(r) \/ GetQueueFails(r) \/ Enqueue(r) \/ EnqueueFull(r)
             \/ EnqueueCancelled(r) \/ EnqueuePanics(r) \/ ReceiveResult(r)
             \/ AwaitCancelled(r) \/ Fallback(r)
      PROVE  Goal(r)'
  BY <1>5 DEF HandleChat, GetQueue, GetQueueFails, Enqueue, EnqueueFull, EnqueueCancelled,
     EnqueuePanics, ReceiveResult, AwaitCancelled, Fallback, TypeOK
<1>6. ASSUME NEW q \in Requests, q # r,
             HandleChat(q) \/ RejectInvalid(q) \/ RequestStep(q)
      PROVE  UNCHANGED <<pc[r], pos[r], res[r]>>
  BY <1>6 DEF HandleChat, RejectInvalid, RequestStep, GetQueue, GetQueueFails, Enqueue,
     EnqueueFull, EnqueueCancelled, EnqueuePanics, ReceiveResult, AwaitCancelled, Fallback,
     Finish, TypeOK
<1>7. ASSUME \/ \E q \in Requests : Cancel(q)
             \/ \E w \in Workers : WorkerStep(w)
             \/ \E c \in Closers : ShutdownStart(c) \/ GiveUp(c) \/ CloserStep(c)
             \/ UNCHANGED vars
      PROVE  UNCHANGED <<pc[r], pos[r], res[r]>>
  BY <1>7 DEF Cancel, WorkerStep, TakeTask, WorkerExit, ProviderReturns, BackoffElapsed,
     BackoffCancelled, SendResult, DropResult, ShutdownStart, GiveUp, CloserStep, ClaimQueue,
     CloseQueue, WorkersDone, reqVars, vars
<1> QED
  BY <1>2, <1>3, <1>4, <1>5, <1>6, <1>7 DEF Next, RequestStep, Terminating

\* No error that another provider might have made good is returned before all
\* names of the chain were attempted, however long it is (HandleChat).
THEOREM ChainExhausted == Spec => []ErrorOnlyAfterWholeChain
<1>1. Init => Verdicts
  BY DEF Init, Verdicts, ErrorOnlyAfterWholeChain
<1>2. Verdicts => ErrorOnlyAfterWholeChain
  BY DEF Verdicts
<1> QED
  BY <1>1, <1>2, TypeInit, TypeNext, VerdictNext, PTL DEF Spec

\* A result is decisive if no other provider may be asked after it.
Settled(r, m) == m.pos = pos[r] /\ (pc[r] = "wait" \/ res[r] = m)

LEMMA SettledStays ==
    ASSUME IInv, [Next]_vars, NEW r \in Requests, r \notin cancelled', NEW m \in replies,
           m.req = r, m.kind \in {"ok", "fatal"}, Settled(r, m)
    PROVE  Settled(r, m)'
<1> USE DEF IInv
<1>1. r \notin cancelled /\ (Moves(r) \/ Enqueue(r))
  BY RequestMoves
<1>2. pc[r] \in {"wait", "return", "done"}
  <2>1. m.pos \in 1..Len(Chain[r]) /\ m.pos = pos[r]
    BY DispatchAssumption DEF Routed, TypeOK, Results, Settled, DispatchAssumption
  <2>2. Replied(Task(r, m.pos))
    BY DEF Replied, Task
  <2> QED
    BY <2>1, <2>2 DEF Started, TypeOK
<1>3. ASSUME UNCHANGED <<pc[r], pos[r], res[r]>> PROVE Settled(r, m)'
  BY <1>3 DEF Settled
<1>4. CASE ReceiveResult(r)
  <2>1. PICK n \in replies : n.req = r /\ n.pos = pos[r] /\ res' = [res EXCEPT ![r] = n]
    BY <1>4 DEF ReceiveResult
  <2>2. n = m
    BY <2>1 DEF Unique, Settled
  <2> QED
    BY <1>4, <2>1, <2>2 DEF ReceiveResult, TypeOK, Settled
<1>5. CASE Finish(r)
  BY <1>5 DEF Finish, Settled, TypeOK
<1>6. CASE Fallback(r)
  BY <1>6 DEF Fallback, ShouldTryFallback, NoError, Settled
<1>7. ASSUME \/ HandleChat(r) \/ RejectInvalid(r) \/ GetQueue(r) \/ GetQueueFails(r)
             \/ Enqueue(r) \/ EnqueueFull(r) \/ EnqueueCancelled(r) \/ EnqueuePanics(r)
             \/ AwaitCancelled(r)
      PROVE  FALSE
  BY <1>1, <1>2, <1>7 DEF HandleChat, RejectInvalid, GetQueue, GetQueueFails, Enqueue,
     EnqueueFull, EnqueueCancelled, EnqueuePanics, AwaitCancelled
<1>8. ASSUME NEW q \in Requests, q # r,
             HandleChat(q) \/ RejectInvalid(q) \/ RequestStep(q)
      PROVE  UNCHANGED <<pc[r], pos[r], res[r]>>
  BY <1>8 DEF HandleChat, RejectInvalid, RequestStep, GetQueue, GetQueueFails, Enqueue,
     EnqueueFull, EnqueueCancelled, EnqueuePanics, ReceiveResult, AwaitCancelled, Fallback,
     Finish, TypeOK
<1>9. ASSUME \/ \E q \in Requests : Cancel(q)
             \/ \E w \in Workers : WorkerStep(w)
             \/ \E c \in Closers : ShutdownStart(c) \/ GiveUp(c) \/ CloserStep(c)
             \/ UNCHANGED vars
      PROVE  UNCHANGED <<pc[r], pos[r], res[r]>>
  BY <1>9 DEF Cancel, WorkerStep, TakeTask, WorkerExit, ProviderReturns, BackoffElapsed,
     BackoffCancelled, SendResult, DropResult, ShutdownStart, GiveUp, CloserStep, ClaimQueue,
     CloseQueue, WorkersDone, reqVars, vars
<1> QED
  BY <1>3, <1>4, <1>5, <1>6, <1>7, <1>8, <1>9 DEF Next, RequestStep, Terminating

LEMMA DecisiveNext ==
    IInv /\ DecisiveReplySettles /\ [Next]_vars => DecisiveReplySettles'
<1> SUFFICES ASSUME IInv, DecisiveReplySettles, [Next]_vars,
                    NEW r \in Requests, r \notin cancelled', NEW m \in replies',
                    m.req = r, m.kind \in {"ok", "fatal"}
             PROVE  Settled(r, m)'
  BY DEF DecisiveReplySettles, Settled
<1> USE DEF IInv
<1>1. r \notin cancelled
  BY RequestMoves
<1>2. CASE m \in replies
  BY <1>1, <1>2, SettledStays DEF DecisiveReplySettles, Settled
<1>3. CASE m \notin replies
  <2>1. PICK w \in Workers : SendResult(w)
    BY <1>3, QuietSteps DEF Quiet, Enqueue, TakeTask, DropResult
  <2>2. m = [req |-> job[w].req, pos |-> job[w].pos, prov |-> w[1], kind |-> out[w]]
    BY <1>3, <2>1 DEF SendResult
  <2>3. job[w] \in Tasks /\ job[w].req = r /\ job[w].pos = m.pos
    BY <2>1, <2>2 DEF SendResult, TypeOK, Busy
  <2>4. m.pos \in 1..Len(Chain[r]) /\ job[w] = Task(r, m.pos)
    BY <2>1, <2>3, DispatchAssumption
    DEF SendResult, Routed, Busy, Tasks, Task, DispatchAssumption
  <2>5. InFlight(Task(r, m.pos))
    BY <2>1, <2>4 DEF InFlight, HeldBy, Busy, SendResult
  <2>6. pc[r] = "wait" /\ m.pos = pos[r]
    BY <1>1, <2>4, <2>5 DEF InFlightIsAwaited
  <2> QED
    BY <2>1, <2>6 DEF Settled, SendResult, reqVars
<1> QED
  BY <1>2, <1>3

\* The first decisive answer of an uncancelled request is its verdict: nobody
\* else is asked afterwards (shouldTryFallback), for any chain and any retries.
THEOREM FirstDecisionStands == Spec => []DecisiveReplySettles
<1>1. Init => DecisiveReplySettles
  BY DEF Init, DecisiveReplySettles
<1> QED
  BY <1>1, InvariantInit, InvariantNext, DecisiveNext, PTL DEF Spec

=============================================================================
