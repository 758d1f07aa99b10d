--------------------------- MODULE DispatchProofs ---------------------------
(* Theorems about Dispatch, for every configuration of the gateway. *)
EXTENDS Dispatch, FiniteSetTheorems, TLAPS

-----------------------------------------------------------------------------
(* Facts about the constants *)

LEMMA CapacityPositive == QueueCapacity \in Nat \ {0}
BY DispatchAssumption DEF DispatchAssumption, QueueCapacity

LEMMA WorkerProvider == \A w \in Workers : w[1] \in Providers
BY DEF Workers

\* The current attempt of a request is a task, and its target is a name.
LEMMA CurrentAttempt ==
    ASSUME TypeOK, NEW r \in Requests
    PROVE  /\ Attempt(r) \in Tasks
           /\ Target(r) \in Names
           /\ \A kind \in Kinds : AttemptError(r, kind) \in Results
BY DispatchAssumption DEF TypeOK, DispatchAssumption, Attempt, Task, Target, AttemptError, Tasks, Results

-----------------------------------------------------------------------------
(* Type correctness *)

LEMMA TypeInit == Init => TypeOK
<1> SUFFICES ASSUME Init PROVE TypeOK
  OBVIOUS
<1>1. \A r \in Requests : pos[r] <= Len(Chain[r])
  BY DispatchAssumption DEF Init, DispatchAssumption
<1>2. \A p \in Providers : Len(queue[p]) <= QueueCapacity
  BY CapacityPositive DEF Init
<1> QED
  BY <1>1, <1>2 DEF Init, TypeOK, Busy, Target, CallKinds, NoTask, NoResult

LEMMA TypeNext == TypeOK /\ [Next]_vars => TypeOK'
<1> SUFFICES ASSUME TypeOK, [Next]_vars PROVE TypeOK'
  OBVIOUS
<1> USE DEF TypeOK, Busy, Target
<1>1. ASSUME NEW r \in Requests, HandleChat(r) PROVE TypeOK'
  BY <1>1 DEF HandleChat, chanVars, workVars, stopVars
<1>2. ASSUME NEW r \in Requests, RejectInvalid(r) PROVE TypeOK'
  BY <1>2 DEF RejectInvalid, chanVars, workVars, stopVars
<1>3. ASSUME NEW r \in Requests, Cancel(r) PROVE TypeOK'
  BY <1>3 DEF Cancel, chanVars, workVars, stopVars
<1>4. ASSUME NEW r \in Requests, GetQueue(r) PROVE TypeOK'
  BY <1>4 DEF GetQueue, chanVars, workVars, stopVars
<1>5. ASSUME NEW r \in Requests, GetQueueFails(r) PROVE TypeOK'
  BY <1>5, CurrentAttempt DEF GetQueueFails, Kinds, chanVars, workVars, stopVars
<1>6. ASSUME NEW r \in Requests, Enqueue(r) PROVE TypeOK'
  BY <1>6, CurrentAttempt, CapacityPositive DEF Enqueue, workVars, stopVars
<1>7. ASSUME NEW r \in Requests, EnqueueFull(r) PROVE TypeOK'
  BY <1>7, CurrentAttempt DEF EnqueueFull, Kinds, chanVars, workVars, stopVars
<1>8. ASSUME NEW r \in Requests, EnqueueCancelled(r) PROVE TypeOK'
  BY <1>8, CurrentAttempt DEF EnqueueCancelled, Kinds, CallKinds, chanVars, workVars, stopVars
<1>9. ASSUME NEW r \in Requests, EnqueuePanics(r) PROVE TypeOK'
  BY <1>9 DEF EnqueuePanics, chanVars, workVars, stopVars
<1>10. ASSUME NEW r \in Requests, ReceiveResult(r) PROVE TypeOK'
  BY <1>10 DEF ReceiveResult, chanVars, workVars, stopVars
<1>11. ASSUME NEW r \in Requests, AwaitCancelled(r) PROVE TypeOK'
  BY <1>11, CurrentAttempt DEF AwaitCancelled, Kinds, CallKinds, chanVars, workVars, stopVars
<1>12. ASSUME NEW r \in Requests, Fallback(r) PROVE TypeOK'
  BY <1>12, DispatchAssumption DEF Fallback, DispatchAssumption, chanVars, workVars, stopVars
<1>13. ASSUME NEW r \in Requests, Finish(r) PROVE TypeOK'
  BY <1>13 DEF Finish, chanVars, workVars, stopVars
<1>14. ASSUME NEW w \in Workers, TakeTask(w) PROVE TypeOK'
  <2>1. w[1] \in Providers
    BY WorkerProvider
  <2>2. /\ Head(queue[w[1]]) \in Tasks
        /\ Tail(queue[w[1]]) \in Seq(Tasks)
        /\ Len(Tail(queue[w[1]])) <= QueueCapacity
    BY <1>14, <2>1, CapacityPositive DEF TakeTask
  <2>3. ASSUME NEW v \in Workers, wpc'[v] = "calling"
        PROVE  try'[v] <= MaxRetries
    <3>1. CASE v = w
      BY <1>14, <2>3, <3>1, DispatchAssumption DEF TakeTask, DispatchAssumption
    <3>2. CASE v # w
      BY <1>14, <2>3, <3>2 DEF TakeTask
    <3> QED
      BY <3>1, <3>2
  <2> QED
    BY <1>14, <2>1, <2>2, <2>3 DEF TakeTask, reqVars, stopVars
<1>15. ASSUME NEW w \in Workers, WorkerExit(w) PROVE TypeOK'
  BY <1>15 DEF WorkerExit, reqVars, chanVars, stopVars
<1>16. ASSUME NEW w \in Workers, NEW kind \in CallKinds, ProviderReturns(w, kind) PROVE TypeOK'
  BY <1>16, DispatchAssumption DEF ProviderReturns, DispatchAssumption, reqVars, chanVars, stopVars
<1>17. ASSUME NEW w \in Workers, BackoffElapsed(w) PROVE TypeOK'
  BY <1>17, DispatchAssumption DEF BackoffElapsed, DispatchAssumption, reqVars, chanVars, stopVars
<1>18. ASSUME NEW w \in Workers, BackoffCancelled(w) PROVE TypeOK'
  BY <1>18 DEF BackoffCancelled, CallKinds, reqVars, chanVars, stopVars
<1>19. ASSUME NEW w \in Workers, SendResult(w) PROVE TypeOK'
  <2>1. [req |-> job[w].req, pos |-> job[w].pos, prov |-> w[1], kind |-> out[w]] \in Results
    BY <1>19, WorkerProvider, DispatchAssumption
    DEF SendResult, DispatchAssumption, Tasks, Results, Kinds
  <2> QED
    BY <1>19, <2>1 DEF SendResult, Release, CallKinds, reqVars, chanVars, stopVars
<1>20. ASSUME NEW w \in Workers, DropResult(w) PROVE TypeOK'
  BY <1>20 DEF DropResult, Release, CallKinds, reqVars, chanVars, stopVars
<1>21. ASSUME NEW c \in Closers, ShutdownStart(c) PROVE TypeOK'
  BY <1>21 DEF ShutdownStart, reqVars, chanVars, workVars
<1>22. ASSUME NEW c \in Closers, NEW p \in Providers, ClaimQueue(c, p) PROVE TypeOK'
  BY <1>22 DEF ClaimQueue, reqVars, workVars
<1>23. ASSUME NEW c \in Closers, CloseQueue(c) PROVE TypeOK'
  BY <1>23 DEF CloseQueue, reqVars, workVars
<1>24. ASSUME NEW c \in Closers, WorkersDone(c) PROVE TypeOK'
  BY <1>24 DEF WorkersDone, reqVars, chanVars, workVars
<1>25. ASSUME NEW c \in Closers, GiveUp(c) PROVE TypeOK'
  BY <1>25 DEF GiveUp, reqVars, chanVars, workVars
<1>26. CASE UNCHANGED vars
  BY <1>26 DEF vars
<1> QED
  BY <1>1, <1>2, <1>3, <1>4, <1>5, <1>6, <1>7, <1>8, <1>9, <1>10, <1>11, <1>12, <1>13,
     <1>14, <1>15, <1>16, <1>17, <1>18, <1>19, <1>20, <1>21, <1>22, <1>23, <1>24, <1>25, <1>26
  DEF Next, RequestStep, WorkerStep, CloserStep, Terminating

THEOREM TypeCorrect == Spec => []TypeOK
BY TypeInit, TypeNext, PTL DEF Spec

-----------------------------------------------------------------------------
(* What a step does to the tasks and the requests *)

\* A step that moves no task: everything but Enqueue, TakeTask, SendResult
\* and DropResult.
Quiet ==
    /\ queue' = queue /\ job' = job /\ replies' = replies
    /\ \A w \in Workers : Busy(w)' = Busy(w)

LEMMA QuietSteps ==
    ASSUME TypeOK, [Next]_vars
    PROVE  \/ Quiet
           \/ \E r \in Requests : Enqueue(r)
           \/ \E w \in Workers : TakeTask(w) \/ SendResult(w) \/ DropResult(w)
<1> USE DEF Quiet, Busy, TypeOK
<1>1. ASSUME NEW r \in Requests,
             \/ HandleChat(r) \/ RejectInvalid(r) \/ Cancel(r) \/ GetQueue(r)
             \/ GetQueueFails(r) \/ EnqueueFull(r) \/ EnqueueCancelled(r)
             \/ EnqueuePanics(r) \/ ReceiveResult(r) \/ AwaitCancelled(r)
             \/ Fallback(r) \/ Finish(r)
      PROVE  Quiet
  BY <1>1 DEF HandleChat, RejectInvalid, Cancel, GetQueue, GetQueueFails, EnqueueFull,
     EnqueueCancelled, EnqueuePanics, ReceiveResult, AwaitCancelled, Fallback, Finish,
     chanVars, workVars
<1>2. ASSUME NEW w \in Workers, WorkerExit(w) PROVE Quiet
  BY <1>2 DEF WorkerExit, chanVars
<1>3. ASSUME NEW w \in Workers, NEW kind \in CallKinds, ProviderReturns(w, kind) PROVE Quiet
  BY <1>3 DEF ProviderReturns, chanVars
<1>4. ASSUME NEW w \in Workers, BackoffElapsed(w) \/ BackoffCancelled(w) PROVE Quiet
  BY <1>4 DEF BackoffElapsed, BackoffCancelled, chanVars
<1>5. ASSUME NEW c \in Closers,
             \/ ShutdownStart(c) \/ CloseQueue(c) \/ WorkersDone(c) \/ GiveUp(c)
             \/ \E p \in Providers : ClaimQueue(c, p)
      PROVE  Quiet
  BY <1>5 DEF ShutdownStart, CloseQueue, WorkersDone, GiveUp, ClaimQueue, chanVars, workVars
<1>6. CASE UNCHANGED vars
  BY <1>6 DEF vars
<1> QED
  BY <1>1, <1>2, <1>3, <1>4, <1>5, <1>6 DEF Next, RequestStep, WorkerStep, CloserStep, Terminating

\* How the goroutine of a request may move while no task moves.
Moves(r) ==
    \/ pc'[r] = pc[r] /\ pos'[r] = pos[r]
    \/ /\ pos'[r] = pos[r] /\ pc'[r] # "wait"
       /\ pc[r] \notin {"wait", "return", "done"}
    \/ pos'[r] = pos[r] /\ pc[r] = "return" /\ pc'[r] = "done"
    \/ /\ pos'[r] = pos[r] /\ pc[r] = "wait" /\ pc'[r] = "return"
       /\ r \in cancelled \/ Replied(Attempt(r))
    \/ pos'[r] = pos[r] + 1 /\ pc[r] = "return" /\ pc'[r] = "attempt"

LEMMA RequestMoves ==
    ASSUME TypeOK, [Next]_vars, NEW r \in Requests
    PROVE  (Moves(r) \/ Enqueue(r)) /\ cancelled \subseteq cancelled'
<1> USE DEF TypeOK, Moves
<1>1. ASSUME NEW q \in Requests,
             \/ HandleChat(q) \/ RejectInvalid(q) \/ Cancel(q) \/ GetQueue(q)
             \/ GetQueueFails(q) \/ EnqueueFull(q) \/ EnqueueCancelled(q)
             \/ EnqueuePanics(q) \/ Fallback(q) \/ Finish(q)
      PROVE  Moves(r) /\ cancelled \subseteq cancelled'
  BY <1>1 DEF HandleChat, RejectInvalid, Cancel, GetQueue, GetQueueFails, EnqueueFull,
     EnqueueCancelled, EnqueuePanics, Fallback, Finish
<1>2. ASSUME NEW q \in Requests, ReceiveResult(q) \/ AwaitCancelled(q)
      PROVE  Moves(r) /\ cancelled \subseteq cancelled'
  BY <1>2 DEF ReceiveResult, AwaitCancelled, Replied, Attempt, Task
<1>3. ASSUME NEW q \in Requests, Enqueue(q)
      PROVE  (Moves(r) \/ Enqueue(r)) /\ cancelled \subseteq cancelled'
  <2>1. CASE q = r
    BY <1>3, <2>1 DEF Enqueue
  <2>2. CASE q # r
    BY <1>3, <2>2 DEF Enqueue
  <2> QED
    BY <2>1, <2>2
<1>4. ASSUME NEW w \in Workers, WorkerStep(w)
      PROVE  Moves(r) /\ cancelled \subseteq cancelled'
  BY <1>4 DEF WorkerStep, TakeTask, WorkerExit, ProviderReturns, BackoffElapsed,
     BackoffCancelled, SendResult, DropResult, reqVars
<1>5. ASSUME NEW c \in Closers, ShutdownStart(c) \/ GiveUp(c) \/ CloserStep(c)
      PROVE  Moves(r) /\ cancelled \subseteq cancelled'
  BY <1>5 DEF ShutdownStart, GiveUp, CloserStep, ClaimQueue, CloseQueue, WorkersDone, reqVars
<1>6. CASE UNCHANGED vars
  BY <1>6 DEF vars
<1> QED
  BY <1>1, <1>2, <1>3, <1>4, <1>5, <1>6 DEF Next, RequestStep, Terminating

LEMMA QuietEffect ==
    ASSUME TypeOK, Quiet, NEW t
    PROVE  /\ Queued(t)' = Queued(t)
           /\ \A w \in Workers : HeldBy(w, t)' = HeldBy(w, t)
           /\ InFlight(t)' = InFlight(t)
           /\ Replied(t)' = Replied(t)
BY DEF Quiet, Queued, HeldBy, InFlight, Replied

\* Enqueue adds one task to one queue.
LEMMA EnqueueEffect ==
    ASSUME TypeOK, NEW r \in Requests, Enqueue(r), NEW t
    PROVE  /\ Queued(t)' <=> Queued(t) \/ t = Attempt(r)
           /\ \A w \in Workers : HeldBy(w, t)' = HeldBy(w, t)
           /\ Replied(t)' = Replied(t)
<1>1. Attempt(r) \in Tasks /\ Target(r) \in Providers
  BY CurrentAttempt DEF TypeOK, Enqueue
<1>2. queue \in [Providers -> Seq(Tasks)]
  BY DEF TypeOK
<1>3. queue' = [queue EXCEPT ![Target(r)] = Append(@, Attempt(r))]
  BY DEF Enqueue
<1>4. ASSUME Queued(t)' PROVE Queued(t) \/ t = Attempt(r)
  <2>1. PICK p \in Providers : \E i \in 1..Len(queue'[p]) : queue'[p][i] = t
    BY <1>4 DEF Queued
  <2>2. CASE p = Target(r)
    BY <1>1, <1>2, <1>3, <2>1, <2>2 DEF Queued
  <2>3. CASE p # Target(r)
    BY <1>1, <1>2, <1>3, <2>1, <2>3 DEF Queued
  <2> QED
    BY <2>2, <2>3
<1>5. ASSUME Queued(t) PROVE Queued(t)'
  <2>1. PICK p \in Providers : \E i \in 1..Len(queue[p]) : queue[p][i] = t
    BY <1>5 DEF Queued
  <2>2. PICK i \in 1..Len(queue[p]) : queue[p][i] = t
    BY <2>1
  <2>3. i \in 1..Len(queue'[p]) /\ queue'[p][i] = t
    BY <1>1, <1>2, <1>3, <2>2
  <2> QED
    BY <2>3 DEF Queued
<1>6. ASSUME t = Attempt(r) PROVE Queued(t)'
  <2> DEFINE n == Len(queue[Target(r)]) + 1
  <2>1. n \in 1..Len(queue'[Target(r)]) /\ queue'[Target(r)][n] = t
    BY <1>1, <1>2, <1>3, <1>6
  <2> QED
    BY <1>1, <2>1 DEF Queued
<1>7. \A w \in Workers : HeldBy(w, t)' = HeldBy(w, t)
  BY DEF Enqueue, HeldBy, Busy, workVars
<1>8. Replied(t)' = Replied(t)
  BY DEF Enqueue, Replied
<1> QED
  BY <1>4, <1>5, <1>6, <1>7, <1>8

\* TakeTask moves the oldest task of a queue to a worker that held none.
LEMMA TakeEffect ==
    ASSUME TypeOK, Unique, NEW w \in Workers, TakeTask(w), NEW t
    PROVE  /\ Head(queue[w[1]]) \in Tasks
           /\ Queued(Head(queue[w[1]]))
           /\ Queued(t)' <=> Queued(t) /\ t # Head(queue[w[1]])
           /\ \A v \in Workers :
                 HeldBy(v, t)' <=> HeldBy(v, t) \/ (v = w /\ t = Head(queue[w[1]]))
           /\ Replied(t)' = Replied(t)
<1> DEFINE p == w[1]
           h == Head(queue[p])
<1>1. p \in Providers
  BY WorkerProvider
<1>2. queue \in [Providers -> Seq(Tasks)] /\ queue[p] # <<>>
  BY DEF TypeOK, TakeTask
<1>3. queue' = [queue EXCEPT ![p] = Tail(@)]
  BY DEF TakeTask
<1>4. h \in Tasks /\ 1 \in 1..Len(queue[p]) /\ queue[p][1] = h
  BY <1>1, <1>2
<1>5. Queued(h)
  BY <1>1, <1>4 DEF Queued
<1>6. ASSUME Queued(t)' PROVE Queued(t) /\ t # h
  <2>1. PICK q \in Providers : \E i \in 1..Len(queue'[q]) : queue'[q][i] = t
    BY <1>6 DEF Queued
  <2>2. PICK i \in 1..Len(queue'[q]) : queue'[q][i] = t
    BY <2>1
  <2>3. CASE q = p
    <3>1. i + 1 \in 1..Len(queue[p]) /\ queue[p][i + 1] = t /\ i + 1 # 1
      BY <1>1, <1>2, <1>3, <2>2, <2>3
    <3> QED
      BY <1>1, <1>4, <3>1 DEF Queued, Unique
  <2>4. CASE q # p
    <3>1. i \in 1..Len(queue[q]) /\ queue[q][i] = t
      BY <1>1, <1>2, <1>3, <2>2, <2>4
    <3> QED
      BY <1>1, <1>4, <2>4, <3>1 DEF Queued, Unique
  <2> QED
    BY <2>3, <2>4
<1>7. ASSUME Queued(t), t # h PROVE Queued(t)'
  <2>1. PICK q \in Providers : \E i \in 1..Len(queue[q]) : queue[q][i] = t
    BY <1>7 DEF Queued
  <2>2. PICK i \in 1..Len(queue[q]) : queue[q][i] = t
    BY <2>1
  <2>3. CASE q = p
    <3>1. i # 1
      BY <1>4, <1>7, <2>2, <2>3
    <3>2. i - 1 \in 1..Len(queue'[p]) /\ queue'[p][i - 1] = t
      BY <1>1, <1>2, <1>3, <2>2, <2>3, <3>1
    <3> QED
      BY <1>1, <3>2 DEF Queued
  <2>4. CASE q # p
    <3>1. i \in 1..Len(queue'[q]) /\ queue'[q][i] = t
      BY <1>1, <1>2, <1>3, <2>2, <2>4
    <3> QED
      BY <3>1 DEF Queued
  <2> QED
    BY <2>3, <2>4
<1>8. \A v \in Workers : HeldBy(v, t)' <=> HeldBy(v, t) \/ (v = w /\ t = h)
  BY DEF TypeOK, TakeTask, HeldBy, Busy
<1>9. Replied(t)' = Replied(t)
  BY DEF TakeTask, Replied
<1> QED
  BY <1>4, <1>5, <1>6, <1>7, <1>8, <1>9

\* SendResult turns the task a worker holds into a reply.
LEMMA SendEffect ==
    ASSUME TypeOK, NEW w \in Workers, SendResult(w), NEW t \in Tasks
    PROVE  /\ job[w] \in Tasks /\ HeldBy(w, job[w])
           /\ Queued(t)' = Queued(t)
           /\ \A v \in Workers : HeldBy(v, t)' <=> HeldBy(v, t) /\ v # w
           /\ Replied(t)' <=> Replied(t) \/ t = job[w]
<1>1. job[w] \in Tasks /\ HeldBy(w, job[w])
  BY DEF TypeOK, SendResult, HeldBy, Busy
<1>2. Queued(t)' = Queued(t)
  BY DEF SendResult, Queued, chanVars
<1>3. \A v \in Workers : HeldBy(v, t)' <=> HeldBy(v, t) /\ v # w
  BY DEF TypeOK, SendResult, Release, HeldBy, Busy
<1>4. (t.req = job[w].req /\ t.pos = job[w].pos) <=> t = job[w]
  BY <1>1 DEF Tasks
<1>5. Replied(t)' <=> Replied(t) \/ t = job[w]
  <2> DEFINE m == [req |-> job[w].req, pos |-> job[w].pos, prov |-> w[1], kind |-> out[w]]
  <2>1. replies' = replies \cup {m} /\ m.req = job[w].req /\ m.pos = job[w].pos
    BY DEF SendResult
  <2> HIDE DEF m
  <2>2. Replied(t)' <=> Replied(t) \/ (t.req = m.req /\ t.pos = m.pos)
    BY <2>1 DEF Replied
  <2> QED
    BY <1>4, <2>1, <2>2
<1> QED
  BY <1>1, <1>2, <1>3, <1>5

\* DropResult makes the task a worker holds vanish.
LEMMA DropEffect ==
    ASSUME TypeOK, NEW w \in Workers, DropResult(w), NEW t
    PROVE  /\ job[w] \in Tasks /\ HeldBy(w, job[w]) /\ job[w].req \in cancelled
           /\ Queued(t)' = Queued(t)
           /\ \A v \in Workers : HeldBy(v, t)' <=> HeldBy(v, t) /\ v # w
           /\ Replied(t)' = Replied(t)
<1>1. job[w] \in Tasks /\ HeldBy(w, job[w]) /\ job[w].req \in cancelled
  BY DEF TypeOK, DropResult, HeldBy, Busy
<1>2. Queued(t)' = Queued(t)
  BY DEF DropResult, Queued, chanVars
<1>3. \A v \in Workers : HeldBy(v, t)' <=> HeldBy(v, t) /\ v # w
  BY DEF TypeOK, DropResult, Release, HeldBy, Busy
<1>4. Replied(t)' = Replied(t)
  BY DEF DropResult, Replied
<1> QED
  BY <1>1, <1>2, <1>3, <1>4

-----------------------------------------------------------------------------
(* The conjuncts of the inductive invariant *)

\* What is about a request and a position is about a task.
LEMMA TaskOf ==
    ASSUME TypeOK, NEW r \in Requests, NEW k \in 1..Len(Chain[r])
    PROVE  Task(r, k) \in Tasks /\ Task(r, k).req = r /\ Task(r, k).pos = k
BY DispatchAssumption DEF DispatchAssumption, Task, Tasks

LEMMA RoutedNext == TypeOK /\ Routed /\ [Next]_vars => Routed'
<1> SUFFICES ASSUME TypeOK, Routed, [Next]_vars PROVE Routed'
  OBVIOUS
<1>1. CASE Quiet
  BY <1>1 DEF Routed, Quiet
<1>2. ASSUME NEW r \in Requests, Enqueue(r) PROVE Routed'
  <2>1. Attempt(r) \in Tasks /\ Target(r) \in Providers
    BY <1>2, CurrentAttempt DEF TypeOK, Enqueue
  <2>2. Attempt(r).pos <= Len(Chain[Attempt(r).req])
        /\ Chain[Attempt(r).req][Attempt(r).pos] = Target(r)
    BY DEF TypeOK, Attempt, Task, Target
  <2>3. queue \in [Providers -> Seq(Tasks)]
    BY DEF TypeOK
  <2>4. ASSUME NEW p \in Providers, NEW i \in 1..Len(queue'[p])
        PROVE  /\ queue'[p][i].pos <= Len(Chain[queue'[p][i].req])
               /\ Chain[queue'[p][i].req][queue'[p][i].pos] = p
    <3>1. CASE i \in 1..Len(queue[p]) /\ queue'[p][i] = queue[p][i]
      BY <3>1 DEF Routed
    <3>2. CASE p = Target(r) /\ queue'[p][i] = Attempt(r)
      BY <2>2, <3>2
    <3> QED
      BY <1>2, <2>1, <2>3, <2>4, <3>1, <3>2 DEF Enqueue
  <2> QED
    BY <1>2, <2>4 DEF Routed, Enqueue, Busy, workVars
<1>3. ASSUME NEW w \in Workers, TakeTask(w) PROVE Routed'
  <2>1. w[1] \in Providers
    BY WorkerProvider
  <2>2. queue \in [Providers -> Seq(Tasks)] /\ queue[w[1]] # <<>>
    BY <1>3 DEF TypeOK, TakeTask
  <2>3. ASSUME NEW p \in Providers, NEW i \in 1..Len(queue'[p])
        PROVE  \E j \in 1..Len(queue[p]) : queue'[p][i] = queue[p][j]
    <3>1. CASE p = w[1]
      <4>1. i + 1 \in 1..Len(queue[p]) /\ queue'[p][i] = queue[p][i + 1]
        BY <1>3, <2>1, <2>2, <2>3, <3>1 DEF TakeTask
      <4> QED
        BY <4>1
    <3>2. CASE p # w[1]
      BY <1>3, <2>1, <2>2, <2>3, <3>2 DEF TakeTask
    <3> QED
      BY <3>1, <3>2
  <2>4. 1 \in 1..Len(queue[w[1]]) /\ Head(queue[w[1]]) = queue[w[1]][1]
    BY <2>1, <2>2
  <2>5. ASSUME NEW v \in Workers, Busy(v)'
        PROVE  \/ Busy(v) /\ job'[v] = job[v]
               \/ v = w /\ job'[v] = queue[w[1]][1]
    BY <1>3, <2>4, <2>5 DEF TypeOK, TakeTask, Busy
  <2>6. replies' = replies
    BY <1>3 DEF TakeTask
  <2>7. ASSUME NEW v \in Workers, Busy(v)'
        PROVE  /\ job'[v].pos <= Len(Chain[job'[v].req])
               /\ Chain[job'[v].req][job'[v].pos] = v[1]
    <3>1. CASE Busy(v) /\ job'[v] = job[v]
      BY <3>1 DEF Routed
    <3>2. CASE v = w /\ job'[v] = queue[w[1]][1]
      BY <2>1, <2>4, <3>2 DEF Routed
    <3> QED
      BY <2>5, <2>7, <3>1, <3>2
  <2>8. ASSUME NEW p \in Providers, NEW i \in 1..Len(queue'[p])
        PROVE  /\ queue'[p][i].pos <= Len(Chain[queue'[p][i].req])
               /\ Chain[queue'[p][i].req][queue'[p][i].pos] = p
    <3>1. PICK j \in 1..Len(queue[p]) : queue'[p][i] = queue[p][j]
      BY <2>3
    <3> QED
      BY <3>1 DEF Routed
  <2> QED
    BY <2>6, <2>7, <2>8 DEF Routed, Busy
<1>4. ASSUME NEW w \in Workers, SendResult(w) PROVE Routed'
  <2>1. queue' = queue /\ \A v \in Workers : Busy(v)' => Busy(v) /\ job'[v] = job[v]
    BY <1>4 DEF TypeOK, SendResult, Release, Busy, chanVars
  <2>2. Busy(w)
    BY <1>4 DEF SendResult, Busy
  <2> QED
    BY <1>4, <2>1, <2>2 DEF Routed, SendResult
<1>5. ASSUME NEW w \in Workers, DropResult(w) PROVE Routed'
  BY <1>5 DEF TypeOK, Routed, DropResult, Release, Busy, chanVars
<1> QED
  BY <1>1, <1>2, <1>3, <1>4, <1>5, QuietSteps

LEMMA StartedNext ==
    TypeOK /\ Routed /\ Started /\ Unique /\ [Next]_vars => Started'
<1> SUFFICES ASSUME TypeOK, Routed, Started, Unique, [Next]_vars,
                    NEW r \in Requests, NEW k \in 1..Len(Chain[r]),
                    InFlight(Task(r, k))' \/ Replied(Task(r, k))'
             PROVE  \/ k < pos'[r]
                    \/ k = pos'[r] /\ pc'[r] \in {"wait", "return", "done"}
  BY DEF Started, Task
<1> DEFINE t == Task(r, k)
<1>1. t \in Tasks /\ t.req = r /\ t.pos = k /\ k \in Nat
  BY TaskOf DEF Tasks
<1>2. (Moves(r) \/ Enqueue(r)) /\ pos[r] \in Nat
  BY RequestMoves DEF TypeOK
<1>3. ASSUME InFlight(t) \/ Replied(t)
      PROVE  \/ k < pos'[r]
             \/ k = pos'[r] /\ pc'[r] \in {"wait", "return", "done"}
  <2>1. \/ k < pos[r]
        \/ k = pos[r] /\ pc[r] \in {"wait", "return", "done"}
    BY <1>3 DEF Started
  <2>2. CASE Moves(r)
    BY <1>1, <1>2, <2>1, <2>2 DEF Moves
  <2>3. CASE Enqueue(r)
    BY <1>2, <2>1, <2>3 DEF Enqueue, TypeOK
  <2> QED
    BY <1>2, <2>2, <2>3
<1>4. CASE Quiet
  BY <1>3, <1>4, QuietEffect
<1>5. ASSUME NEW q \in Requests, Enqueue(q)
      PROVE  \/ k < pos'[r]
             \/ k = pos'[r] /\ pc'[r] \in {"wait", "return", "done"}
  <2>1. CASE t = Attempt(q)
    <3>1. r = q /\ k = pos[r]
      BY <1>1, <2>1 DEF Attempt, Task
    <3> QED
      BY <1>5, <3>1 DEF TypeOK, Enqueue
  <2>2. CASE t # Attempt(q)
    BY <1>3, <1>5, <2>2, EnqueueEffect DEF InFlight
  <2> QED
    BY <2>1, <2>2
<1>6. ASSUME NEW w \in Workers, TakeTask(w) PROVE InFlight(t) \/ Replied(t)
  BY <1>6, TakeEffect DEF InFlight
<1>7. ASSUME NEW w \in Workers, SendResult(w) PROVE InFlight(t) \/ Replied(t)
  BY <1>1, <1>7, SendEffect DEF InFlight
<1>8. ASSUME NEW w \in Workers, DropResult(w) PROVE InFlight(t) \/ Replied(t)
  BY <1>8, DropEffect DEF InFlight
<1> QED
  BY <1>3, <1>4, <1>5, <1>6, <1>7, <1>8, QuietSteps

\* An uncancelled caller that waits never loses its attempt.
LEMMA WaiterNext ==
    TypeOK /\ Unique /\ WaiterHasWork /\ [Next]_vars => WaiterHasWork'
<1> SUFFICES ASSUME TypeOK, Unique, WaiterHasWork, [Next]_vars,
                    NEW r \in Requests, r \notin cancelled', pc'[r] = "wait"
             PROVE  InFlight(Attempt(r))' \/ Replied(Attempt(r))'
  BY DEF WaiterHasWork
<1>1. (Moves(r) \/ Enqueue(r)) /\ r \notin cancelled
  BY RequestMoves
<1>2. CASE Enqueue(r)
  <2>1. Attempt(r)' = Attempt(r)
    BY <1>2 DEF Enqueue, Attempt, Task
  <2>2. Queued(Attempt(r))'
    BY <1>2, EnqueueEffect, <2>1
  <2> QED
    BY <2>1, <2>2 DEF InFlight
<1>3. CASE Moves(r) /\ ~Enqueue(r)
  <2>0. pc[r] = "wait" /\ Attempt(r)' = Attempt(r)
    BY <1>3 DEF Moves, Attempt, Task
  <2>1. PICK t \in Tasks : t = Attempt(r) /\ t = Attempt(r)' /\ t.req = r
    BY <2>0, CurrentAttempt DEF Attempt, Task
  <2>2. InFlight(t) \/ Replied(t)
    BY <1>1, <2>0, <2>1 DEF WaiterHasWork
  <2>3. ASSUME Quiet PROVE InFlight(t)' \/ Replied(t)'
    BY <2>2, <2>3, QuietEffect
  <2>4. ASSUME NEW q \in Requests, Enqueue(q) PROVE InFlight(t)' \/ Replied(t)'
    BY <2>2, <2>4, EnqueueEffect DEF InFlight
  <2>5. ASSUME NEW w \in Workers, TakeTask(w) PROVE InFlight(t)' \/ Replied(t)'
    BY <2>2, <2>5, TakeEffect DEF InFlight
  <2>6. ASSUME NEW w \in Workers, SendResult(w) PROVE InFlight(t)' \/ Replied(t)'
    BY <2>1, <2>2, <2>6, SendEffect DEF InFlight, HeldBy
  <2>7. ASSUME NEW w \in Workers, DropResult(w) PROVE InFlight(t)' \/ Replied(t)'
    BY <1>1, <2>1, <2>2, <2>7, DropEffect DEF InFlight, HeldBy
  <2>8. InFlight(t)' \/ Replied(t)'
    BY <2>3, <2>4, <2>5, <2>6, <2>7, QuietSteps
  <2> QED
    BY <2>1, <2>8 DEF InFlight, Replied, Queued, HeldBy
<1> QED
  BY <1>1, <1>2, <1>3

\* Work for an uncancelled request is awaited: nobody else starts or keeps any.
LEMMA InFlightNext ==
    /\ TypeOK /\ Routed /\ Started /\ Unique /\ InFlightIsAwaited /\ [Next]_vars
    => InFlightIsAwaited'
<1> SUFFICES ASSUME TypeOK, Started, Unique, InFlightIsAwaited, [Next]_vars,
                    NEW r \in Requests, r \notin cancelled',
                    NEW k \in 1..Len(Chain[r]), InFlight(Task(r, k))'
             PROVE  pc'[r] = "wait" /\ k = pos'[r]
  BY DEF InFlightIsAwaited, Task
<1> DEFINE t == Task(r, k)
<1>1. t \in Tasks /\ t.req = r /\ t.pos = k
  BY TaskOf
<1>2. (Moves(r) \/ Enqueue(r)) /\ r \notin cancelled
  BY RequestMoves
<1>3. ASSUME InFlight(t) PROVE pc'[r] = "wait" /\ k = pos'[r]
  <2>1. pc[r] = "wait" /\ k = pos[r] /\ ~Replied(t)
    BY <1>2, <1>3 DEF InFlightIsAwaited, Unique
  <2>2. t = Attempt(r)
    BY <2>1 DEF Attempt
  <2>3. Moves(r)
    BY <1>2, <2>1 DEF Enqueue
  <2> QED
    BY <1>2, <2>1, <2>2, <2>3 DEF Moves
<1>4. CASE Quiet
  BY <1>3, <1>4, QuietEffect
<1>5. ASSUME NEW q \in Requests, Enqueue(q) PROVE pc'[r] = "wait" /\ k = pos'[r]
  <2>1. CASE t = Attempt(q)
    <3>1. r = q /\ k = pos[r]
      BY <1>1, <2>1 DEF Attempt, Task
    <3> QED
      BY <1>5, <3>1 DEF TypeOK, Enqueue
  <2>2. CASE t # Attempt(q)
    BY <1>3, <1>5, <2>2, EnqueueEffect DEF InFlight
  <2> QED
    BY <2>1, <2>2
<1>6. ASSUME NEW w \in Workers, TakeTask(w) PROVE InFlight(t)
  BY <1>6, TakeEffect DEF InFlight
<1>7. ASSUME NEW w \in Workers, SendResult(w) PROVE InFlight(t)
  BY <1>1, <1>7, SendEffect DEF InFlight
<1>8. ASSUME NEW w \in Workers, DropResult(w) PROVE InFlight(t)
  BY <1>8, DropEffect DEF InFlight
<1> QED
  BY <1>3, <1>4, <1>5, <1>6, <1>7, <1>8, QuietSteps

\* A worker that is gone left a closed, empty channel, and no task enters one.
LEMMA DrainedNext == TypeOK /\ ExitedOnlyWhenDrained /\ [Next]_vars => ExitedOnlyWhenDrained'
<1> SUFFICES ASSUME TypeOK, ExitedOnlyWhenDrained, [Next]_vars,
                    NEW v \in Workers, wpc'[v] = "exited"
             PROVE  v[1] \in closed' /\ queue'[v[1]] = <<>>
  BY DEF ExitedOnlyWhenDrained
<1>1. v[1] \in Providers
  BY WorkerProvider
<1> USE DEF TypeOK, ExitedOnlyWhenDrained
<1>2. ASSUME NEW r \in Requests, Enqueue(r)
      PROVE  v[1] \in closed' /\ queue'[v[1]] = <<>>
  BY <1>1, <1>2 DEF Enqueue, workVars
<1>3. ASSUME NEW r \in Requests,
             \/ HandleChat(r) \/ RejectInvalid(r) \/ Cancel(r) \/ GetQueue(r)
             \/ GetQueueFails(r) \/ EnqueueFull(r) \/ EnqueueCancelled(r)
             \/ EnqueuePanics(r) \/ ReceiveResult(r) \/ AwaitCancelled(r)
             \/ Fallback(r) \/ Finish(r)
      PROVE  v[1] \in closed' /\ queue'[v[1]] = <<>>
  BY <1>3 DEF HandleChat, RejectInvalid, Cancel, GetQueue, GetQueueFails, EnqueueFull,
     EnqueueCancelled, EnqueuePanics, ReceiveResult, AwaitCancelled, Fallback, Finish,
     chanVars, workVars
<1>4. ASSUME NEW w \in Workers, TakeTask(w)
      PROVE  v[1] \in closed' /\ queue'[v[1]] = <<>>
  <2>1. wpc[v] = "exited" /\ v[1] # w[1] /\ w[1] \in Providers
    BY <1>4, WorkerProvider DEF TakeTask
  <2> QED
    BY <1>1, <1>4, <2>1 DEF TakeTask
<1>5. ASSUME NEW w \in Workers,
             \/ WorkerExit(w) \/ BackoffElapsed(w) \/ BackoffCancelled(w)
             \/ SendResult(w) \/ DropResult(w)
             \/ \E kind \in CallKinds : ProviderReturns(w, kind)
      PROVE  v[1] \in closed' /\ queue'[v[1]] = <<>>
  BY <1>5 DEF WorkerExit, BackoffElapsed, BackoffCancelled, SendResult, DropResult,
     ProviderReturns, Release, chanVars
<1>6. ASSUME NEW c \in Closers,
             \/ ShutdownStart(c) \/ CloseQueue(c) \/ WorkersDone(c) \/ GiveUp(c)
             \/ \E p \in Providers : ClaimQueue(c, p)
      PROVE  v[1] \in closed' /\ queue'[v[1]] = <<>>
  BY <1>6 DEF ShutdownStart, CloseQueue, WorkersDone, GiveUp, ClaimQueue, chanVars, workVars
<1>7. CASE UNCHANGED vars
  BY <1>7 DEF vars
<1> QED
  BY <1>2, <1>3, <1>4, <1>5, <1>6, <1>7
  DEF Next, RequestStep, WorkerStep, CloserStep, Terminating

\* The result a request holds is the one of its current attempt.
LEMMA AnswerNext ==
    TypeOK /\ Routed /\ AnswerIsFromCurrentAttempt /\ [Next]_vars
    => AnswerIsFromCurrentAttempt'
<1> DEFINE Mine(r) == res[r].req = r /\ res[r].pos = pos[r] /\ res[r].prov = Chain[r][pos[r]]
<1> SUFFICES ASSUME TypeOK, Routed, AnswerIsFromCurrentAttempt, [Next]_vars,
                    NEW r \in Requests, res'[r] # NoResult
             PROVE  Mine(r)'
  BY DEF AnswerIsFromCurrentAttempt, Target
<1> USE DEF TypeOK
<1>1. res[r] # NoResult => Mine(r)
  BY DEF AnswerIsFromCurrentAttempt, Target
<1>2. ASSUME NEW q \in Requests,
             GetQueueFails(q) \/ EnqueueFull(q) \/ EnqueueCancelled(q) \/ AwaitCancelled(q)
      PROVE  Mine(r)'
  <2>1. pos' = pos /\ \E kind : res' = [res EXCEPT ![q] = AttemptError(q, kind)]
    BY <1>2 DEF GetQueueFails, EnqueueFull, EnqueueCancelled, AwaitCancelled
  <2>2. PICK kind : res' = [res EXCEPT ![q] = AttemptError(q, kind)]
    BY <2>1
  <2>3. res'[r] = IF r = q THEN AttemptError(q, kind) ELSE res[r]
    BY <2>2
  <2> QED
    BY <1>1, <2>1, <2>3 DEF AttemptError, Target
<1>3. ASSUME NEW q \in Requests, ReceiveResult(q) PROVE Mine(r)'
  BY <1>1, <1>3 DEF ReceiveResult, Routed
<1>4. ASSUME NEW q \in Requests,
             \/ HandleChat(q) \/ RejectInvalid(q) \/ Cancel(q) \/ GetQueue(q)
             \/ Enqueue(q) \/ EnqueuePanics(q) \/ Fallback(q) \/ Finish(q)
      PROVE  Mine(r)'
  BY <1>1, <1>4 DEF HandleChat, RejectInvalid, Cancel, GetQueue, Enqueue, EnqueuePanics,
     Fallback, Finish
<1>5. ASSUME UNCHANGED reqVars PROVE Mine(r)'
  BY <1>1, <1>5 DEF reqVars
<1>6. ASSUME NEW w \in Workers, WorkerStep(w) PROVE UNCHANGED reqVars
  BY <1>6 DEF WorkerStep, TakeTask, WorkerExit, ProviderReturns, BackoffElapsed,
     BackoffCancelled, SendResult, DropResult
<1>7. ASSUME NEW c \in Closers, ShutdownStart(c) \/ GiveUp(c) \/ CloserStep(c)
      PROVE  UNCHANGED reqVars
  BY <1>7 DEF ShutdownStart, GiveUp, CloserStep, ClaimQueue, CloseQueue, WorkersDone
<1>8. CASE UNCHANGED vars
  BY <1>5, <1>8 DEF vars, reqVars
<1> QED
  BY <1>2, <1>3, <1>4, <1>5, <1>6, <1>7, <1>8 DEF Next, RequestStep, Terminating

\* No step puts an attempt in a second place.
LEMMA UniqueNext == TypeOK /\ Routed /\ Started /\ Unique /\ [Next]_vars => Unique'
<1> SUFFICES ASSUME TypeOK, Routed, Started, Unique, [Next]_vars PROVE Unique'
  OBVIOUS
<1> DEFINE OneEntry == \A p, q \in Providers :
                         \A i \in 1..Len(queue[p]), j \in 1..Len(queue[q]) :
                            queue[p][i] = queue[q][j] => p = q /\ i = j
           OneHolder == \A v, w \in Workers : Busy(v) /\ Busy(w) /\ job[v] = job[w] => v = w
           OneReply == \A m, n \in replies : m.req = n.req /\ m.pos = n.pos => m = n
           Apart(t) == /\ Queued(t) => \A w \in Workers : ~HeldBy(w, t)
                       /\ InFlight(t) => ~Replied(t)
           AllApart == \A r \in Requests : \A k \in 1..Len(Chain[r]) : Apart(Task(r, k))
<1>0. \A p, q \in Providers : \A i \in 1..Len(queue[p]), j \in 1..Len(queue[q]) :
         queue[p][i] = queue[q][j] => p = q /\ i = j
  BY DEF Unique
<1>1. OneEntry /\ OneHolder /\ OneReply /\ AllApart
  BY DEF Unique
<1>2. SUFFICES OneEntry' /\ OneHolder' /\ OneReply' /\ AllApart'
  BY DEF Unique
<1>3. CASE Quiet
  <2>1. OneEntry' /\ OneHolder' /\ OneReply'
    BY <1>1, <1>3 DEF Quiet
  <2>2. ASSUME NEW r \in Requests, NEW k \in 1..Len(Chain[r]) PROVE Apart(Task(r, k))'
    BY <1>1, <1>3, QuietEffect DEF Task
  <2> QED
    BY <2>1, <2>2 DEF Task
<1>4. ASSUME NEW q \in Requests, Enqueue(q)
      PROVE  OneEntry' /\ OneHolder' /\ OneReply' /\ AllApart'
  <2> DEFINE a == Attempt(q)
             P == Target(q)
             n == Len(queue[P]) + 1
  <2>1. /\ a \in Tasks /\ P \in Providers /\ pos[q] \in 1..Len(Chain[q])
        /\ a = Task(q, pos[q])
    BY <1>4, CurrentAttempt DEF TypeOK, Enqueue, Attempt
  <2>2. ~InFlight(a) /\ ~Replied(a)
    BY <1>4, <2>1 DEF Started, Enqueue
  <2>3. queue \in [Providers -> Seq(Tasks)]
        /\ queue' = [queue EXCEPT ![P] = Append(@, a)]
    BY <1>4 DEF TypeOK, Enqueue
  <2>4. ASSUME NEW p \in Providers, NEW i \in 1..Len(queue'[p])
        PROVE  \/ i \in 1..Len(queue[p]) /\ queue'[p][i] = queue[p][i]
               \/ p = P /\ i = n /\ queue'[p][i] = a
    BY <2>1, <2>3, <2>4
  <2>5. \A p \in Providers : \A i \in 1..Len(queue[p]) : queue[p][i] # a
    BY <2>2 DEF InFlight, Queued
  <2>6. OneEntry'
    <3> SUFFICES ASSUME NEW p1 \in Providers, NEW p2 \in Providers,
                        NEW i \in 1..Len(queue'[p1]), NEW j \in 1..Len(queue'[p2]),
                        queue'[p1][i] = queue'[p2][j]
                 PROVE  p1 = p2 /\ i = j
      OBVIOUS
    <3> HIDE DEF a, P, n
    <3>1. CASE i \in 1..Len(queue[p1]) /\ queue'[p1][i] = queue[p1][i]
      <4>1. queue'[p2][j] # a
        BY <2>5, <3>1
      <4>2. j \in 1..Len(queue[p2]) /\ queue'[p2][j] = queue[p2][j]
        BY <2>4, <4>1
      <4>3. queue[p1][i] = queue[p2][j]
        BY <3>1, <4>2
      <4> QED
        BY <1>0, <3>1, <4>2, <4>3
    <3>2. CASE p1 = P /\ i = n /\ queue'[p1][i] = a
      <4>1. ~(j \in 1..Len(queue[p2]) /\ queue'[p2][j] = queue[p2][j])
        BY <2>5, <3>2
      <4> QED
        BY <2>4, <3>2, <4>1
    <3> QED
      BY <2>4, <3>1, <3>2
  <2>7. OneHolder' /\ OneReply'
    BY <1>1, <1>4 DEF Enqueue, Busy, workVars
  <2>8. ASSUME NEW r \in Requests, NEW k \in 1..Len(Chain[r]) PROVE Apart(Task(r, k))'
    <3>1. PICK t : t = Task(r, k)
      OBVIOUS
    <3>2. Apart(t) /\ (t = a => ~InFlight(t) /\ ~Replied(t))
      BY <1>1, <2>2, <3>1
    <3>3. Apart(t)'
      BY <1>4, <3>2, EnqueueEffect DEF InFlight
    <3> QED
      BY <3>1, <3>3 DEF Task
  <2> QED
    BY <2>6, <2>7, <2>8 DEF Task
<1>5. ASSUME NEW w \in Workers, TakeTask(w)
      PROVE  OneEntry' /\ OneHolder' /\ OneReply' /\ AllApart'
  <2> DEFINE h == Head(queue[w[1]])
  <2>1. w[1] \in Providers /\ h \in Tasks /\ Queued(h)
    BY <1>5, WorkerProvider, TakeEffect
  <2>2. queue \in [Providers -> Seq(Tasks)] /\ queue[w[1]] # <<>>
        /\ queue' = [queue EXCEPT ![w[1]] = Tail(@)]
    BY <1>5 DEF TypeOK, TakeTask
  <2>3. h = Task(h.req, h.pos) /\ h.req \in Requests /\ h.pos \in 1..Len(Chain[h.req])
    <3>1. h = queue[w[1]][1] /\ 1 \in 1..Len(queue[w[1]])
      BY <2>1, <2>2
    <3>2. h.pos <= Len(Chain[h.req])
      BY <2>1, <3>1 DEF Routed
    <3> QED
      BY <2>1, <3>2, DispatchAssumption DEF Tasks, Task, DispatchAssumption
  <2>4. (\A v \in Workers : ~HeldBy(v, h)) /\ ~Replied(h)
    BY <1>1, <2>1, <2>3 DEF InFlight
  <2>5. OneEntry'
    <3> DEFINE Old(p, i) == IF p = w[1] THEN i + 1 ELSE i
    <3>1. ASSUME NEW p \in Providers, NEW i \in 1..Len(queue'[p])
          PROVE  /\ Old(p, i) \in 1..Len(queue[p])
                 /\ queue'[p][i] = queue[p][Old(p, i)]
      <4>1. CASE p = w[1]
        BY <2>1, <2>2, <3>1, <4>1
      <4>2. CASE p # w[1]
        BY <2>1, <2>2, <3>1, <4>2
      <4> QED
        BY <4>1, <4>2
    <3>2. SUFFICES ASSUME NEW p1 \in Providers, NEW p2 \in Providers,
                          NEW i \in 1..Len(queue'[p1]), NEW j \in 1..Len(queue'[p2]),
                          queue'[p1][i] = queue'[p2][j]
                   PROVE  p1 = p2 /\ i = j
      OBVIOUS
    <3>3. PICK i0 \in 1..Len(queue[p1]) : i0 = Old(p1, i) /\ queue'[p1][i] = queue[p1][i0]
      BY <3>1
    <3>4. PICK j0 \in 1..Len(queue[p2]) : j0 = Old(p2, j) /\ queue'[p2][j] = queue[p2][j0]
      BY <3>1
    <3>5. queue[p1][i0] = queue[p2][j0]
      BY <3>2, <3>3, <3>4
    <3>6. p1 = p2 /\ i0 = j0
      BY <1>0, <3>5
    <3> QED
      BY <3>3, <3>4, <3>6
  <2>6. OneHolder'
    <3>1. ASSUME NEW v \in Workers, Busy(v)'
          PROVE  \/ v = w /\ job'[v] = h
                 \/ v # w /\ Busy(v) /\ job'[v] = job[v] /\ job[v] # h
      BY <1>5, <2>4, <3>1 DEF TypeOK, TakeTask, Busy, HeldBy
    <3> QED
      BY <1>1, <3>1
  <2>7. OneReply'
    BY <1>1, <1>5 DEF TakeTask
  <2>8. ASSUME NEW r \in Requests, NEW k \in 1..Len(Chain[r]) PROVE Apart(Task(r, k))'
    <3>1. PICK t : t = Task(r, k)
      OBVIOUS
    <3>2. Apart(t) /\ (t = h => (\A v \in Workers : ~HeldBy(v, t)) /\ ~Replied(t))
      BY <1>1, <2>4, <3>1
    <3>3. Queued(h)
      BY <2>1
    <3>4. Apart(t)'
      BY <1>5, <3>2, <3>3, TakeEffect DEF InFlight
    <3> QED
      BY <3>1, <3>4 DEF Task
  <2> QED
    BY <2>5, <2>6, <2>7, <2>8 DEF Task
<1>6. ASSUME NEW w \in Workers, SendResult(w)
      PROVE  OneEntry' /\ OneHolder' /\ OneReply' /\ AllApart'
  <2>1. PICK t \in Tasks : t = job[w] /\ HeldBy(w, t)
    BY <1>6 DEF TypeOK, SendResult, HeldBy, Busy
  <2>2. t = Task(t.req, t.pos) /\ t.req \in Requests /\ t.pos \in 1..Len(Chain[t.req])
    BY <2>1, DispatchAssumption DEF Routed, HeldBy, Tasks, Task, DispatchAssumption
  <2>3. InFlight(t) /\ ~Queued(t) /\ ~Replied(t)
    BY <1>1, <2>1, <2>2 DEF InFlight
  <2>4. OneEntry'
    BY <1>1, <1>6 DEF SendResult, chanVars
  <2>5. OneHolder'
    BY <1>1, <1>6 DEF TypeOK, SendResult, Release, Busy
  <2>6. OneReply'
    <3>1. \A m \in replies : ~(m.req = t.req /\ m.pos = t.pos)
      BY <2>3 DEF Replied
    <3> DEFINE m0 == [req |-> job[w].req, pos |-> job[w].pos, prov |-> w[1], kind |-> out[w]]
    <3>2. replies' = replies \cup {m0} /\ m0.req = t.req /\ m0.pos = t.pos
      BY <1>6, <2>1 DEF SendResult
    <3> HIDE DEF m0
    <3> QED
      BY <1>1, <3>1, <3>2
  <2>7. ASSUME NEW r \in Requests, NEW k \in 1..Len(Chain[r]) PROVE Apart(Task(r, k))'
    <3>1. PICK u \in Tasks : u = Task(r, k)
      BY TaskOf
    <3>2. Apart(u)
      BY <1>1, <3>1
    <3>3. /\ Queued(u)' = Queued(u)
          /\ \A v \in Workers : HeldBy(v, u)' <=> HeldBy(v, u) /\ v # w
          /\ Replied(u)' <=> Replied(u) \/ u = t
      BY <1>6, <2>1, SendEffect
    <3>4. ASSUME NEW v \in Workers, HeldBy(v, t) PROVE v = w
      BY <1>1, <2>1, <3>4 DEF HeldBy
    <3>5. Apart(u)'
      BY <2>3, <3>2, <3>3, <3>4 DEF InFlight
    <3> QED
      BY <3>1, <3>5 DEF Task
  <2> QED
    BY <2>4, <2>5, <2>6, <2>7 DEF Task
<1>7. ASSUME NEW w \in Workers, DropResult(w)
      PROVE  OneEntry' /\ OneHolder' /\ OneReply' /\ AllApart'
  <2>1. OneEntry' /\ OneReply'
    BY <1>1, <1>7 DEF DropResult, chanVars
  <2>2. OneHolder'
    BY <1>1, <1>7 DEF TypeOK, DropResult, Release, Busy
  <2>3. ASSUME NEW r \in Requests, NEW k \in 1..Len(Chain[r]) PROVE Apart(Task(r, k))'
    BY <1>1, <1>7, DropEffect DEF InFlight, Task
  <2> QED
    BY <2>1, <2>2, <2>3 DEF Task
<1> QED
  BY <1>3, <1>4, <1>5, <1>6, <1>7, QuietSteps

-----------------------------------------------------------------------------
(* The theorems *)

LEMMA InvariantInit == Init => IInv
<1> SUFFICES ASSUME Init PROVE IInv
  OBVIOUS
<1>1. TypeOK
  BY TypeInit
<1>2. /\ \A p \in Providers : \A i \in 1..Len(queue[p]) : FALSE
      /\ \A w \in Workers : ~Busy(w)
      /\ replies = {}
  BY DEF Init, Busy
<1>3. \A t : ~InFlight(t) /\ ~Replied(t)
  BY <1>2 DEF InFlight, Queued, HeldBy, Replied
<1>4. Routed /\ Unique
  <2>1. Routed
    BY <1>2 DEF Routed
  <2>2. \A t : ~Queued(t)
    BY <1>3 DEF InFlight
  <2> QED
    BY <1>2, <1>3, <2>1, <2>2 DEF Unique
<1>5. Started /\ InFlightIsAwaited
  BY <1>3 DEF Started, InFlightIsAwaited
<1>6. WaiterHasWork /\ ExitedOnlyWhenDrained /\ AnswerIsFromCurrentAttempt
  BY DEF Init, WaiterHasWork, ExitedOnlyWhenDrained, AnswerIsFromCurrentAttempt
<1> QED
  BY <1>1, <1>4, <1>5, <1>6 DEF IInv

LEMMA InvariantNext == IInv /\ [Next]_vars => IInv'
BY TypeNext, RoutedNext, StartedNext, UniqueNext, WaiterNext, InFlightNext, DrainedNext,
   AnswerNext DEF IInv

THEOREM Invariant == Spec => []IInv
BY InvariantInit, InvariantNext, PTL DEF Spec

\* No accepted work of an uncancelled caller is lost, for any number of
\* requests, providers, workers, retries and Shutdown calls.
THEOREM NoLostWork == Spec => []WaiterHasWork
BY Invariant, PTL DEF IInv

\* An uncancelled request has one provider at work at most, the one its caller
\* waits for, and leaves nothing running behind.
THEOREM NothingLeftRunning == Spec => []InFlightIsAwaited
BY Invariant, PTL DEF IInv

\* Workers leave drained channels only.
THEOREM WorkersDrainFirst == Spec => []ExitedOnlyWhenDrained
BY Invariant, PTL DEF IInv

\* The answer of HandleChat is never the one of an abandoned attempt.
THEOREM NoStaleAnswer == Spec => []AnswerIsFromCurrentAttempt
BY Invariant, PTL DEF IInv

LEMMA OnePlace == IInv => AttemptInOnePlace
<1> SUFFICES ASSUME IInv, NEW r \in Requests, NEW k \in 1..Len(Chain[r])
             PROVE  Cardinality(Places(Task(r, k))) <= 1
  BY DEF AttemptInOnePlace
<1> USE DEF IInv
<1>1. PICK t \in Tasks : t = Task(r, k)
  BY TaskOf
<1>2. ASSUME NEW x \in Places(t), NEW y \in Places(t) PROVE x = y
  <2> DEFINE InQueue(z) == \E p \in Providers, i \in 1..QueueCapacity :
                             /\ z = <<"queue", p, i>> /\ i \in 1..Len(queue[p])
                             /\ queue[p][i] = t
             AtWorker(z) == \E w \in Workers : z = <<"worker", w>> /\ HeldBy(w, t)
             InReply(z) == \E m \in replies :
                             z = <<"reply", m>> /\ m.req = t.req /\ m.pos = t.pos
  <2>1. ASSUME NEW z \in Places(t) PROVE InQueue(z) \/ AtWorker(z) \/ InReply(z)
    BY <2>1, CapacityPositive DEF Places, TypeOK
  <2>2. ASSUME NEW z PROVE /\ InQueue(z) => Queued(t)
                           /\ AtWorker(z) => \E w \in Workers : HeldBy(w, t)
                           /\ InReply(z) => Replied(t)
    BY DEF Queued, Replied
  <2>3. InQueue(x) /\ InQueue(y) => x = y
    BY DEF Unique
  <2>4. AtWorker(x) /\ AtWorker(y) => x = y
    BY DEF Unique, HeldBy
  <2>5. InReply(x) /\ InReply(y) => x = y
    BY DEF Unique
  <2>6. /\ Queued(t) => \A w \in Workers : ~HeldBy(w, t)
        /\ InFlight(t) => ~Replied(t)
    BY <1>1 DEF Unique
  <2> HIDE DEF InQueue, AtWorker, InReply
  <2> QED
    <3>1. InQueue(x) \/ AtWorker(x) \/ InReply(x)
      BY <2>1
    <3>2. InQueue(y) \/ AtWorker(y) \/ InReply(y)
      BY <2>1
    <3>3. Queued(t) \/ (\E w \in Workers : HeldBy(w, t)) => ~Replied(t)
      BY <2>6 DEF InFlight
    <3> QED
      BY <2>2, <2>3, <2>4, <2>5, <2>6, <3>1, <3>2, <3>3
<1>3. CASE Places(t) = {}
  BY <1>1, <1>3, FS_EmptySet
<1>4. CASE Places(t) # {}
  <2>1. PICK x : Places(t) = {x}
    BY <1>2, <1>4
  <2>2. Cardinality({x}) = 1
    BY FS_Singleton
  <2> QED
    BY <1>1, <2>1, <2>2
<1> QED
  BY <1>3, <1>4

\* An attempt is in one place at most, so its result channel never blocks.
THEOREM NoDuplicateWork == Spec => []AttemptInOnePlace
BY Invariant, OnePlace, PTL

=============================================================================
