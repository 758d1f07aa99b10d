------------------------------ MODULE Dispatch ------------------------------
(***************************************************************************)
(* The request path of core/: HandleChat walks the provider chain of a     *)
(* request; every attempt is a task put on the queue of one provider; the  *)
(* workers of that provider run it with retries and write the result to    *)
(* the channel of the attempt; Shutdown closes the queues and waits for    *)
(* the workers.  The plugin chain is empty and no tool is registered here. *)
(*                                                                         *)
(* An operator whose name starts with Bug is a plausible mistake in the    *)
(* operator below it.  No behaviour uses it: it is put in the place of the *)
(* right one to see that a property notices.                               *)
(***************************************************************************)
EXTENDS Integers, Sequences, FiniteSets

CONSTANTS
    Requests,            \* the calls of HandleChat (each is made once)
    Cancellable,         \* the requests whose context may be cancelled
    Providers,           \* the registered providers: one queue each
    Names,               \* every name a chain may hold, registered or not
    Chain,               \* Chain[r]: resolveProviderChain of request r
    QueueSize,           \* GatewayConfig.QueueSize
    WorkersPerProvider,  \* GatewayConfig.WorkersPerProvider
    MaxRetries,          \* GatewayConfig.MaxRetries
    DropOnQueueFull,     \* GatewayConfig.DropOnQueueFull
    Closers              \* the calls of Shutdown

\* resolveProviderChain always starts with the requested name, so a chain is
\* never empty; nothing validates the numbers of the configuration.
ASSUME DispatchAssumption ==
    /\ Cancellable \subseteq Requests
    /\ Providers \subseteq Names
    /\ Chain \in [Requests -> Seq(Names)]
    /\ \A r \in Requests : Chain[r] # <<>>
    /\ QueueSize \in Int
    /\ WorkersPerProvider \in Int
    /\ MaxRetries \in Int
    /\ DropOnQueueFull \in BOOLEAN

QueueCapacity == IF QueueSize <= 0 THEN 64 ELSE QueueSize

PoolSize == IF WorkersPerProvider <= 0 THEN 1 ELSE WorkersPerProvider

Workers == Providers \X (1..PoolSize)

VARIABLES
    pc,         \* pc[r]: where the goroutine of request r is
    pos,        \* pos[r]: fallbackIndex + 1
    res,        \* res[r]: the (response, error) pair of the last attempt
    cancelled,  \* the requests whose context is done
    queue,      \* queue[p]: the tasks buffered in the channel of p
    closing,    \* the providers whose Closing flag is set
    closed,     \* the providers whose channel is closed
    wpc,        \* wpc[w]: where worker w is
    job,        \* job[w]: the task worker w holds
    try,        \* try[w]: the loop variable of executeWithRetry
    out,        \* out[w]: the kind of the result worker w is about to send
    replies,    \* the results written to the channels of the attempts
    spc,        \* spc[c]: where the Shutdown call c is
    todo,       \* todo[c]: the queues c has not visited yet
    mine        \* mine[c]: the queues c has claimed and not closed yet

reqVars == <<pc, pos, res, cancelled>>
chanVars == <<queue, closing, closed>>
workVars == <<wpc, job, try, out>>
stopVars == <<spc, todo, mine>>
vars == <<pc, pos, res, cancelled, queue, closing, closed,
          wpc, job, try, out, replies, spc, todo, mine>>

-----------------------------------------------------------------------------
(* Data *)

\* What a call of Provider.Chat may return: a response, a retryable error, a
\* NonRetryableError, a DeadlineExceeded of the timeout of withTimeout, or the
\* Canceled of the request context.
CallKinds == {"ok", "transient", "fatal", "deadline", "canceled"}

\* "nil" is the pair (nil, nil); the last three are errors of core itself.
Kinds == CallKinds \cup {"nil", "noqueue", "closed", "full"}

Tasks == [req : Requests, pos : Nat \ {0}]
NoTask == [pos |-> 0]

Results == [req : Requests, pos : Nat \ {0}, prov : Names, kind : Kinds]
NoResult == [kind |-> "none"]

Task(r, k) == [req |-> r, pos |-> k]
Attempt(r) == Task(r, pos[r])
Target(r) == Chain[r][pos[r]]
AttemptError(r, kind) ==
    [req |-> r, pos |-> pos[r], prov |-> Target(r), kind |-> kind]

\* IsRetryable
IsRetryable(kind) == kind \notin {"deadline", "canceled", "fatal"}

\* err == nil, whatever the response is
NoError(kind) == kind \in {"ok", "nil"}

BugFallbackAfterFatal(kind) == ~NoError(kind)
BugFallbackLikeRetry(kind) == ~NoError(kind) /\ IsRetryable(kind)

\* shouldTryFallback: only a NonRetryableError ends the walk
ShouldTryFallback(kind) == ~NoError(kind) /\ kind # "fatal"

Finished(r) == pc[r] \in {"done", "panic"}

Init ==
    /\ pc = [r \in Requests |-> "idle"]
    /\ pos = [r \in Requests |-> 1]
    /\ res = [r \in Requests |-> NoResult]
    /\ cancelled = {}
    /\ queue = [p \in Providers |-> <<>>]
    /\ closing = {}
    /\ closed = {}
    /\ wpc = [w \in Workers |-> "idle"]
    /\ job = [w \in Workers |-> NoTask]
    /\ try = [w \in Workers |-> 0]
    /\ out = [w \in Workers |-> "ok"]
    /\ replies = {}
    /\ spc = [c \in Closers |-> "idle"]
    /\ todo = [c \in Closers |-> {}]
    /\ mine = [c \in Closers |-> {}]

-----------------------------------------------------------------------------
(* The goroutine of a request *)

\* HandleChat: prepareRequest accepts the request.
HandleChat(r) ==
    /\ pc[r] = "idle"
    /\ pc' = [pc EXCEPT ![r] = "attempt"]
    /\ UNCHANGED <<pos, res, cancelled, chanVars, workVars, replies, stopVars>>

\* HandleChat: prepareRequest rejects it (no messages); nothing is attempted.
RejectInvalid(r) ==
    /\ pc[r] = "idle"
    /\ pc' = [pc EXCEPT ![r] = "done"]
    /\ UNCHANGED <<pos, res, cancelled, chanVars, workVars, replies, stopVars>>

\* getQueue: the flag is read under the read lock, the channel is used later.
GetQueue(r) ==
    /\ pc[r] = "attempt"
    /\ Target(r) \in Providers \ closing
    /\ pc' = [pc EXCEPT ![r] = "enqueue"]
    /\ UNCHANGED <<pos, res, cancelled, chanVars, workVars, replies, stopVars>>

GetQueueFails(r) ==
    /\ pc[r] = "attempt"
    /\ Target(r) \notin Providers \ closing
    /\ res' = [res EXCEPT ![r] = AttemptError(r,
                  IF Target(r) \in Providers THEN "closed" ELSE "noqueue")]
    /\ pc' = [pc EXCEPT ![r] = "return"]
    /\ UNCHANGED <<pos, cancelled, chanVars, workVars, replies, stopVars>>

\* enqueue: the send case of either select.
Enqueue(r) ==
    /\ pc[r] = "enqueue"
    /\ Target(r) \notin closed
    /\ Len(queue[Target(r)]) < QueueCapacity
    /\ queue' = [queue EXCEPT ![Target(r)] = Append(@, Attempt(r))]
    /\ pc' = [pc EXCEPT ![r] = "wait"]
    /\ UNCHANGED <<pos, res, cancelled, closing, closed, workVars, replies, stopVars>>

\* enqueue: the default case of the drop mode, which ignores the context.
EnqueueFull(r) ==
    /\ pc[r] = "enqueue"
    /\ DropOnQueueFull
    /\ Target(r) \notin closed
    /\ Len(queue[Target(r)]) >= QueueCapacity
    /\ res' = [res EXCEPT ![r] = AttemptError(r, "full")]
    /\ pc' = [pc EXCEPT ![r] = "return"]
    /\ UNCHANGED <<pos, cancelled, chanVars, workVars, replies, stopVars>>

\* enqueue: the ctx.Done case of the blocking mode.
EnqueueCancelled(r) ==
    /\ pc[r] = "enqueue"
    /\ ~DropOnQueueFull
    /\ r \in cancelled
    /\ res' = [res EXCEPT ![r] = AttemptError(r, "canceled")]
    /\ pc' = [pc EXCEPT ![r] = "return"]
    /\ UNCHANGED <<pos, cancelled, chanVars, workVars, replies, stopVars>>

\* enqueue: a send on a channel that Shutdown has closed since getQueue, or
\* closed while the send was blocked, panics the goroutine of the request.
EnqueuePanics(r) ==
    /\ pc[r] = "enqueue"
    /\ Target(r) \in closed
    /\ pc' = [pc EXCEPT ![r] = "panic"]
    /\ UNCHANGED <<pos, res, cancelled, chanVars, workVars, replies, stopVars>>

\* One result channel for all the attempts of a request.
BugReceiveAnyAttempt(r) ==
    /\ pc[r] = "wait"
    /\ \E m \in replies : m.req = r /\ res' = [res EXCEPT ![r] = m]
    /\ pc' = [pc EXCEPT ![r] = "return"]
    /\ UNCHANGED <<pos, cancelled, chanVars, workVars, replies, stopVars>>

\* handleProviderAttempt: the channel of this attempt holds a result.  No
\* other attempt reads that channel, so the result may stay in replies.
ReceiveResult(r) ==
    /\ pc[r] = "wait"
    /\ \E m \in replies :
          /\ m.req = r
          /\ m.pos = pos[r]
          /\ res' = [res EXCEPT ![r] = m]
    /\ pc' = [pc EXCEPT ![r] = "return"]
    /\ UNCHANGED <<pos, cancelled, chanVars, workVars, replies, stopVars>>

\* The wait ends on a timer of its own, which leaves the context alive.
BugAwaitTimer(r) ==
    /\ pc[r] = "wait"
    /\ res' = [res EXCEPT ![r] = AttemptError(r, "deadline")]
    /\ pc' = [pc EXCEPT ![r] = "return"]
    /\ UNCHANGED <<pos, cancelled, chanVars, workVars, replies, stopVars>>

\* handleProviderAttempt: ctx.Done; the task stays where it is.
AwaitCancelled(r) ==
    /\ pc[r] = "wait"
    /\ r \in cancelled
    /\ res' = [res EXCEPT ![r] = AttemptError(r, "canceled")]
    /\ pc' = [pc EXCEPT ![r] = "return"]
    /\ UNCHANGED <<pos, cancelled, chanVars, workVars, replies, stopVars>>

\* HandleChat: the next name of the chain, if the error allows it.
Fallback(r) ==
    /\ pc[r] = "return"
    /\ ShouldTryFallback(res[r].kind)
    /\ pos[r] < Len(Chain[r])
    /\ pos' = [pos EXCEPT ![r] = @ + 1]
    /\ res' = [res EXCEPT ![r] = NoResult]
    /\ pc' = [pc EXCEPT ![r] = "attempt"]
    /\ UNCHANGED <<cancelled, chanVars, workVars, replies, stopVars>>

\* HandleChat returns a response, a fatal error or the error of the last name.
Finish(r) ==
    /\ pc[r] = "return"
    /\ ~ShouldTryFallback(res[r].kind) \/ pos[r] = Len(Chain[r])
    /\ pc' = [pc EXCEPT ![r] = "done"]
    /\ UNCHANGED <<pos, res, cancelled, chanVars, workVars, replies, stopVars>>

\* The caller cancels the context of a call in progress.
Cancel(r) ==
    /\ r \in Cancellable \ cancelled
    /\ pc[r] # "idle" /\ ~Finished(r)
    /\ cancelled' = cancelled \cup {r}
    /\ UNCHANGED <<pc, pos, res, chanVars, workVars, replies, stopVars>>

-----------------------------------------------------------------------------
(* The workers *)

\* The task is read at one moment and removed at another.
BugTakeWithoutRemoving(w) ==
    /\ wpc[w] = "idle"
    /\ queue[w[1]] # <<>>
    /\ job' = [job EXCEPT ![w] = Head(queue[w[1]])]
    /\ wpc' = [wpc EXCEPT ![w] = "calling"]
    /\ UNCHANGED <<reqVars, chanVars, try, out, replies, stopVars>>

\* requestWorker: range receives the oldest task.  With MaxRetries below zero
\* the loop of executeWithRetry has no iteration and (nil, nil) is returned.
TakeTask(w) ==
    LET p == w[1] IN
    /\ wpc[w] = "idle"
    /\ queue[p] # <<>>
    /\ job' = [job EXCEPT ![w] = Head(queue[p])]
    /\ queue' = [queue EXCEPT ![p] = Tail(@)]
    /\ wpc' = [wpc EXCEPT ![w] = IF MaxRetries < 0 THEN "sending" ELSE "calling"]
    /\ out' = [out EXCEPT ![w] = IF MaxRetries < 0 THEN "nil" ELSE @]
    /\ try' = [try EXCEPT ![w] = 0]
    /\ UNCHANGED <<reqVars, closing, closed, replies, stopVars>>

\* The worker stops at the Closing flag, without draining the channel.
BugExitUndrained(w) ==
    /\ wpc[w] = "idle"
    /\ w[1] \in closed
    /\ wpc' = [wpc EXCEPT ![w] = "exited"]
    /\ UNCHANGED <<reqVars, chanVars, job, try, out, replies, stopVars>>

\* requestWorker: range ends once the channel is closed and drained.
WorkerExit(w) ==
    /\ wpc[w] = "idle"
    /\ w[1] \in closed
    /\ queue[w[1]] = <<>>
    /\ wpc' = [wpc EXCEPT ![w] = "exited"]
    /\ UNCHANGED <<reqVars, chanVars, job, try, out, replies, stopVars>>

\* The limit is compared one too late.
BugRetryOnceMore(w, kind) ==
    /\ wpc[w] = "calling"
    /\ kind = "canceled" => job[w].req \in cancelled
    /\ IF ~NoError(kind) /\ IsRetryable(kind) /\ try[w] <= MaxRetries
       THEN /\ wpc' = [wpc EXCEPT ![w] = "backoff"]
            /\ UNCHANGED out
       ELSE /\ wpc' = [wpc EXCEPT ![w] = "sending"]
            /\ out' = [out EXCEPT ![w] = kind]
    /\ UNCHANGED <<reqVars, chanVars, job, try, replies, stopVars>>

\* executeWithRetry: Provider.Chat returns; a retryable error below the limit
\* leads to a backoff, everything else is the result.
ProviderReturns(w, kind) ==
    /\ wpc[w] = "calling"
    /\ kind = "canceled" => job[w].req \in cancelled
    /\ IF ~NoError(kind) /\ IsRetryable(kind) /\ try[w] < MaxRetries
       THEN /\ wpc' = [wpc EXCEPT ![w] = "backoff"]
            /\ UNCHANGED out
       ELSE /\ wpc' = [wpc EXCEPT ![w] = "sending"]
            /\ out' = [out EXCEPT ![w] = kind]
    /\ UNCHANGED <<reqVars, chanVars, job, try, replies, stopVars>>

\* sleepBackoff: the timer fires and the loop goes round.
BackoffElapsed(w) ==
    /\ wpc[w] = "backoff"
    /\ try' = [try EXCEPT ![w] = @ + 1]
    /\ wpc' = [wpc EXCEPT ![w] = "calling"]
    /\ UNCHANGED <<reqVars, chanVars, job, out, replies, stopVars>>

\* sleepBackoff: the context of the task is done.
BackoffCancelled(w) ==
    /\ wpc[w] = "backoff"
    /\ job[w].req \in cancelled
    /\ out' = [out EXCEPT ![w] = "canceled"]
    /\ wpc' = [wpc EXCEPT ![w] = "sending"]
    /\ UNCHANGED <<reqVars, chanVars, job, try, replies, stopVars>>

\* The worker goes back to the range loop; its locals go out of scope.
Release(w) ==
    /\ wpc' = [wpc EXCEPT ![w] = "idle"]
    /\ job' = [job EXCEPT ![w] = NoTask]
    /\ try' = [try EXCEPT ![w] = 0]
    /\ out' = [out EXCEPT ![w] = "ok"]

\* sendResult: the channel of the attempt has room for its only result.
SendResult(w) ==
    /\ wpc[w] = "sending"
    /\ replies' = replies \cup
          {[req |-> job[w].req, pos |-> job[w].pos, prov |-> w[1], kind |-> out[w]]}
    /\ Release(w)
    /\ UNCHANGED <<reqVars, chanVars, stopVars>>

\* A select with a default case on a channel without room.
BugDropAlways(w) ==
    /\ wpc[w] = "sending"
    /\ Release(w)
    /\ UNCHANGED <<reqVars, chanVars, replies, stopVars>>

\* sendResult: the ctx.Done case, chosen at random when both are ready.
DropResult(w) ==
    /\ wpc[w] = "sending"
    /\ job[w].req \in cancelled
    /\ Release(w)
    /\ UNCHANGED <<reqVars, chanVars, replies, stopVars>>

-----------------------------------------------------------------------------
(* Shutdown *)

ShutdownStart(c) ==
    /\ spc[c] = "idle"
    /\ spc' = [spc EXCEPT ![c] = "sweep"]
    /\ todo' = [todo EXCEPT ![c] = Providers]
    /\ UNCHANGED <<reqVars, chanVars, workVars, replies, mine>>

\* Closing.Store(true) in the place of the CompareAndSwap.
BugClaimAlways(c, p) ==
    /\ spc[c] = "sweep"
    /\ mine[c] = {}
    /\ p \in todo[c]
    /\ todo' = [todo EXCEPT ![c] = @ \ {p}]
    /\ closing' = closing \cup {p}
    /\ mine' = [mine EXCEPT ![c] = {p}]
    /\ UNCHANGED <<reqVars, queue, closed, workVars, replies, spc>>

\* Closing.CompareAndSwap(false, true) of the next queue, in map order.
ClaimQueue(c, p) ==
    /\ spc[c] = "sweep"
    /\ mine[c] = {}
    /\ p \in todo[c]
    /\ todo' = [todo EXCEPT ![c] = @ \ {p}]
    /\ closing' = closing \cup {p}
    /\ mine' = [mine EXCEPT ![c] = {p} \ closing]
    /\ UNCHANGED <<reqVars, queue, closed, workVars, replies, spc>>

\* The flag is set and the channel is never closed.
BugCloseFlagOnly(c) ==
    /\ spc[c] = "sweep"
    /\ mine[c] # {}
    /\ mine' = [mine EXCEPT ![c] = {}]
    /\ UNCHANGED <<reqVars, chanVars, workVars, replies, spc, todo>>

\* close(queue.Queue) of the queue just claimed; a second close panics.
CloseQueue(c) ==
    /\ spc[c] = "sweep"
    /\ mine[c] # {}
    /\ spc' = [spc EXCEPT ![c] = IF mine[c] \subseteq closed THEN "panic" ELSE @]
    /\ closed' = closed \cup mine[c]
    /\ mine' = [mine EXCEPT ![c] = {}]
    /\ UNCHANGED <<reqVars, queue, closing, workVars, replies, todo>>

Swept(c) == spc[c] = "sweep" /\ todo[c] = {} /\ mine[c] = {}

\* Every queue.WG.Wait() has returned.
WorkersDone(c) ==
    /\ Swept(c)
    /\ \A w \in Workers : wpc[w] = "exited"
    /\ spc' = [spc EXCEPT ![c] = "stopped"]
    /\ UNCHANGED <<reqVars, chanVars, workVars, replies, todo, mine>>

\* Shutdown waits for the workers alone.
BugWaitWithoutContext(c) ==
    /\ Swept(c)
    /\ \A w \in Workers : wpc[w] = "exited"
    /\ spc' = [spc EXCEPT ![c] = "timedout"]
    /\ UNCHANGED <<reqVars, chanVars, workVars, replies, todo, mine>>

\* The context of Shutdown is done first.
GiveUp(c) ==
    /\ Swept(c)
    /\ spc' = [spc EXCEPT ![c] = "timedout"]
    /\ UNCHANGED <<reqVars, chanVars, workVars, replies, todo, mine>>

-----------------------------------------------------------------------------
RequestStep(r) ==
    \/ GetQueue(r) \/ GetQueueFails(r)
    \/ Enqueue(r) \/ EnqueueFull(r) \/ EnqueueCancelled(r) \/ EnqueuePanics(r)
    \/ ReceiveResult(r) \/ AwaitCancelled(r)
    \/ Fallback(r) \/ Finish(r)

WorkerStep(w) ==
    \/ TakeTask(w) \/ WorkerExit(w)
    \/ \E kind \in CallKinds : ProviderReturns(w, kind)
    \/ BackoffElapsed(w) \/ BackoffCancelled(w)
    \/ SendResult(w) \/ DropResult(w)

CloserStep(c) ==
    \/ \E p \in Providers : ClaimQueue(c, p)
    \/ CloseQueue(c)
    \/ WorkersDone(c)

AtRest ==
    /\ \A r \in Requests : Finished(r)
    /\ \A w \in Workers : wpc[w] \in {"idle", "exited"} /\ queue[w[1]] = <<>>
    /\ \A c \in Closers : spc[c] \in {"stopped", "timedout", "panic"}

\* Nothing is left to do: the only state in which the system may stop.
Terminating == AtRest /\ UNCHANGED vars

Next ==
    \/ \E r \in Requests : HandleChat(r) \/ RejectInvalid(r) \/ Cancel(r) \/ RequestStep(r)
    \/ \E w \in Workers : WorkerStep(w)
    \/ \E c \in Closers : ShutdownStart(c) \/ GiveUp(c) \/ CloserStep(c)
    \/ Terminating

Spec == Init /\ [][Next]_vars

\* A goroutine that can run does run; a provider call ends because withTimeout
\* bounds it.  Nobody has to call, to cancel or to give up waiting.
Fairness ==
    /\ \A r \in Requests : WF_vars(RequestStep(r))
    /\ \A w \in Workers : WF_vars(WorkerStep(w))
    /\ \A c \in Closers : WF_vars(CloserStep(c))

FairSpec == Spec /\ Fairness

-----------------------------------------------------------------------------
(* Properties *)

Busy(w) == wpc[w] \in {"calling", "backoff", "sending"}

\* The values the variables may take; try never passes the retry limit and a
\* queue never passes its capacity.
TypeOK ==
    /\ pc \in [Requests -> {"idle", "attempt", "enqueue", "wait", "return", "done", "panic"}]
    /\ pos \in [Requests -> Nat \ {0}]
    /\ \A r \in Requests : pos[r] <= Len(Chain[r])
    /\ res \in [Requests -> Results \cup {NoResult}]
    /\ cancelled \subseteq Cancellable
    /\ queue \in [Providers -> Seq(Tasks)]
    /\ \A p \in Providers : Len(queue[p]) <= QueueCapacity
    /\ \A r \in Requests : pc[r] = "enqueue" => Target(r) \in Providers
    /\ closing \subseteq Providers
    /\ closed \subseteq closing
    /\ wpc \in [Workers -> {"idle", "calling", "backoff", "sending", "exited"}]
    /\ job \in [Workers -> Tasks \cup {NoTask}]
    /\ \A w \in Workers : Busy(w) => job[w] \in Tasks
    /\ try \in [Workers -> Nat]
    /\ \A w \in Workers : wpc[w] = "calling" => try[w] <= MaxRetries
    /\ \A w \in Workers : wpc[w] = "backoff" => try[w] < MaxRetries
    /\ out \in [Workers -> CallKinds \cup {"nil"}]
    /\ replies \subseteq Results
    /\ spc \in [Closers -> {"idle", "sweep", "stopped", "timedout", "panic"}]
    /\ todo \in [Closers -> SUBSET Providers]
    /\ mine \in [Closers -> SUBSET closing]

Queued(t) == \E p \in Providers : \E i \in 1..Len(queue[p]) : queue[p][i] = t
HeldBy(w, t) == Busy(w) /\ job[w] = t
InFlight(t) == Queued(t) \/ \E w \in Workers : HeldBy(w, t)
Replied(t) == \E m \in replies : m.req = t.req /\ m.pos = t.pos

\* No accepted work is lost: the attempt an uncancelled caller waits for is in
\* a queue, with a worker or answered, whatever retries, full queues and
\* Shutdown do (handleProviderAttempt, requestWorker, sendResult, Shutdown).
WaiterHasWork ==
    \A r \in Requests \ cancelled :
        pc[r] = "wait" =>
            InFlight(Attempt(r)) \/ Replied(Attempt(r))

\* What is in flight for an uncancelled request is its current attempt, and
\* the caller waits for it: HandleChat never has two providers at work for one
\* request, and leaves nothing running behind when it returns.
InFlightIsAwaited ==
    \A r \in Requests \ cancelled : \A k \in 1..Len(Chain[r]) :
        InFlight(Task(r, k)) => pc[r] = "wait" /\ k = pos[r]

\* An attempt is never duplicated: it is queued at one index of one queue, or
\* held by one worker, or answered once.  This is why a result channel of
\* capacity one never blocks a worker (gateway.go:229, sendResult).
Places(t) ==
    {<<"queue", x[1], x[2]>> : x \in {y \in Providers \X (1..QueueCapacity) :
        y[2] <= Len(queue[y[1]]) /\ queue[y[1]][y[2]] = t}}
    \cup {<<"worker", w>> : w \in {v \in Workers : HeldBy(v, t)}}
    \cup {<<"reply", m>> : m \in {n \in replies : n.req = t.req /\ n.pos = t.pos}}

AttemptInOnePlace ==
    \A r \in Requests : \A k \in 1..Len(Chain[r]) :
        Cardinality(Places(Task(r, k))) <= 1

\* The answer HandleChat returns comes from the attempt it made last and from
\* the provider of that attempt, although abandoned attempts of a cancelled
\* request still complete and write their results.
AnswerIsFromCurrentAttempt ==
    \A r \in Requests :
        res[r] # NoResult =>
            res[r].req = r /\ res[r].pos = pos[r] /\ res[r].prov = Target(r)

\* A response or a NonRetryableError of an uncancelled request settles it: no
\* other provider is tried afterwards and the caller gets that very result
\* (shouldTryFallback, IsRetryable).
DecisiveReplySettles ==
    \A r \in Requests \ cancelled : \A m \in replies :
        /\ m.req = r
        /\ m.kind \in {"ok", "fatal"}
        => /\ m.pos = pos[r]
           /\ pc[r] = "wait" \/ res[r] = m

\* An error other than a NonRetryableError is returned only after every
\* name of the chain was attempted (HandleChat).
ErrorOnlyAfterWholeChain ==
    \A r \in Requests :
        /\ pc[r] = "done"
        /\ res[r] # NoResult
        /\ res[r].kind \notin {"ok", "nil", "fatal"}
        => pos[r] = Len(Chain[r])

\* A worker leaves only a queue that is closed and empty and stays so: when
\* Shutdown reports success, no accepted task was abandoned.
ExitedOnlyWhenDrained ==
    \A w \in Workers : wpc[w] = "exited" => w[1] \in closed /\ queue[w[1]] = <<>>

StoppedMeansDrained ==
    \A c \in Closers : spc[c] = "stopped" =>
        /\ \A p \in Providers : queue[p] = <<>>
        /\ \A w \in Workers : wpc[w] = "exited"
        /\ \A r \in Requests \ cancelled : pc[r] = "wait" => Replied(Attempt(r))

\* Concurrent Shutdown calls close each queue once (the CompareAndSwap).
NoDoubleClose == \A c \in Closers : spc[c] # "panic"

\* Shutdown is described as graceful (lifecycle.go:8), so no request ends in
\* a panic.
NoRequestPanics == \A r \in Requests : pc[r] # "panic"

\* Every task and every result is with the provider its attempt named.
Routed ==
    /\ \A p \in Providers : \A i \in 1..Len(queue[p]) :
          LET t == queue[p][i] IN t.pos <= Len(Chain[t.req]) /\ Chain[t.req][t.pos] = p
    /\ \A w \in Workers : Busy(w) =>
          job[w].pos <= Len(Chain[job[w].req]) /\ Chain[job[w].req][job[w].pos] = w[1]
    /\ \A m \in replies : m.pos <= Len(Chain[m.req]) /\ Chain[m.req][m.pos] = m.prov

\* A task exists only once its attempt was enqueued, so a request that is
\* about to enqueue finds no trace of that attempt.
Started ==
    \A r \in Requests : \A k \in 1..Len(Chain[r]) :
        InFlight(Task(r, k)) \/ Replied(Task(r, k)) =>
            \/ k < pos[r]
            \/ k = pos[r] /\ pc[r] \in {"wait", "return", "done"}

\* AttemptInOnePlace, place by place.
Unique ==
    /\ \A p, q \in Providers : \A i \in 1..Len(queue[p]), j \in 1..Len(queue[q]) :
          queue[p][i] = queue[q][j] => p = q /\ i = j
    /\ \A v, w \in Workers : Busy(v) /\ Busy(w) /\ job[v] = job[w] => v = w
    /\ \A m, n \in replies : m.req = n.req /\ m.pos = n.pos => m = n
    /\ \A r \in Requests : \A k \in 1..Len(Chain[r]) :
          /\ Queued(Task(r, k)) => \A w \in Workers : ~HeldBy(w, Task(r, k))
          /\ InFlight(Task(r, k)) => ~Replied(Task(r, k))

\* The inductive invariant: the safety properties above need each other and
\* the three facts just stated.
IInv ==
    /\ TypeOK /\ Routed /\ Started /\ Unique
    /\ WaiterHasWork /\ InFlightIsAwaited
    /\ ExitedOnlyWhenDrained /\ AnswerIsFromCurrentAttempt

\* How the detailed state shows the one of ChatService: the queues, workers,
\* retries and Shutdown are invisible there.
PhaseOf(r) ==
    CASE pc[r] = "idle" -> "new"
      [] pc[r] \in {"attempt", "enqueue", "wait"} -> "asking"
      [] pc[r] = "return" -> "judged"
      [] pc[r] = "done" -> "answered"
      [] pc[r] = "panic" -> "aborted"

Service == INSTANCE ChatService WITH
    phase <- [r \in Requests |-> PhaseOf(r)],
    at <- pos, verdict <- res, said <- replies

\* HandleChat with its queues, workers and retries implements ChatService: one
\* provider at a time, in chain order, and the verdict of the last one.
ImplementsChatService == Service!Spec

\* Every call of HandleChat ends, whatever the queues, retries and Shutdown do.
EveryRequestReturns == \A r \in Requests : pc[r] = "attempt" ~> Finished(r)

\* Once a Shutdown has begun all the workers finish their tasks and exit, even
\* if the caller of Shutdown no longer waits for them.
WorkersEventuallyExit ==
    \A c \in Closers : spc[c] = "sweep" ~> \A w \in Workers : wpc[w] = "exited"

=============================================================================
