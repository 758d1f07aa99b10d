---------------------------- MODULE ServerProofs ----------------------------
(* In the order of shutdown no request ever meets a closed queue, and a      *)
(* process that exits with zero has lost nothing, for every number of        *)
(* requests, providers, workers and retries.                                 *)
EXTENDS Server, DispatchEndProofs

Unpanicked == {"idle", "attempt", "enqueue", "wait", "return", "done"}

\* QueuesCloseLast and the absence of panics need each other: a panic needs a
\* closed queue, and the drain is over only if no goroutine is in between.
SafeStop == QueuesCloseLast /\ pc \in [Requests -> Unpanicked]

LEMMA InitSafe == ServerInit => SafeStop
  BY DEF ServerInit, Init, SafeStop, QueuesCloseLast, Unpanicked

\* What a step of the goroutine of a request may do to the state of Shutdown
\* and to the other requests.
LEMMA RequestSafe ==
    ASSUME SafeStop, phase # "exited", NEW r \in Requests, RequestStep(r), UNCHANGED serverVars
    PROVE  SafeStop'
<1> USE DEF SafeStop, QueuesCloseLast, serverVars, stopVars, chanVars, Active, Finished, Unpanicked
<1>1. Active(r) /\ phase \in {"serving", "stopping", "draining"} /\ closed = {}
  BY DEF RequestStep, GetQueue, GetQueueFails, Enqueue, EnqueueFull, EnqueueCancelled,
         EnqueuePanics, ReceiveResult, AwaitCancelled, Fallback, Finish
<1>2. pc' \in [Requests -> Unpanicked]
  BY <1>1 DEF RequestStep, GetQueue, GetQueueFails, Enqueue, EnqueueFull, EnqueueCancelled,
              EnqueuePanics, ReceiveResult, AwaitCancelled, Fallback, Finish
<1>3. UNCHANGED <<closing, closed, spc, mine>>
  BY DEF RequestStep, GetQueue, GetQueueFails, Enqueue, EnqueueFull, EnqueueCancelled,
         EnqueuePanics, ReceiveResult, AwaitCancelled, Fallback, Finish
<1> QED BY <1>1, <1>2, <1>3

LEMMA ArriveSafe ==
    ASSUME SafeStop, NEW r \in Requests, Arrive(r)
    PROVE  SafeStop'
  BY DEF SafeStop, QueuesCloseLast, Arrive, HandleChat, RejectInvalid, serverVars, stopVars,
         chanVars, Unpanicked

LEMMA WorkerSafe ==
    ASSUME SafeStop, NEW w \in Workers, WorkerStep(w), UNCHANGED serverVars
    PROVE  SafeStop'
<1>1. UNCHANGED <<pc, closing, closed, spc, mine>>
  BY DEF WorkerStep, TakeTask, WorkerExit, ProviderReturns, BackoffElapsed, BackoffCancelled,
         SendResult, DropResult, Release, reqVars, chanVars, stopVars
<1> QED BY <1>1 DEF SafeStop, QueuesCloseLast, serverVars, Active, Finished

\* Gateway.Shutdown runs only after the drain and touches no request.
LEMMA CloseGatewaySafe ==
    ASSUME SafeStop, CloseGateway
    PROVE  SafeStop'
<1>1. phase = "gateway" /\ phase' = "gateway" /\ UNCHANGED pc
  BY DEF CloseGateway, serverVars, CloserStep, ClaimQueue, CloseQueue, WorkersDone, GiveUp, reqVars
<1> QED BY <1>1 DEF SafeStop, QueuesCloseLast, Active, Finished

LEMMA MainSafe ==
    ASSUME SafeStop, ServeFails \/ Signal \/ MainStep
    PROVE  SafeStop'
<1> USE DEF SafeStop, QueuesCloseLast, Active, Finished
<1>1. CASE ServeFails \/ DrainFails \/ Exit
  BY <1>1 DEF ServeFails, DrainFails, Exit, vars
<1>2. CASE Signal
  BY <1>2 DEF Signal, vars
<1>3. CASE CancelAll
  BY <1>3 DEF CancelAll, chanVars, stopVars
<1>4. CASE Drained
  BY <1>4 DEF Drained, ShutdownStart, reqVars
<1>5. CASE CloseGateway
  BY <1>5, CloseGatewaySafe
<1> QED BY <1>1, <1>2, <1>3, <1>4, <1>5 DEF MainStep

\* The queues are closed only when no request is in the gateway, and none
\* comes afterwards (Start, shutdown, Gateway.Shutdown).
THEOREM ShutdownOrder == ServerSpec => []SafeStop
<1>1. SafeStop /\ [ServerNext]_allVars => SafeStop'
  <2> SUFFICES ASSUME SafeStop, [ServerNext]_allVars PROVE SafeStop'
    OBVIOUS
  <2>1. CASE UNCHANGED allVars
    BY <2>1 DEF allVars, vars, SafeStop, QueuesCloseLast, Active, Finished
  <2>2. CASE \E r \in Requests : Arrive(r) \/ Proceed(r)
    BY <2>2, ArriveSafe, RequestSafe DEF Proceed
  <2>3. CASE \E w \in Workers : Work(w)
    BY <2>3, WorkerSafe DEF Work
  <2>4. CASE ServeFails \/ Signal \/ MainStep
    BY <2>4, MainSafe
  <2> QED BY <2>1, <2>2, <2>3, <2>4 DEF ServerNext
<1> QED BY <1>1, InitSafe, PTL DEF ServerSpec

\* The drain of the server keeps every request from the closed channels on
\* which enqueue would panic (gateway.go:521-536, server.go:94).
THEOREM ServerNeverPanics == ServerSpec => []NoRequestPanics
<1>1. SafeStop => NoRequestPanics
  BY DEF SafeStop, NoRequestPanics, Unpanicked
<1> QED BY <1>1, ShutdownOrder, PTL

\* The order of shutdown by itself: no queue closes under a request.
THEOREM QueuesClosedLast == ServerSpec => []QueuesCloseLast
<1>1. SafeStop => QueuesCloseLast
  BY DEF SafeStop
<1> QED BY <1>1, ShutdownOrder, PTL

-----------------------------------------------------------------------------
(* The gateway inside of the server *)

\* The end of all request contexts at once, which is no step of Dispatch.
CancelStep == cancelled' = Requests /\ UNCHANGED <<pc, pos, res, chanVars, workVars, replies, stopVars>>

LEMMA StepsOfServer == [ServerNext]_allVars => [Next]_vars \/ CancelStep
<1> SUFFICES ASSUME [ServerNext]_allVars PROVE [Next]_vars \/ CancelStep
  OBVIOUS
<1>1. main \in Closers
  BY ServerAssumption DEF ServerAssumption
<1>2. CASE \E r \in Requests : Arrive(r) \/ Proceed(r)
  BY <1>2 DEF Arrive, Proceed, Next
<1>3. CASE \E w \in Workers : Work(w)
  BY <1>3 DEF Work, Next
<1>4. CASE ServeFails \/ Signal \/ DrainFails \/ Exit \/ UNCHANGED allVars
  BY <1>4 DEF ServeFails, Signal, DrainFails, Exit, allVars, vars
<1>5. CASE CancelAll
  BY <1>5 DEF CancelAll, CancelStep
<1>6. CASE Drained \/ CloseGateway
  BY <1>1, <1>6 DEF Drained, CloseGateway, Next
<1> QED
  BY <1>2, <1>3, <1>4, <1>5, <1>6 DEF ServerNext, MainStep

\* The end of the contexts takes nothing from the invariants of the gateway:
\* what they promise they promise to the requests that are not cancelled.
LEMMA CancelKeeps == IInv /\ WorkersLeft /\ CancelStep => IInv' /\ WorkersLeft'
<1> SUFFICES ASSUME IInv, WorkersLeft, CancelStep PROVE IInv' /\ WorkersLeft'
  OBVIOUS
<1> USE DEF CancelStep, chanVars, workVars, stopVars
<1>1. TypeOK'
  BY ServerAssumption DEF IInv, TypeOK, ServerAssumption, Busy, Target
<1>2. /\ \A t : Queued(t)' = Queued(t) /\ InFlight(t)' = InFlight(t) /\ Replied(t)' = Replied(t)
      /\ \A w \in Workers : \A t : HeldBy(w, t)' = HeldBy(w, t)
  BY DEF Queued, InFlight, HeldBy, Busy, Replied
<1>3. Routed' /\ ExitedOnlyWhenDrained' /\ AnswerIsFromCurrentAttempt' /\ WorkersLeft'
  BY DEF IInv, Routed, Busy, ExitedOnlyWhenDrained, AnswerIsFromCurrentAttempt, Target, WorkersLeft
<1>4. Started' /\ Unique'
  BY <1>2 DEF IInv, Started, Unique, Busy
<1>5. WaiterHasWork' /\ InFlightIsAwaited'
  BY DEF WaiterHasWork, InFlightIsAwaited
<1> QED
  BY <1>1, <1>3, <1>4, <1>5 DEF IInv

LEMMA GatewayNext == IInv /\ WorkersLeft /\ [ServerNext]_allVars => IInv' /\ WorkersLeft'
BY StepsOfServer, CancelKeeps, InvariantNext, LeftNext DEF IInv

LEMMA GatewayInit == ServerInit => IInv /\ WorkersLeft
BY InvariantInit DEF ServerInit, Init, WorkersLeft

\* What holds of the gateway by itself holds of the gateway in the server,
\* whose shutdown ends every request context at once (Start, shutdown).
THEOREM GatewayInServer == ServerSpec => [](IInv /\ StoppedMeansDrained)
BY GatewayInit, GatewayNext, LeftMeansDrained, PTL DEF ServerSpec

\* The exit code of zero is the one of a Gateway.Shutdown that returned nil.
CleanExit ==
    phase = "exited" /\ code = 0 =>
        spc[main] = "stopped" /\ \A r \in Requests : ~Active(r)

LEMMA CleanNext == SafeStop /\ CleanExit /\ [ServerNext]_allVars => CleanExit'
<1> SUFFICES ASSUME SafeStop, CleanExit, [ServerNext]_allVars, phase' = "exited", code' = 0
             PROVE  spc'[main] = "stopped" /\ \A r \in Requests : ~Active(r)'
  BY DEF CleanExit
<1> USE DEF Active, Finished
<1>1. CASE phase = "exited"
  <2>1. UNCHANGED allVars
    BY <1>1 DEF ServerNext, Arrive, Proceed, Work, ServeFails, Signal, MainStep, CancelAll,
       Drained, DrainFails, CloseGateway, Exit
  <2> QED
    BY <1>1, <2>1 DEF CleanExit, allVars, vars
<1>2. CASE phase # "exited"
  <2>1. Exit
    BY <1>2 DEF ServerNext, Arrive, Proceed, Work, ServeFails, Signal, MainStep, CancelAll,
       Drained, DrainFails, CloseGateway, serverVars, allVars
  <2> QED
    BY <2>1 DEF Exit, SafeStop, QueuesCloseLast, vars
<1> QED
  BY <1>1, <1>2

\* A process that exits with zero leaves no request, task or worker behind
\* (shutdown, Gateway.Shutdown), whatever it had accepted before the signal.
THEOREM CleanExitIsClean == ServerSpec => []CleanExitLosesNothing
<1>1. ServerInit => CleanExit
  BY DEF ServerInit, CleanExit
<1>2. SafeStop /\ CleanExit /\ StoppedMeansDrained => CleanExitLosesNothing
  <2> SUFFICES ASSUME SafeStop, CleanExit, StoppedMeansDrained, phase = "exited", code = 0
               PROVE  /\ \A r \in Requests : pc[r] \in {"idle", "done"}
                      /\ \A p \in Providers : queue[p] = <<>>
                      /\ \A w \in Workers : wpc[w] = "exited"
    BY DEF CleanExitLosesNothing
  <2>1. main \in Closers /\ spc[main] = "stopped"
    BY ServerAssumption DEF CleanExit, ServerAssumption
  <2>2. \A r \in Requests : pc[r] \in {"idle", "done"}
    BY DEF CleanExit, SafeStop, Active, Finished, Unpanicked
  <2> QED
    BY <2>1, <2>2 DEF StoppedMeansDrained
<1> QED
  BY <1>1, <1>2, CleanNext, ShutdownOrder, GatewayInServer, PTL DEF ServerSpec

=============================================================================
