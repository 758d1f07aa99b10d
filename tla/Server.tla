------------------------------- MODULE Server -------------------------------
(***************************************************************************)
(* The life of the process (transport/http/server, cmd/mind_http): it      *)
(* serves requests until a signal, drains the HTTP server, then shuts the  *)
(* gateway of Dispatch down and exits.  fasthttp is external: the context  *)
(* of every request it runs is the one of the server, which ends when its  *)
(* Shutdown begins and at no other time; Shutdown returns nil only when no *)
(* connection is open, and may return the error of a listener that is      *)
(* closed already or outlast shutdown_timeout.                             *)
(***************************************************************************)
EXTENDS Dispatch

VARIABLES
    phase,  \* serving, stopping, draining, gateway or exited
    code    \* the exit code of the process, once it has exited

serverVars == <<phase, code>>
allVars == <<vars, phase, code>>

main == CHOOSE c \in Closers : TRUE

\* The server calls Shutdown once, and no client cancels a context.
ASSUME ServerAssumption == Closers = {main} /\ Cancellable = Requests

Active(r) == pc[r] # "idle" /\ ~Finished(r)

ServerInit == Init /\ phase = "serving" /\ code = 0

-----------------------------------------------------------------------------
\* A connection that is open brings a request; its context may be done already.
Arrive(r) ==
    /\ phase \in {"serving", "stopping", "draining"}
    /\ HandleChat(r) \/ RejectInvalid(r)
    /\ UNCHANGED serverVars

\* The goroutines of requests and workers run for as long as the process.
Proceed(r) == phase # "exited" /\ RequestStep(r) /\ UNCHANGED serverVars
Work(w) == phase # "exited" /\ WorkerStep(w) /\ UNCHANGED serverVars

\* Start: Serve returns before any signal, and main logs and exits.
ServeFails ==
    /\ phase = "serving"
    /\ phase' = "exited" /\ code' = 1
    /\ UNCHANGED vars

\* Start: the signal context is done; shutdown closes the listener.
Signal ==
    /\ phase = "serving"
    /\ phase' = "stopping"
    /\ UNCHANGED <<vars, code>>

\* HTTPServer.Shutdown ends the context of every request, now and later.
CancelAll ==
    /\ phase = "stopping"
    /\ cancelled' = Requests
    /\ phase' = "draining"
    /\ UNCHANGED <<pc, pos, res, chanVars, workVars, replies, stopVars, code>>

\* An error of the drain does not keep shutdown from closing the gateway.
BugDrained ==
    /\ phase = "draining"
    /\ ShutdownStart(main)
    /\ phase' = "gateway"
    /\ UNCHANGED code

\* shutdownHTTPServer returns nil: no request is left and none can come.
Drained ==
    /\ phase = "draining"
    /\ \A r \in Requests : ~Active(r)
    /\ ShutdownStart(main)
    /\ phase' = "gateway"
    /\ UNCHANGED code

\* shutdownHTTPServer returns an error or times out: shutdown returns at once
\* and never calls Gateway.Shutdown.
DrainFails ==
    /\ phase \in {"stopping", "draining"}
    /\ phase' = "exited" /\ code' = 1
    /\ UNCHANGED vars

\* Gateway.Shutdown, under what is left of shutdown_timeout.
CloseGateway ==
    /\ phase = "gateway"
    /\ CloserStep(main) \/ GiveUp(main)
    /\ UNCHANGED serverVars

\* The exit code does not tell a shutdown that timed out from a complete one.
BugExit ==
    /\ phase = "gateway"
    /\ spc[main] \in {"stopped", "timedout"}
    /\ code' = 0
    /\ phase' = "exited"
    /\ UNCHANGED vars

\* shutdown returns the error of Gateway.Shutdown, or else what Serve came to.
Exit ==
    /\ phase = "gateway"
    /\ \/ spc[main] = "stopped" /\ code' \in {0, 1}
       \/ spc[main] = "timedout" /\ code' = 1
    /\ phase' = "exited"
    /\ UNCHANGED vars

MainStep == CancelAll \/ Drained \/ DrainFails \/ CloseGateway \/ Exit

ServerNext ==
    \/ \E r \in Requests : Arrive(r) \/ Proceed(r)
    \/ \E w \in Workers : Work(w)
    \/ ServeFails \/ Signal \/ MainStep
    \/ phase = "exited" /\ UNCHANGED allVars

ServerSpec == ServerInit /\ [][ServerNext]_allVars

\* Only the goroutine of main is sure to run: the timer of shutdown_timeout
\* fires even if a provider never returns.
FairServerSpec == ServerSpec /\ WF_allVars(MainStep)

-----------------------------------------------------------------------------
(* Properties *)

\* The queues close only when no request is in the gateway and none can come:
\* the order of shutdown, and its return on a failed drain (server.go:94),
\* protect the unguarded send of enqueue.
QueuesCloseLast ==
    /\ phase \in {"serving", "stopping", "draining", "gateway", "exited"}
    /\ phase \in {"serving", "stopping", "draining"} =>
          closing = {} /\ closed = {} /\ \A c \in Closers : mine[c] = {} /\ spc[c] = "idle"
    /\ phase = "gateway" => \A r \in Requests : ~Active(r)

\* An exit code of zero means that every request was answered and every task
\* a worker or a queue held was completed, the abandoned ones included.
CleanExitLosesNothing ==
    phase = "exited" /\ code = 0 =>
        /\ \A r \in Requests : pc[r] \in {"idle", "done"}
        /\ \A p \in Providers : queue[p] = <<>>
        /\ \A w \in Workers : wpc[w] = "exited"

\* A signal ends the process, even with a provider that never returns.
SignalEndsProcess == phase = "stopping" ~> phase = "exited"

=============================================================================
