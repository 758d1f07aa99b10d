------------------------------- MODULE Stream -------------------------------
(***************************************************************************)
(* One streamed request, from HandleChatStream to the bytes the client     *)
(* reads.  It bypasses the queues of Dispatch.  Four goroutines pass the   *)
(* events on: the provider writes them to one channel and its error to     *)
(* another; a forwarder watches the errors and cancels the context of the  *)
(* attempt when they end; a wrapper copies the events to the output and    *)
(* runs the post hooks at the end; the writer of the HTTP handler turns    *)
(* the output into server-sent events.  The provider here is the mock; the *)
(* goroutines of the other kind, openai, are in OpenAIStream.              *)
(*                                                                         *)
(* The operators whose name starts with Bug are plausible mistakes in the  *)
(* operator below them, as in Dispatch.                                    *)
(***************************************************************************)
EXTENDS Naturals, Sequences

CONSTANTS
    Attempts,     \* the length of the provider chain
    Chunks,       \* the content events of the answer
    Kinds,        \* the kinds of the providers that are configured
    EventsCap,    \* capacity of the channel of events of a provider: 8 for openai
    OutputCap     \* capacity of the output channel: 8 in the code

ASSUME StreamAssumption ==
    /\ Attempts \in Nat \ {0}
    /\ Chunks \in Nat
    /\ Kinds \subseteq {"mock", "openai"}
    /\ EventsCap \in Nat \ {0}
    /\ OutputCap \in Nat \ {0}

VARIABLES
    rpc,      \* the goroutine of HandleChatStream
    pos,      \* fallbackIndex + 1
    cause,    \* the error of the last attempt
    told,     \* the error HandleChatStream returns
    short,    \* a plugin answered in the place of a provider
    src,      \* the goroutine of the provider
    kind,     \* the kind of the provider that gives the stream
    next,     \* the event it sends next
    fwd,      \* the goroutine of handleProviderStreamAttempt
    ctxDone,  \* the context of the attempt is done
    expired,  \* its timeout or its parent ended it, not cancel() (history)
    wrp,      \* the goroutine of the wrapper or of the short circuit
    heard,    \* heard.deltas, heard.err, heard.done: finalResp, finalErr, sawDoneEvent
    held,     \* the event the wrapper is about to copy
    open,     \* the channels the wrapper still selects on
    hooked,   \* what the post hooks were given, run by run
    sse,      \* the stream writer of the HTTP handler
    wire,     \* what the client was sent
    buf,      \* buf[c]: the contents of channel c
    closed    \* the closed channels

callVars == <<rpc, pos, cause, told, short>>
provVars == <<src, kind, next>>
fwdVars == <<fwd, ctxDone, expired>>
wrapVars == <<wrp, heard, held, open, hooked>>
chanVars == <<buf, closed>>
vars == <<rpc, pos, cause, told, short, src, kind, next, fwd, ctxDone, expired,
          wrp, heard, held, open, hooked, sse, wire, buf, closed>>

\* A content event is its number; Done is the done event.
Done == 0
\* The last two lie between the goroutines of an openai provider.
Channels == {"events", "errs", "wrapped", "output", "chunks", "faults"}

\* What a mock sends when nothing fails, for which its channel has room.
Total == Chunks + 1
Event(n) == IF n <= Chunks THEN n ELSE Done

Ready(c) == buf[c] # <<>>
Ended(c) == c \in closed /\ buf[c] = <<>>
Put(c, v) == buf' = [buf EXCEPT ![c] = Append(@, v)]
Take(c) == buf' = [buf EXCEPT ![c] = Tail(@)]

Init ==
    /\ rpc = "attempt"
    /\ pos = 1
    /\ cause = "none"
    /\ told = "none"
    /\ short = FALSE
    /\ src = "off"
    /\ kind = "none"
    /\ next = 1
    /\ fwd = "off"
    /\ ctxDone = FALSE
    /\ expired = FALSE
    /\ wrp = "off"
    /\ heard = [deltas |-> 0, err |-> "none", done |-> FALSE]
    /\ held = Done
    /\ open = {"events", "wrapped"}
    /\ hooked = <<>>
    /\ sse = "off"
    /\ wire = <<>>
    /\ buf = [c \in Channels |-> <<>>]
    /\ closed = {}

-----------------------------------------------------------------------------
(* HandleChatStream *)

\* What an attempt fails with before it has a stream: a RejectionError, a
\* provider that is unknown or gives no channel, or an error after which no
\* other name is tried (a NonRetryableError, or prepareRequest before the first).
Causes == {"rejected", "noprovider", "fatal"}

\* The next name of the chain, unless the error is fatal or the chain ends;
\* then the error is a new one that does not wrap the last.
AttemptFails(why) ==
    /\ rpc = "attempt"
    /\ cause' = why
    /\ IF why # "fatal" /\ pos < Attempts
       THEN pos' = pos + 1 /\ UNCHANGED <<rpc, told>>
       ELSE /\ rpc' = "failed"
            /\ told' = IF why = "fatal" THEN why ELSE "unspecified"
            /\ UNCHANGED pos
    /\ UNCHANGED <<short, provVars, fwdVars, wrapVars, sse, wire, chanVars>>

\* buildShortCircuitStream: a plugin has the answer.
ShortCircuit ==
    /\ rpc = "attempt"
    /\ rpc' = "streaming"
    /\ short' = TRUE
    /\ wrp' = "shortHooks"
    /\ sse' = "reading"
    /\ UNCHANGED <<pos, cause, told, provVars, fwdVars, heard, held, open, hooked, wire, chanVars>>

\* cancel() is deferred by the function and not by its goroutine.
BugConnect(k) ==
    /\ rpc = "attempt"
    /\ rpc' = "streaming"
    /\ src' = IF k = "mock" THEN "sending" ELSE "select"
    /\ kind' = k
    /\ fwd' = "reading"
    /\ wrp' = "select"
    /\ sse' = "reading"
    /\ ctxDone' = TRUE
    /\ UNCHANGED <<pos, cause, told, short, next, expired, heard, held, open, hooked, wire, chanVars>>

\* handleProviderStreamAttempt and wrapStreamWithPostHooks: the provider hands
\* out its channels, which ends the walk through the chain whatever they bring.
Connect(k) ==
    /\ rpc = "attempt"
    /\ rpc' = "streaming"
    /\ src' = IF k = "mock" THEN "sending" ELSE "select"
    /\ kind' = k
    /\ fwd' = "reading"
    /\ wrp' = "select"
    /\ sse' = "reading"
    /\ UNCHANGED <<pos, cause, told, short, next, ctxDone, expired, heard, held, open, hooked,
                   wire, chanVars>>

\* The timeout of withTimeout, or the context of the server.
Expire ==
    /\ rpc = "streaming" /\ ~short
    /\ ~ctxDone
    /\ ctxDone' = TRUE
    /\ expired' = TRUE
    /\ UNCHANGED <<callVars, provVars, fwd, wrapVars, sse, wire, chanVars>>

-----------------------------------------------------------------------------
(* The mock provider *)

\* The loop over the chunks has one round too many.
BugSourceSends ==
    /\ src = "sending"
    /\ next <= Total + 1
    /\ Put("events", Event(next))
    /\ next' = next + 1
    /\ UNCHANGED <<callVars, src, kind, fwdVars, wrapVars, sse, wire, closed>>

\* ChatStream: the context may end between its check and the send.
SourceSends ==
    /\ src = "sending"
    /\ next <= Total
    /\ Put("events", Event(next))
    /\ next' = next + 1
    /\ UNCHANGED <<callVars, src, kind, fwdVars, wrapVars, sse, wire, closed>>

\* ChatStream: the context is checked before every content event, and a mock
\* that simulates a failure sends none.
SourceFails(why) ==
    /\ src = "sending"
    /\ IF why = "context" THEN ctxDone /\ next <= Chunks ELSE next = 1
    /\ Put("errs", why)
    /\ src' = "closing"
    /\ UNCHANGED <<callVars, kind, next, fwdVars, wrapVars, sse, wire, closed>>

\* The deferred closes: first the channel of errors, then the one of events.
SourceClosesErrs ==
    /\ \/ src = "sending" /\ next > Total
       \/ src = "closing"
    /\ closed' = closed \cup {"errs"}
    /\ src' = "leaving"
    /\ UNCHANGED <<callVars, kind, next, fwdVars, wrapVars, sse, wire, buf>>

SourceClosesEvents ==
    /\ src = "leaving"
    /\ closed' = closed \cup {"events"}
    /\ src' = "ended"
    /\ UNCHANGED <<callVars, kind, next, fwdVars, wrapVars, sse, wire, buf>>

-----------------------------------------------------------------------------
(* The forwarder of handleProviderStreamAttempt *)

Forward ==
    /\ fwd = "reading"
    /\ Ready("errs")
    /\ buf' = [buf EXCEPT !["errs"] = Tail(@), !["wrapped"] = Append(@, Head(buf["errs"]))]
    /\ fwd' = "cancelling"
    /\ UNCHANGED <<callVars, provVars, ctxDone, expired, wrapVars, sse, wire, closed>>

ForwardEnds ==
    /\ fwd = "reading"
    /\ Ended("errs")
    /\ fwd' = "cancelling"
    /\ UNCHANGED <<callVars, provVars, ctxDone, expired, wrapVars, sse, wire, chanVars>>

\* The deferred calls, the last one first.
ForwarderCancels ==
    /\ fwd = "cancelling"
    /\ ctxDone' = TRUE
    /\ fwd' = "closing"
    /\ UNCHANGED <<callVars, provVars, expired, wrapVars, sse, wire, chanVars>>

ForwarderCloses ==
    /\ fwd = "closing"
    /\ closed' = closed \cup {"wrapped"}
    /\ fwd' = "ended"
    /\ UNCHANGED <<callVars, provVars, ctxDone, expired, wrapVars, sse, wire, buf>>

-----------------------------------------------------------------------------
(* The wrapper of wrapStreamWithPostHooks *)

WrapperTakes ==
    /\ wrp = "select"
    /\ "events" \in open /\ Ready("events")
    /\ held' = Head(buf["events"])
    /\ heard' = IF held' = Done THEN [heard EXCEPT !.done = TRUE]
                ELSE [heard EXCEPT !.deltas = @ + 1]
    /\ Take("events")
    /\ wrp' = "copying"
    /\ UNCHANGED <<callVars, provVars, fwdVars, open, hooked, sse, wire, closed>>

\* An event the client is too slow for is dropped.
BugWrapperCopies ==
    /\ wrp = "copying"
    /\ IF Len(buf["output"]) < OutputCap THEN Put("output", held) ELSE UNCHANGED buf
    /\ wrp' = "select"
    /\ UNCHANGED <<callVars, provVars, fwdVars, heard, held, open, hooked,
                   sse, wire, closed>>

WrapperCopies ==
    /\ wrp = "copying"
    /\ Len(buf["output"]) < OutputCap
    /\ Put("output", held)
    /\ wrp' = "select"
    /\ UNCHANGED <<callVars, provVars, fwdVars, heard, held, open, hooked,
                   sse, wire, closed>>

WrapperHearsError ==
    /\ wrp = "select"
    /\ "wrapped" \in open /\ Ready("wrapped")
    /\ heard' = [heard EXCEPT !.err = Head(buf["wrapped"])]
    /\ Take("wrapped")
    /\ UNCHANGED <<callVars, provVars, fwdVars, wrp, held, open, hooked,
                   sse, wire, closed>>

\* A closed channel is set to nil, which takes it out of the select.
WrapperDrops(c) ==
    /\ wrp = "select"
    /\ c \in open /\ Ended(c)
    /\ open' = open \ {c}
    /\ UNCHANGED <<callVars, provVars, fwdVars, wrp, heard, held, hooked,
                   sse, wire, chanVars>>

\* The end of the stream: the post hooks get the whole answer and the error.
\* The done event the provider has not sent follows if there is no error and
\* no hook fails (ok; the registered ones pass on the error they get).
EndStream(ok) ==
    /\ hooked' = Append(hooked, heard)
    /\ wrp' = IF heard.err = "none" /\ ok /\ ~heard.done THEN "done" ELSE "closing"
    /\ UNCHANGED <<callVars, provVars, fwdVars, heard, held, open,
                   sse, wire, chanVars>>

\* The loop ends with one of the channels.
BugHooksAtLastEvent(ok) == wrp = "select" /\ "events" \notin open /\ EndStream(ok)
BugHooksAtLastError(ok) == wrp = "select" /\ "wrapped" \notin open /\ EndStream(ok)

\* The loop runs until both channels are nil.
WrapperRunsHooks(ok) == wrp = "select" /\ open = {} /\ EndStream(ok)

WrapperSendsDone ==
    /\ wrp = "done"
    /\ Len(buf["output"]) < OutputCap
    /\ Put("output", Done)
    /\ wrp' = "closing"
    /\ UNCHANGED <<callVars, provVars, fwdVars, heard, held, open, hooked,
                   sse, wire, closed>>

WrapperCloses ==
    /\ wrp = "closing"
    /\ closed' = closed \cup {"output"}
    /\ wrp' = "ended"
    /\ UNCHANGED <<callVars, provVars, fwdVars, heard, held, open, hooked,
                   sse, wire, buf>>

\* buildShortCircuitStream: the hooks first, then the answer in one event and
\* the done event, for which its own channel has room.
ShortRunsHooks(ok) ==
    /\ wrp = "shortHooks"
    /\ heard' = [heard EXCEPT !.deltas = 1]
    /\ hooked' = Append(hooked, heard')
    /\ wrp' = IF ok THEN "shortDelta" ELSE "closing"
    /\ UNCHANGED <<callVars, provVars, fwdVars, held, open, sse, wire, chanVars>>

ShortSendsDelta ==
    /\ wrp = "shortDelta"
    /\ Put("output", 1)
    /\ wrp' = "shortDone"
    /\ UNCHANGED <<callVars, provVars, fwdVars, heard, held, open, hooked,
                   sse, wire, closed>>

ShortSendsDone ==
    /\ wrp = "shortDone"
    /\ Put("output", Done)
    /\ wrp' = "closing"
    /\ UNCHANGED <<callVars, provVars, fwdVars, heard, held, open, hooked,
                   sse, wire, closed>>

-----------------------------------------------------------------------------
(* The stream writer of handleStreamingChatCompletion *)

\* One event is one chunk; a done event is [DONE].  Errors of the writes are
\* ignored, so the writer goes on when the client is gone.
SseWrites ==
    /\ sse = "reading"
    /\ Ready("output")
    /\ wire' = Append(wire, Head(buf["output"]))
    /\ Take("output")
    /\ UNCHANGED <<callVars, provVars, fwdVars, wrapVars, sse, closed>>

\* HandleChatStream returns no channel of errors, so the output ends the loop.
SseEnds ==
    /\ sse = "reading"
    /\ Ended("output")
    /\ sse' = "ended"
    /\ UNCHANGED <<callVars, provVars, fwdVars, wrapVars, wire, chanVars>>

-----------------------------------------------------------------------------
Source ==
    \/ SourceSends
    \/ \E why \in {"upstream", "context"} : SourceFails(why)
    \/ SourceClosesErrs \/ SourceClosesEvents

Forwarder == Forward \/ ForwardEnds \/ ForwarderCancels \/ ForwarderCloses

Wrapper ==
    \/ WrapperTakes \/ WrapperCopies \/ WrapperHearsError
    \/ \E c \in {"events", "wrapped"} : WrapperDrops(c)
    \/ \E ok \in BOOLEAN : WrapperRunsHooks(ok) \/ ShortRunsHooks(ok)
    \/ WrapperSendsDone \/ WrapperCloses
    \/ ShortSendsDelta \/ ShortSendsDone

Writer == SseWrites \/ SseEnds

Over ==
    \/ rpc = "failed"
    \/ /\ rpc = "streaming"
       /\ sse = "ended" /\ wrp = "ended"
       /\ fwd \in {"off", "ended"} /\ src \in {"off", "ended"}

Terminating == Over /\ UNCHANGED vars

Next ==
    \/ \E why \in Causes : AttemptFails(why)
    \/ ShortCircuit \/ Expire
    \/ \E k \in Kinds : Connect(k)
    \/ Source \/ Forwarder \/ Wrapper \/ Writer
    \/ Terminating

Spec == Init /\ [][Next]_vars

-----------------------------------------------------------------------------
(* Properties *)

Items(s) == {s[i] : i \in 1..Len(s)}

FlagsOK == short \in BOOLEAN /\ ctxDone \in BOOLEAN /\ expired \in BOOLEAN

PlacesOK ==
    /\ rpc \in {"attempt", "streaming", "failed"}
    /\ src \in {"off", "sending", "select", "passing", "closing", "leaving", "ended"}
    /\ fwd \in {"off", "reading", "cancelling", "closing", "ended"}
    /\ wrp \in {"off", "select", "copying", "done", "closing", "ended",
                "shortHooks", "shortDelta", "shortDone"}
    /\ sse \in {"off", "reading", "ended"}
    /\ kind \in Kinds \cup {"none"}
    /\ cause \in Causes \cup {"none"}
    /\ told \in Causes \cup {"none", "unspecified"}
    /\ open \subseteq {"events", "wrapped"}
    /\ closed \subseteq Channels

DataOK ==
    /\ pos \in 1..Attempts
    /\ next \in 1..(Total + 1)
    /\ heard \in [deltas : Nat, err : {"none", "upstream", "context"}, done : BOOLEAN]
    /\ held \in Nat
    /\ wire \in Seq(Nat)

ChannelsOK ==
    /\ buf = [c \in Channels |-> buf[c]]
    /\ \A c \in {"events", "output", "chunks"} : buf[c] \in Seq(Nat)
    /\ \A c \in {"errs", "wrapped", "faults"} : buf[c] \in Seq({"upstream", "context"})

TypeOK == FlagsOK /\ PlacesOK /\ DataOK /\ ChannelsOK

\* The content events of s are those from a + 1 to b, in order, each of them once.
Carries(s, a, b) ==
    /\ a <= b
    /\ \A i \in 1..Len(s) : s[i] # Done => s[i] \in (a + 1)..b
    /\ \A i, j \in 1..Len(s) : i < j /\ s[i] # Done /\ s[j] # Done => s[i] < s[j]
    /\ \A n \in (a + 1)..b : \E i \in 1..Len(s) : s[i] = n

\* The client reads the content in order, without a gap or a repetition, across
\* all the goroutines and channels, whatever fails.
ClientReadsPrefix == \E n \in 0..Total : Carries(wire, 0, n)

\* The post hooks run once, on the whole of what the provider sent and on its
\* error, so governance accounts neither a part of an answer nor a failed one.
HooksSeeWholeStream ==
    /\ Len(hooked) <= 1
    /\ wrp \in {"done", "closing", "ended"} => Len(hooked) = 1
    /\ \A i \in 1..Len(hooked) : ~short =>
          /\ src = "ended" /\ buf["events"] = <<>> /\ buf["errs"] = <<>> /\ buf["wrapped"] = <<>>
          /\ hooked[i].deltas = IF next - 1 <= Chunks THEN next - 1 ELSE Chunks
          /\ hooked[i].err = "none" /\ kind = "mock" => next > Total

\* The cancel of the forwarder never cuts a stream short: a provider fails on
\* its context only when the timeout or the server ended it.
CancelComesLast ==
    /\ "context" \in Items(buf["errs"]) \cup Items(buf["wrapped"]) \cup {heard.err} => expired
    /\ ctxDone /\ ~expired => src \notin {"sending", "select", "passing"}

\* A stream error is written to the client as an event, followed by [DONE]
\* (writeStreamError, transport/http/handler/chat.go:190).
FailedStreamIsReported ==
    sse = "ended" /\ heard.err # "none" => wire # <<>> /\ wire[Len(wire)] = Done

\* The client of a rejected request gets the type and the code of the
\* rejection (README.md, the section on error responses), streamed or not.
RejectionKeepsItsCode ==
    rpc = "failed" /\ cause = "rejected" => told = "rejected"

=============================================================================
