# mind-gateway in TLA+

This directory holds a formal model of mind-gateway: TLA+ modules translated
from the Go source under `src/`, configurations with which TLC model-checks
them, and proofs that TLAPS checks. mind-gateway is an LLM gateway. An HTTP
server takes OpenAI-style chat requests and passes them through a chain of
plugins to a provider, with one queue and one pool of workers per provider,
retries, fallback to other providers, streaming, a tool loop, quotas per
virtual key, and a shutdown on a signal.

Paths below are relative to `src/`.

## 1. The system

| Component | State | Operations | Talks to |
| --- | --- | --- | --- |
| Request dispatch (`core/gateway.go`, `queue.go`, `fallback.go`, `retry.go`) | one channel and `Closing` flag per provider, a goroutine per worker, one result channel per attempt | `HandleChat`, `enqueue`, `requestWorker`, `executeWithRetry`, `sendResult` | plugins, tool loop (caller); providers (callee); shutdown (shared channels) |
| Gateway shutdown (`core/lifecycle.go`) | the same flags and channels, a WaitGroup | `Shutdown` | the workers |
| Streaming (`core/gateway.go` from line 92, `transport/http/handler/chat.go`) | four goroutines and their channels per stream | `HandleChatStream`, `handleProviderStreamAttempt`, `wrapStreamWithPostHooks`, `buildShortCircuitStream`, the SSE writer | provider, plugins, client |
| Plugin pipeline (`plugin/pipeline.go`) | an immutable list | `RunPreHooks`, `RunPostHooks` | every plugin, once for every attempt |
| Governance (`plugin/governance`) | three counters per key under a lock | `PreHook`, `PostHook` | the attempts of all concurrent requests |
| Tool loop (`framework/tool`) | the conversation of one attempt; a registry | `Loop.Execute`, `Registry.Execute` | providers (through the dispatch), tools |
| Server lifecycle (`transport/http/server/server.go`, `cmd/mind_http`) | the listener, the signal context | `Start`, `shutdown`, `shutdownHTTPServer` | fasthttp, `Gateway.Shutdown` |
| Mock provider (`provider/mock`) | none | `Chat`, `ChatStream` | - |
| OpenAI provider (`provider/openai`) | a reader and an adapter goroutine per stream, two channels between them | `Chat`, `ChatStream`, `Client.ChatCompletionStream` | upstream |
| HTTP handlers and middleware (`transport/http`) | the user values of pooled `RequestCtx` objects | `ChatCompletion`, `Recover`, `DebugSummary`, `Logging`, the stream writer | gateway, debug store, clients |
| Debug store (`framework/debug`) | a bounded list of summaries under a lock | `Add`, `List` | `DebugSummary`, the debug endpoint |
| Configuration, bootstrap, registries (`framework/config`, `bootstrap.go`, `provider/registry.go`) | written at startup | `Bootstrap`, `Register`, `resolveProviderChain` | all of the above |
| Logging plugin, logger, health, built-in tools | none that changes | output, pure functions | - |

What is hard here, and what has to be true of it:

- **Dispatch.** Any number of requests share the queues. A caller that is
  cancelled leaves its task behind in a queue or with a worker, and its
  goroutine goes on to the next name of the chain while the old attempt still
  runs. A result must never reach another attempt, no accepted attempt may be
  lost or run twice, a decisive result must end the walk through the chain,
  and no worker may block for ever on a result nobody reads.
- **Shutdown.** It closes channels that requests send on. What was accepted
  must be completed, a queue may be closed once only, and every worker must
  leave.
- **Streaming.** Events and errors come on different channels, a select takes
  either, and `cancel` is deferred in a goroutine of its own. The client has
  to read the answer in order, `[DONE]` has to mean that it is complete, what
  is lost may be lost behind an error only, and neither a client that goes
  away nor an upstream that fails may leave goroutines behind.
- **Governance.** Check and accounting are two steps with a provider call
  between them, and the check itself reads three counters at three moments.
  The overshoot has to be bounded, a spent key must run nothing, access must
  be checked again for every fallback, and only an answered request may be
  accounted.
- **Plugins and tools.** Errors are wrapped, replaced or dropped while the
  PostHooks run in reverse; a fatal error has to stay one. The conversation
  the model sees has to be complete in every round and after every fallback.
- **HTTP.** The summary of a request is made when its handler returns, while
  the body of a stream is still to be written by a goroutine that keeps the
  context of the request and stores values in it. Contexts are recycled. A
  summary has to tell of its own request, and a client has to find its request
  in the list.
- **Process.** The order drain, then `Gateway.Shutdown`, then exit is the only
  protection of the unguarded send in `enqueue`.

`PROJECT.json` lists every hazard at its line with the properties that watch it.

## 2. The modules

| Module | Models | Checked by | Proofs |
| --- | --- | --- | --- |
| `ChatService` | what `HandleChat` promises (abstract) | as a property of Dispatch | `DispatchRefinement` |
| `Dispatch` | dispatch and gateway shutdown | `MCDispatch` | `DispatchProofs`, `DispatchEndProofs`, `DispatchRefinement` |
| `Server` (extends `Dispatch`) | the process around the gateway | `MCServer` | `ServerProofs` |
| `Governance` | the plugin between concurrent clients and attempts | `MCGovernance` | `GovernanceProofs` |
| `Stream` | one streamed request, goroutine by goroutine | through `OpenAIStream`, and itself | `StreamProofs` |
| `OpenAIStream` (extends `Stream`) | the goroutines of an openai provider before those of `Stream` | itself | `StreamProofs` |
| `Routing` | from the configuration to providers, chains and tools (operators only) | through `Pipeline` | `ToolLoopProofs` |
| `Pipeline` (extends `Routing`) | hooks around the attempts of one request | through `ToolLoop` | `ToolLoopProofs` |
| `ToolLoop` (extends `Pipeline`) | the tool loop as the execution of an attempt | `MCToolLoop` | `ToolLoopProofs` |
| `Http` | connections, middlewares, handlers, debug store, stream writer | `MCHttp` | `HttpProofs` |

**Dispatch.** `pc[r]` is the program counter of the goroutine that runs
`HandleChat` for request `r`: `attempt` (about to call `getQueue`), `enqueue`
(it holds a queue and sends), `wait` (the select on the result), `return`
(back in the loop over the chain). A task is the pair of a request and a
position of its chain, since `handleProviderAttempt` makes a new result
channel for every attempt; `replies` holds what was written to those
channels. `wpc[w]` is the state of a worker: `idle` (range over the channel),
`calling` (in `Provider.Chat`), `backoff` (in `sleepBackoff`), `sending` (in
`sendResult`), `exited`. `getQueue` and the send are two actions, since
nothing holds the lock between them; a send on a closed channel is
`EnqueuePanics`, also for a sender that was blocked before. Where a select has
several ready cases all of them are enabled (`ReceiveResult` and
`AwaitCancelled`, `SendResult` and `DropResult`). `Shutdown` claims a queue
with the compare-and-swap (`ClaimQueue`), closes it (`CloseQueue`), and after
the sweep waits for the workers (`WorkersDone`) or for its context (`GiveUp`).
Errors are kinds: `IsRetryable` and `shouldTryFallback` tell no more apart.
The numbers of the configuration are arbitrary integers, as nothing validates
them, with the defaults the code puts in the place of some.

**ChatService** knows requests, chains, verdicts and what providers said.
`Dispatch` implements it under the mapping `Service` at the end of
`Dispatch.tla`; queues, workers, retries and Shutdown are invisible there. It
says that an uncancelled request has one provider at work at most, in the order
of the chain, that a provider speaks once per attempt, and that the caller
gets the verdict of the last attempt.

**Server** adds the phases of the process. fasthttp is external: its
`Shutdown` ends the context of every request (`CancelAll`) and returns nil only
when no connection is open; whether it returns an error for the listener that
`server.go:91` has already closed is left open, so the exit code after a clean
shutdown may be 0 or 1. No client cancels a context by hanging up: the context
of a fasthttp request ends with the server only. Streams are not part of this
module.

**Governance** has one process per client, which asks again after its answer.
A `PreHook` is one step up to the access checks and then one step for each
counter (`CheckRequests`, `CheckInput`, `CheckOutput`), as `validateQuota`
reads the fields of `state.Usage` one after the other and without the lock;
`PostHook` is one step, under the lock. What
the provider does is one step with an outcome and a number of tokens. `spent`
records whether the key was exhausted when the request came in.

**Stream** has the goroutine of the request, the provider, the forwarder of
`handleProviderStreamAttempt`, the wrapper of `wrapStreamWithPostHooks` (or the
goroutine of `buildShortCircuitStream`) and the SSE writer. A content event is
its number; `buf` and `closed` are the channels between them.

**OpenAIStream** puts two more goroutines in front for a provider of the kind
`openai`: the reader of `Client.ChatCompletionStream`, which passes one chunk
per line of the body on through a channel and its error through another, and
the adapter of `Provider.ChatStream`, which selects on both. The upstream is
external: it sends any number of chunks, one of them perhaps without choices,
and ends with `[DONE]`, without it, or with an error. Both kinds of provider
may be in the chain; the goroutines of `Stream` are used as they are.

**Routing** computes what `Bootstrap` makes of a configuration: the registered
names, the tools, the fallbacks, the chain of a request, and whether the
process starts at all. **Pipeline** steps through the hooks of one request one
by one, over the chain of its configuration; it remembers in `events` which
ran, in `decided` what PostHooks made of the error by themselves, and in `fate`
what became of each attempt. **ToolLoop** puts `Loop.Execute` in the place of
the execution: the conversation message by message, the rounds, the tools, and
a restart from the conversation of the caller at a fallback. Together they are
a whole `HandleChat` or `HandleChatStream` as plugins see it, with model calls
as outcomes.

**Http** has the connections of clients, each with a `RequestCtx` it took from
the pool of fasthttp, the user values of those contexts, the requests in the
order of their arrival, the debug store, and a writer goroutine for every
stream. `at[c]` follows a request from its handler through `DebugSummary` to
the writing of its response. The gateway is seen as what it can return.
fasthttp is external, as far as the code depends on it: user values are
cleared after every request, and `SetBodyStreamWriter` starts its writer at
once.

The modules state their properties with quantifiers over the positions of a
sequence instead of operators that filter it (`Stream!Carries`,
`Pipeline!HasRun`, `ToolLoop!Served`), so that they can be proved without an
induction over data.

An operator named `Bug...` is a plausible mistake in the operator below it. It
belongs to no behaviour of the specifications; it is put in the place of the
right one to see that the property named in `PROJECT.json` notices.

## 3. The runs

| Run | Shows | Bounds |
| --- | --- | --- |
| `DispatchFallback` | `IInv`, no stale answer, no duplicated attempt, a decisive reply settles, an error only after the whole chain, and `ImplementsChatService` | 2 requests with crossed chains of 2, one cancellable, 2 providers with 2 workers, queues of 1 that refuse when full, 1 retry |
| `DispatchStop` | no lost work, a nil of Shutdown means drained, no double close, nothing left in flight, `ImplementsChatService` with panics as `Abort`; every request returns, every worker exits | 2 requests that block on a queue of 1, a chain with an unregistered name, 1 worker, 1 retry, 2 calls of Shutdown |
| `DispatchPanic` | violated: no request panics | 1 request, 1 Shutdown |
| `Server` | no request panics, exit code 0 loses nothing, a signal ends the process | 2 requests, 2 providers, one chain of 2 |
| `Governance` | both overshoot bounds, nothing runs on a spent key, only allowed calls run, accounted if and only if answered | 2 clients that ask again and again, a key with 2 requests and restricted access, a key with 3 tokens, an unknown key |
| `OpenAIStream` | order, completeness, losses behind an error only, one run of the hooks on the whole answer, the cancel last; every goroutine ends | a chain of 2 of mock and openai providers, 3 content events over channels of 1, one odd chunk |
| `StreamSilent` | violated: a failed stream is reported to the client | 1 content event |
| `StreamRejected` | violated: a rejection keeps its code when streamed | 1 provider |
| `ToolLoop` | complete conversations, bounded rounds, nested hooks, all PostHooks of an attempt or none, no failure answered as a success, the whole chain tried, fatal stays fatal | 3 plugins, streamed or not, 3 configurations that start and 3 that do not, 2 rounds of up to 2 calls, every outcome of every hook, tool and model call |
| `ToolTokens` | violated: all tokens are accounted | 1 plugin, 1 provider, the default of 4 rounds |
| `Http` | an answered request is listed, a summary matches its request and has an error if and only if `HandleChat` returned one, a wrong provider takes a lost stream; every request and writer ends | 2 connections, 2 contexts, 3 requests (a stream; a plain, streamed or malformed one; a list), 1 event before the `[DONE]`, a pipe and a store of 1 |
| `HttpSummary` | violated: the summary of an answered request names its provider | as `Http` |

Why the bounds are enough. In the dispatch two requests compete for a queue of
one, and a request can also compete with its own abandoned attempt, so the
queue is full, blocks, refuses and is closed under a blocked sender; two
workers can race for a task; one retry has both a first and a last iteration;
a chain of two has a first and a last name; two calls of Shutdown race for a
flag. In governance an overshoot needs one client beside another, and the
proofs cover every number. With three events over channels of one every
goroutine of a stream blocks on a full channel and drains an emptying one, and
an event can be first, in the middle or last. A third plugin is one in the
middle. Of the configurations one has a fallback to itself, one a disabled
default and an unknown fallback, one a single provider with all tools. Two
connections and two contexts let a context change hands while the writer of
its first stream still runs, and the third request looks at the result.

Bounds that are not of the program: `Horizon` in `Governance` (the accounted
requests of a key with which a client may still ask) lies above both quotas,
so requests are rejected by the quota and not by the bound; `Kinds` in `Http`
limits the number of requests and says what each may be, and a connection
closes only before the last of them; `MaxCalls` and `Callable` in `ToolLoop`
limit what a model calls in one response; a reader of `OpenAIStream` meets one
chunk without choices at most. No run disables the deadlock check: a state
without successors would be an error, and the intended ends stutter
(`Terminating`).

Fairness. `Dispatch!FairSpec` assumes weak fairness of each goroutine: of a
request once it runs, of a worker, of a Shutdown. That is the Go scheduler,
together with `withTimeout` for the end of a provider call. Nobody is assumed
to call, to cancel, or to give up. A request that waits to send on a full
queue needs no strong fairness because it competes with a bounded number of
others. `OpenAIStream!FairUpSpec` assumes the same of the six goroutines of a
stream; that the body of the upstream ends is due to the timeout of the HTTP
client, for which `NewClient` has a default. `Http!FairSpec` assumes it of the
goroutines of connections and writers, that the gateway returns (which
`EveryRequestReturns` and `StreamEnds` are about), and that a client that
reads no more is lost when `write_timeout` has passed; `load.go` gives it no
default, so `RequestsEnd` holds for a configuration that sets it: without one a
client that keeps its connection and does not read keeps the writer.
`Server!FairServerSpec` assumes fairness of the goroutine of main alone: a
provider may hang for ever, and `shutdown_timeout` ends the process
nevertheless.

## 4. What the violations show

1. `DispatchPanic` (`core/gateway.go:532`). `getQueue` looks at `Closing`,
   `enqueue` sends later, and nothing excludes a `Shutdown` between, or while
   the sender blocks. The send panics. Inside `cmd/mind_http` the order of
   `server.shutdown` prevents it; `ServerNeverPanics` proves so. Anyone else
   who embeds the gateway is exposed.
2. `StreamSilent` (`core/gateway.go:165`). The handler is never given a channel
   of errors, so the branch that writes the SSE error event is dead and a
   stream that failed just stops.
3. `StreamRejected` (`core/gateway.go:114`). The exhausted chain of a streamed
   request ends in a new error that wraps nothing: 500 instead of the
   documented 429.
4. `ToolTokens` (`framework/tool/loop.go:57`). Only the tokens of the last
   round are accounted.
5. `HttpSummary` (`transport/http/middleware.go:79`). The summary of a stream
   is made before its writer has seen the provider and the model and is never
   completed, so it has neither.

Seen while modelling and without a run of their own:

- the hooks run for every name of the chain although
  `core/schema/plugin.go:13-16` describes them as once around the whole
  execution; a streamed attempt that gets no stream returns before the PostHooks
  (`core/gateway.go:160`), which `HandleChat` runs for the same failure; a
  PreHook that fails, as that of governance does to reject a request, ends its
  attempt without the PostHooks of the plugins before it; a short circuit runs
  PostHooks when streamed only. `PostHooksAllOrNone` says exactly which attempts
  end without them;
- two concurrent requests both pass a quota of one, which
  `QuotaOvershootBounded` quantifies (with one client it is the strict quota);
- with a negative `max_retries` the loop of `executeWithRetry` does not run
  and the caller gets neither a response nor an error (`core/gateway.go:275`);
- the first backoff is returned before the comparison with `max_backoff`
  (`core/retry.go:63`);
- the writer of a stream stores values in the context of its request after
  the handler returned: when the client is lost that context may belong to
  another request, whose summary then names the provider of the stream
  (`OtherProviderNeedsLostStream` says that nothing else can). The model
  groups the values of one stream into one step;
- the summaries show `RetryCount` and `FallbackIndex` as zero always: they are
  read from the request of the handler, of which `HandleChat` uses a copy;
- `classifyRunError` asserts the type of an error that the pipeline has
  wrapped, so a rejection is summarised as `internal_error`; a streamed
  request that fails has no error type in its summary; a request that panics
  is neither summarised nor logged, since `Recover` is outside of both;
- an upstream that closes a stream without `[DONE]` counts as complete, and the
  client reads a `[DONE]` of the gateway (`DoneMeansComplete` cannot notice: what
  was never sent is not part of the answer in the model); the
  gateway never asks an upstream for the usage of a stream
  (`stream_options.include_usage`), so streams add no tokens to a quota;
- `simulate_failure` (`framework/config/config.go:49`) is not passed on to the
  mock provider, and `debug_buffer_size` is not used.

## 5. The proofs

All are over arbitrary constants that satisfy the named assumptions
(`DispatchAssumption`, `GovernanceAssumption`, `ServerAssumption`,
`PipelineAssumption`, `ToolLoopAssumption`, `StreamAssumption`,
`OpenAIAssumption`, `HttpAssumption`), which TLC evaluates in the runs. Every invariant that a
passing run checks is a theorem of the same specification without fairness.

**DispatchProofs** proves `Spec => []IInv`. None of the interesting
invariants is inductive alone. That an uncancelled caller has its work
somewhere (`WaiterHasWork`) survives a worker's step only if a worker holds
one task and no other place holds it (`Unique`); that survives an `Enqueue`
only if the attempt has left no trace yet (`Started`), which in turn needs
that what is in flight is the awaited attempt (`InFlightIsAwaited`); and a
result comes from the right provider only if tasks lie in the right queue
(`Routed`). `ExitedOnlyWhenDrained` needs that a closed queue gets no more
tasks. `IInv` is their conjunction. The proof goes action by action, over
lemmas that say what an `Enqueue`, a `TakeTask`, a `SendResult` and a
`DropResult` do to the places of a task; every other step leaves them alone
(`QuietSteps`). The consequences `NoLostWork`, `NothingLeftRunning`,
`WorkersDrainFirst`, `NoStaleAnswer` and `NoDuplicateWork` follow at once.

**DispatchEndProofs** adds how calls end. `ClosedOnce`: a queue one Shutdown
has claimed is open and claimed by nobody else (`ClaimedOnce` is inductive).
`NothingAbandoned`: workers never come back (`WorkersLeft`), every queue has
one, and by `IInv` a worker only leaves an empty closed queue, so after a
Shutdown that returned nil nothing is in flight and a waiting caller must have
its reply. `ChainExhausted` and `FirstDecisionStands` are about the walk: a
decisive reply is the current attempt's when it is sent (`InFlightIsAwaited`),
the only one to be received (`Unique`), and the fallback does not pass it.

**DispatchRefinement** proves `Spec => ImplementsChatService`. Every step of a
request is one of `ChatService` or, for `getQueue` and `Enqueue`, invisible;
a worker shows itself in `SendResult` alone, which is a `Say` because the task
it held was in flight and so unanswered (`Unique`) and, for a caller that has
not given up, the one being asked (`InFlightIsAwaited`); the steps of Shutdown
are invisible. `RepliesSpoken` keeps refusals, which callers make themselves,
apart from what providers say.

**ServerProofs** proves `ServerNeverPanics` and `QueuesClosedLast` from the
inductive invariant `SafeStop`, which is `QueuesCloseLast` and the absence of
panics together: a panic needs a closed queue, before the phase `gateway` no
queue is closed and no flag is set, and from then on no request is in the
gateway, so nobody is left to send. `GatewayInServer` carries `IInv` over from
`Dispatch`: every step of the server is one of the gateway, or leaves it alone,
or is the end of all request contexts at once (`CancelStep`), which takes nothing
from invariants that promise something to uncancelled requests only. So what a
nil of `Gateway.Shutdown` means there it means in the server, and
`CleanExitIsClean` follows: the code of zero is that of a `Shutdown` which
returned nil (`CleanExit`).

**GovernanceProofs** proves the type invariant and every property of the run.
`QuotaBounded`: the step that admits a client finds the counter below the
limit, and every client counts once, whether pending or already in the counter.
`InputBounded` is the same with a place of the largest cost kept for each
client that has passed the check (`InputReserved`); it assumes that responses
have a largest cost. `SpentKeyRunsNothing`: the counters only grow, so a limit
reached on arrival is still reached when its check comes, at whatever moment
the three reads happen (`SpentIsNoticed`). `AccessHolds`: PreHook is the only
way to the checks and to a provider (`AdmittedBehindPreHook`). `AccountedOnce`:
only PostHook accounts, and nothing accounted is tried again
(`ChargedAfterPostHook`).

**ToolLoopProofs** proves every invariant of the run, for any number of plugins,
any configurations and any limit of rounds. No failure is answered as a success
and no chain is walked past a fatal error the PostHooks handed on (`ErrorKept`:
unless a PostHook recovers, no error means that execution and hooks succeeded;
unless one fails by itself, a fatal outcome is a fatal error). The rounds are
bounded (`RoundsCounted` counts the responses of finished attempts and, round by
round, of the current one; it needs that only unstreamed requests enter the
loop). The hooks nest, and the PostHooks of an attempt have all run or none has
(`PostHooksTold`): all when its execution came to an outcome or a streamed
request was short-circuited (`Told`), none otherwise. `HooksCounted` says how many
hooks `events` holds in each phase, that only an attempt that is `Told` gets to
its PostHooks, and that a PreHook that failed is not among the executed. Every name has its turn (`ChainWalked` has an entry of `fate` for
every attempt that is over, a short circuit apart). The conversation is complete
(`Conversation` knows that the calls not run yet are the last of some message,
so that the next result falls into its place).

**StreamProofs** proves every invariant of the run, for answers and chains of any
length. The six goroutines are held together by `OrderInv`: which of them exist
for which provider (`Roles`), that a channel is closed exactly when its writer
has got there and left out of a select only when nothing can come of it
(`Closings`), that one error at most is on its way and the producer has stopped
for it (`OneError`), and that the contents of the channels, from the reader of
the upstream to the client, are adjoining intervals of the answer (`Order`, over
`Carries`). `ClientReadsInOrder`, `HooksGetAll`, `CancelCutsNothing` and
`NothingLostWithoutError` follow from it. `Carries` does not
say where among the contents a `Done` lies; that `[DONE]` means complete needs
`Completion`: the `Done` is the last item of its channel and all channels before
it are empty (`Exactly`, `AllGiven`). A chunk without choices in mid-stream
breaks `Completion` for good, which is why `StreamInv` asks for it only without
one, as `DoneMeansComplete` does.

**HttpProofs** proves every invariant of the run, for any number of connections,
contexts and requests, any length of streams and any capacity of the pipe and
the store. The actions are of five kinds (`Answers`, `Summarises`,
`Moves`, `Ends`, `Arrives`), and each part of `HttpInv` is kept by each kind.
`Owners`: an open connection has a context of its own and serves its last
request, and only the last request of a connection may be open. `Phases`: what
the user values of a connection hold in each phase, and that a context no
connection holds has been cleared. `Logged`: the store is the end of the log, and
every answered request that did not panic is in the log. `Listed`: a list that
was answered is the end of the log at some earlier moment, when everything its
client could know of was in it; a list that misses a request is therefore full
of newer ones (`AnswersAreListed`). `Origins`: a provider in a context is that of
the request the context serves, or of an earlier stream in it whose client was
lost; only a writer that outlives its connection can put it there
(`OnlyLostStreamsMislead`). `SummariesMatch` needs `Phases` when the summary is
made (it holds the error of `HandleChat`, `ErrorOf`, and nothing of an earlier
request) and, afterwards, that no handler changes a request that is in the log.

Only model-checked: everything temporal (`EveryRequestReturns`,
`WorkersEventuallyExit`, `StreamEnds`, `SignalEndsProcess`, `RequestsEnd`, since
liveness under fairness is out of the prover's reach), the counterexamples of
section 4, and that the assumptions on the constants can be met. No module has
a RECURSIVE operator.

## 6. Not modelled

- The lengths of waits (`calculateBackoff`), wording, logging, JSON, the
  fields of messages and their conversion (`provider/openai/adapter.go`), the
  texts of the mock provider, the parsing of YAML and of environment variables.
- The request that is not streamed inside `provider/openai`: one HTTP call
  with an outcome (`ProviderReturns`).
- The logger and the access log: output only.
- A provider that panics (it does so in a worker, outside `Recover`, and takes
  the process down; neither provider does by itself) or ignores its context
  for ever, except in `Server`, where it may.
- User values of one stream that are read half written.
- PostHooks that recover a failed stream: `EndStream` takes it that they hand on
  an error they are given, as both registered plugins do. A plugin that dropped it
  would have the client read `[DONE]` behind a part of the answer.
- Streams while the process shuts down: `Server` has chat requests only.

## 7. Plan

Done: dispatch, shutdown, server, governance, streams with both providers,
plugins with the tool loop over real configurations, the HTTP side; the
refinement of `ChatService` proved, and every invariant that a run checks.

What is left, in order of importance:

1. An abstract specification of a stream (the client reads a prefix of the
   answer, then one end) that `OpenAIStream` implements, from `StreamInv`.
2. `ImplementsChatService` for the gateway inside of `Server`, with the end of
   all contexts as a step of `ChatService`.
3. Streams in `Server`: the drain waits for the writers of open connections.
