-------------------------------- MODULE Http --------------------------------
(***************************************************************************)
(* The HTTP side of the gateway: the chain of middlewares and the routes   *)
(* (transport/http/middleware.go, router.go), the handlers, the store of   *)
(* request summaries (framework/debug) and the goroutine that writes the   *)
(* body of a stream.  The gateway is seen from here as what it can return. *)
(*                                                                         *)
(* fasthttp is external, as far as this code depends on it: a connection   *)
(* takes a RequestCtx from a pool and keeps it until it closes; the user   *)
(* values of the context are cleared after every request and when the      *)
(* context is released, not when it is acquired; SetBodyStreamWriter runs  *)
(* its writer at once in a goroutine, over a pipe that the connection      *)
(* reads after the handler has returned and closes when the client is      *)
(* lost, after which writes to it fail without waiting.                    *)
(***************************************************************************)
EXTENDS Integers, Sequences, FiniteSets, SequencesExt

CONSTANTS
    Conns,      \* connections of clients
    Ctxs,       \* the RequestCtx objects of the pool
    Kinds,      \* bound: for each request that the clients send, in the order
                \* of arrival, what it may be: its route and whether it is valid
    Headers,    \* the key headers of each client: [Conns -> [own, bearer]]
    Providers,  \* the providers
    AnsweredBy, \* for each request, the one that answers it if one does
    Errors,     \* the errors of the gateway: the status of a RejectionError
                \* that the plugin pipeline has wrapped, or 500 for one without
    Chunks,     \* the events of a stream before its Done
    PipeCap,    \* the capacity of the pipe below the body of a stream
    Keep        \* observability.keep_recent_requests

ASSUME HttpAssumption ==
    /\ Chunks \in Nat /\ PipeCap \in Nat \ {0} /\ Keep \in Int
    /\ Kinds \in Seq(SUBSET {"plain", "stream", "list", "health",
                             "unknown", "badmethod", "malformed"})
    /\ Errors \subseteq {401, 403, 429, 500}
    /\ Cardinality(Conns) <= Cardinality(Ctxs) /\ "none" \notin Ctxs
    /\ AnsweredBy \in [1..Len(Kinds) -> Providers] /\ "" \notin Providers

VARIABLES
    at,      \* per connection: closed, idle, or where its request is
    ctx,     \* per connection: its RequestCtx
    values,  \* per RequestCtx: its user values
    reqs,    \* the requests in the order of their arrival; the last of a
             \* connection that is not idle is the one it serves
    store,   \* Store.items
    log      \* history: the requests in the order of their summaries

vars == <<at, ctx, values, reqs, store, log>>

Requests == Len(Kinds)
NoCtx == "none"
Unset == [id |-> 0, key |-> "", stream |-> FALSE, provider |-> "", error |-> ""]

\* NewStore: without a capacity the store keeps twenty.
Capacity == IF Keep <= 0 THEN 20 ELSE Keep

Chat == {"plain", "stream"}

\* virtualKeyFromContext: the header of the gateway, or else the bearer token.
VirtualKey(c) == IF Headers[c].own # "" THEN Headers[c].own ELSE Headers[c].bearer

\* statusToErrorType
StatusToErrorType(status) ==
    CASE status = 401 -> "authentication_error"
      [] status = 403 -> "permission_error"
      [] status = 404 -> "not_found_error"
      [] status = 405 -> "method_not_allowed"
      [] status = 400 -> "invalid_request_error"
      [] status = 429 -> "rate_limit_error"
      [] OTHER -> "internal_error"

\* The answers of the handlers that need neither the gateway nor the store.
DirectStatus == [health |-> 200, unknown |-> 404, badmethod |-> 405, malformed |-> 400]

\* classifyRunError asserts the type of the error as it is, wrapped or not.
ClassifyRunError(e) == "internal_error"

Serving(c) == Max({q \in DOMAIN reqs : reqs[q].conn = c})
Running == {q \in DOMAIN reqs : reqs[q].writer # "none"}

Init ==
    /\ at = [c \in Conns |-> "closed"]
    /\ ctx = [c \in Conns |-> NoCtx]
    /\ values = [x \in Ctxs |-> Unset]
    /\ reqs = <<>>
    /\ store = <<>>
    /\ log = <<>>

-----------------------------------------------------------------------------
(* Connections *)

\* The connection is idle again, or closed and its context released.
Clear(c) == values' = [values EXCEPT ![ctx[c]] = Unset]
Release(c) ==
    /\ Clear(c)
    /\ at' = [at EXCEPT ![c] = "closed"]
    /\ ctx' = [ctx EXCEPT ![c] = NoCtx]

\* A request on an open connection, or the first of a new one, which takes any
\* context of the pool.  RequestIDMiddleware; then Recover, DebugSummary and
\* Logging go inwards.  answered is history: what had been answered in full.
Arrive(c, kind) ==
    /\ at[c] \in {"closed", "idle"}
    /\ \E x \in IF at[c] = "idle" THEN {ctx[c]} ELSE Ctxs \ {ctx[d] : d \in Conns} :
          /\ ctx' = [ctx EXCEPT ![c] = x]
          /\ values' = [values EXCEPT ![x].id = Len(reqs) + 1]
          /\ reqs' = Append(reqs,
                 [conn |-> c, ctx |-> x, kind |-> kind, fate |-> "open",
                  status |-> 200, type |-> "", by |-> "", listed |-> <<>>, panicked |-> FALSE,
                  answered |-> {q \in DOMAIN reqs : kind = "list" /\ reqs[q].fate = "answered"},
                  writer |-> "none", sent |-> 0, read |-> 0])
    /\ at' = [at EXCEPT ![c] = "handling"]
    /\ UNCHANGED <<store, log>>

\* (That a connection closes after the last request changes nothing.)
Close(c) ==
    /\ at[c] = "idle" /\ Len(reqs) < Requests
    /\ Release(c)
    /\ UNCHANGED <<reqs, store, log>>

-----------------------------------------------------------------------------
(* Handlers *)

\* The request of connection c and the user values of its context.
Request(c) == reqs[Serving(c)]
Values(c) == values[ctx[c]]

\* The handler of connection c leaves the request as r and the user values as v
\* and returns to the middlewares, or panics through them.
Handle(c, to, r, v) ==
    /\ at[c] = "handling"
    /\ at' = [at EXCEPT ![c] = to]
    /\ reqs' = [reqs EXCEPT ![Serving(c)] = r]
    /\ values' = [values EXCEPT ![ctx[c]] = v]
    /\ UNCHANGED <<ctx, store, log>>

\* WriteErrorFrom finds the status of a RejectionError through its wrapping.
Error(c, status) ==
    [Request(c) EXCEPT !.status = status, !.type = StatusToErrorType(status)]

\* Health, NotFound, and the checks of ChatCompletion before the gateway.
AnswerDirectly(c) ==
    LET kind == Request(c).kind IN
    /\ kind \in DOMAIN DirectStatus
    /\ Handle(c, "returned",
              IF kind = "health" THEN Request(c) ELSE Error(c, DirectStatus[kind]), Values(c))

\* DebugRequests: its own summary is not made yet.
DebugRequests(c) ==
    /\ Request(c).kind = "list"
    /\ Handle(c, "returned",
              [Request(c) EXCEPT !.listed = [i \in DOMAIN store |-> store[i].id]], Values(c))

\* ChatCompletion tells the summary of answers only.
BugSent(c) == Values(c)

\* What ChatCompletion tells the summary before it calls the gateway.
Sent(c) ==
    [Values(c) EXCEPT !.key = VirtualKey(c), !.stream = (Request(c).kind = "stream")]

\* The summary names the provider that the request was meant for.
BugHandleChatAnswers(c) ==
    /\ Request(c).kind = "plain"
    /\ \E first \in Providers :
          Handle(c, "returned", [Request(c) EXCEPT !.by = AnsweredBy[Serving(c)]],
                 [Sent(c) EXCEPT !.provider = first])

\* HandleChat returns a response; storeChatDebugValues.
HandleChatAnswers(c) ==
    LET p == AnsweredBy[Serving(c)] IN
    /\ Request(c).kind = "plain"
    /\ Handle(c, "returned", [Request(c) EXCEPT !.by = p], [Sent(c) EXCEPT !.provider = p])

HandleChatFails(c, e) ==
    /\ Request(c).kind = "plain"
    /\ Handle(c, "returned", Error(c, e), [Sent(c) EXCEPT !.error = ClassifyRunError(e)])

\* HandleChatStream returns the channel of events: the writer runs from now on.
StreamOpens(c) ==
    /\ Request(c).kind = "stream"
    /\ Handle(c, "returned",
              [Request(c) EXCEPT !.by = AnsweredBy[Serving(c)], !.writer = "running"], Sent(c))

\* HandleChatStream returns an error: the summary is not told its type.
StreamFails(c, e) ==
    /\ Request(c).kind = "stream"
    /\ Handle(c, "returned", Error(c, e), Sent(c))

\* A plugin or a tool panics in the goroutine of the request: Recover answers,
\* outside of the middlewares that summarise and log.
HandlerPanics(c) ==
    /\ Request(c).kind \in Chat
    /\ Handle(c, "writing", [Error(c, 500) EXCEPT !.panicked = TRUE], Sent(c))

-----------------------------------------------------------------------------
(* The summary *)

\* A full store refuses what is new.
BugAdd(items, s) == IF Len(items) >= Capacity THEN items ELSE Append(items, s)

\* One summary more than the capacity.
BugAddAtCapacity(items, s) == Append(IF Len(items) > Capacity THEN Tail(items) ELSE items, s)

\* Store.Add drops the oldest of a full store.
Add(items, s) == Append(IF Len(items) >= Capacity THEN Tail(items) ELSE items, s)

\* Logging returns, and DebugSummary reads the user values as they are now.
DebugSummary(c) ==
    /\ at[c] = "returned"
    /\ LET v == Values(c) IN
       store' = Add(store, [id |-> v.id, key |-> v.key, stream |-> v.stream,
                            provider |-> v.provider, error |-> v.error,
                            status |-> Request(c).status])
    /\ log' = Append(log, Serving(c))
    /\ at' = [at EXCEPT ![c] = "writing"]
    /\ UNCHANGED <<ctx, values, reqs>>

-----------------------------------------------------------------------------
(* The response *)

Whole(q) == reqs[q].writer \in {"none", "ended"} /\ reqs[q].read = reqs[q].sent

\* The response, or the end of the body of a stream, has reached the client.
RespondEnds(c) ==
    /\ at[c] = "writing" /\ Whole(Serving(c))
    /\ reqs' = [reqs EXCEPT ![Serving(c)].fate = "answered"]
    /\ at' = [at EXCEPT ![c] = "idle"]
    /\ Clear(c)
    /\ UNCHANGED <<ctx, store, log>>

\* The connection reads a piece of the body from the pipe and sends it.
RespondPiece(c) ==
    LET q == Serving(c) IN
    /\ at[c] = "writing" /\ reqs[q].read < reqs[q].sent
    /\ reqs' = [reqs EXCEPT ![q].read = @ + 1]
    /\ UNCHANGED <<at, ctx, values, store, log>>

\* The client has hung up, or write_timeout has passed: a write fails, the
\* pipe is closed and so is the connection.
ClientLost(c) ==
    LET q == Serving(c) IN
    /\ at[c] = "writing" /\ (Whole(q) \/ reqs[q].read < reqs[q].sent)
    /\ reqs' = [reqs EXCEPT ![q].fate = "lost"]
    /\ Release(c)
    /\ UNCHANGED <<store, log>>

-----------------------------------------------------------------------------
(* The goroutine of the StreamWriter of request q *)

\* A write to the pipe does not wait: there is room, or the pipe is closed.
CanWrite(q) == reqs[q].fate = "lost" \/ reqs[q].sent - reqs[q].read < PipeCap

WriterCopies(q) ==
    /\ reqs[q].writer = "running" /\ reqs[q].sent < Chunks
    /\ CanWrite(q)
    /\ reqs' = [reqs EXCEPT ![q].sent = @ + 1]
    /\ UNCHANGED <<at, ctx, values, store, log>>

\* The gateway ends a stream that failed: there is no Done (StreamSilent).
StreamBreaks(q) ==
    /\ reqs[q].writer = "running"
    /\ reqs' = [reqs EXCEPT ![q].writer = "broken"]
    /\ UNCHANGED <<at, ctx, values, store, log>>

\* storeStreamDebugValues: in the context the request had, whoever has it now.
WriterStores(q) ==
    /\ reqs[q].writer = "running" /\ reqs[q].sent = Chunks
    /\ values' = [values EXCEPT ![reqs[q].ctx].provider = reqs[q].by]
    /\ reqs' = [reqs EXCEPT ![q].writer = "storing"]
    /\ UNCHANGED <<at, ctx, store, log>>

\* data: [DONE]
WriterSendsDone(q) ==
    /\ reqs[q].writer = "storing"
    /\ CanWrite(q)
    /\ reqs' = [reqs EXCEPT ![q].writer = "done", ![q].sent = @ + 1]
    /\ UNCHANGED <<at, ctx, values, store, log>>

\* The writer goes on until it has seen a Done.
BugWriterEnds(q) ==
    /\ reqs[q].writer = "done"
    /\ reqs' = [reqs EXCEPT ![q].writer = "ended"]
    /\ UNCHANGED <<at, ctx, values, store, log>>

\* The channel of events is closed, and there is none of errors.
WriterEnds(q) ==
    /\ reqs[q].writer \in {"done", "broken"}
    /\ reqs' = [reqs EXCEPT ![q].writer = "ended"]
    /\ UNCHANGED <<at, ctx, values, store, log>>

-----------------------------------------------------------------------------
Handler(c) ==
    \/ AnswerDirectly(c) \/ DebugRequests(c) \/ HandlerPanics(c)
    \/ HandleChatAnswers(c) \/ StreamOpens(c)
    \/ \E e \in Errors : HandleChatFails(c, e) \/ StreamFails(c, e)

ConnStep(c) ==
    (at[c] = "handling" /\ Handler(c)) \/ DebugSummary(c) \/ RespondEnds(c) \/ RespondPiece(c) \/ ClientLost(c)

WriterStep(q) ==
    WriterCopies(q) \/ WriterStores(q) \/ WriterSendsDone(q) \/ WriterEnds(q)

\* Every request has ended, and so have the writers.
Terminating ==
    /\ Len(reqs) = Requests
    /\ \A c \in Conns : at[c] \in {"closed", "idle"}
    /\ \A q \in Running : reqs[q].writer = "ended"
    /\ UNCHANGED vars

Next ==
    \/ \E c \in Conns : Close(c) \/ ConnStep(c)
    \/ Len(reqs) < Requests /\ \E c \in Conns, kind \in Kinds[Len(reqs) + 1] : Arrive(c, kind)
    \/ \E q \in DOMAIN reqs : StreamBreaks(q) \/ WriterStep(q)
    \/ Terminating

Spec == Init /\ [][Next]_vars

\* The goroutines of connections and writers run; the gateway returns and its
\* streams end (Dispatch, OpenAIStream); a client that reads no more is lost
\* when write_timeout has passed.
FairSpec ==
    /\ Spec
    /\ \A c \in Conns : WF_vars(ConnStep(c))
    /\ \A q \in 1..Requests : WF_vars(q \in DOMAIN reqs /\ WriterStep(q))

-----------------------------------------------------------------------------
(* Properties *)

\* Every variable keeps its shape; the store never has more than its capacity.
TypeOK ==
    /\ at \in [Conns -> {"closed", "idle", "handling", "returned", "writing"}]
    /\ \A c \in Conns : at[c] = "closed" <=> ctx[c] = NoCtx
    /\ \A c, d \in Conns : c # d /\ ctx[c] = ctx[d] => ctx[c] = NoCtx
    /\ values \in [Ctxs -> [id : 0..Requests, key : {""} \cup {VirtualKey(c) : c \in Conns},
                            stream : BOOLEAN, provider : Providers \cup {""},
                            error : {"", "internal_error"}]]
    /\ Len(reqs) <= Requests
    /\ \A q \in DOMAIN reqs :
          /\ reqs[q].read <= reqs[q].sent /\ reqs[q].sent <= Chunks + 1
          /\ reqs[q].fate # "lost" => reqs[q].sent - reqs[q].read <= PipeCap
    /\ Len(store) <= Capacity
    /\ IsInjective(log)

\* A client that has been answered finds its request in a list it asks for
\* afterwards, on whichever connection, unless as many newer summaries as the
\* store keeps have come since; only requests that panicked are never listed
\* (the summary is made before the response is written, middleware.go:79).
AnsweredIsListed ==
    \A l \in DOMAIN reqs : reqs[l].kind = "list" /\ l \in ToSet(log) =>
        \A q \in reqs[l].answered :
            \/ reqs[q].panicked
            \/ q \in ToSet(reqs[l].listed)
            \/ /\ Len(reqs[l].listed) = Capacity
               /\ \A r \in ToSet(reqs[l].listed) :
                     \E i, j \in DOMAIN log : i < j /\ log[i] = q /\ log[j] = r

\* The error a request leaves for its summary: only a chat request that fails
\* before it streams has one.
ErrorOf(r) == IF r.kind = "plain" /\ r.status >= 400 THEN "internal_error" ELSE ""

\* A summary tells of one request what its own client sent and was answered:
\* the key, whether it was a stream, the status, and an error if and only if
\* HandleChat returned one; whatever the context was used for before
\* (middleware.go:84).
SummaryMatchesRequest ==
    \A i \in DOMAIN store :
        LET s == store[i]
            r == reqs[s.id]
        IN  /\ s.status = r.status
            /\ s.stream = (r.kind = "stream")
            /\ s.key = IF r.kind \in Chat THEN VirtualKey(r.conn) ELSE ""
            /\ s.error = ErrorOf(r)

\* A summary that names a provider names the one that answered its request, but
\* for the context of a stream whose client was lost: its writer stores what it
\* knows in that context when the context belongs to another request already,
\* or to none (storeStreamDebugValues, chat.go:137).
OtherProviderNeedsLostStream ==
    \A i \in DOMAIN store :
        LET s == store[i]
            r == reqs[s.id]
        IN s.provider \in {"", r.by} \/
           \E q \in 1..s.id - 1 :
               /\ reqs[q].kind = "stream" /\ reqs[q].fate = "lost"
               /\ reqs[q].ctx = r.ctx /\ reqs[q].by = s.provider

\* The summary of every chat request that was answered names the provider that
\* answered it (the comment of RequestSummary.Provider, store.go:12).
SummaryTellsProvider ==
    \A i \in DOMAIN store :
        LET r == reqs[store[i].id]
        IN r.kind \in Chat /\ r.status = 200 => store[i].provider = r.by

\* Every request is answered or loses its client, and the writer of its stream
\* ends, with a Done or without one and with a client or without one
\* (handleStreamingChatCompletion, chat.go:126).
RequestsEnd ==
    []<>(\A q \in DOMAIN reqs :
            reqs[q].fate # "open" /\ reqs[q].writer \in {"none", "ended"})

=============================================================================
