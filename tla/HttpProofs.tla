------------------------------ MODULE HttpProofs ------------------------------
(* Theorems about Http, for any connections, contexts, requests, providers,  *)
(* sizes of streams, of the pipe and of the store.                           *)
EXTENDS Http, SequenceTheorems, TLAPS

Busy == {"handling", "returned", "writing"}

AllKinds == {"plain", "stream", "list", "health", "unknown", "badmethod", "malformed"}

ErrorTypes == {"", "authentication_error", "permission_error", "not_found_error",
               "method_not_allowed", "invalid_request_error", "rate_limit_error", "internal_error"}

RequestType == [
    conn : Conns, ctx : Ctxs, kind : AllKinds, fate : {"open", "answered", "lost"},
    status : Nat, type : ErrorTypes, by : Providers \cup {""}, listed : Seq(Nat),
    panicked : BOOLEAN, answered : SUBSET Nat,
    writer : {"none", "running", "broken", "storing", "done", "ended"}, sent : Nat, read : Nat]

Keys == {""} \cup {VirtualKey(c) : c \in Conns}

ValuesType == [
    id : 0..Requests, key : Keys, stream : BOOLEAN, provider : Providers \cup {""},
    error : {"", "internal_error"}]

SummaryType == [
    id : Nat, key : Keys, stream : BOOLEAN, provider : Providers \cup {""},
    error : {"", "internal_error"}, status : Nat]

Typed ==
    /\ at \in [Conns -> {"closed", "idle"} \cup Busy]
    /\ ctx \in [Conns -> Ctxs \cup {NoCtx}]
    /\ values \in [Ctxs -> ValuesType]
    /\ reqs \in Seq(RequestType) /\ Len(reqs) <= Requests
    /\ store \in Seq(SummaryType)
    /\ log \in Seq(Nat)

-----------------------------------------------------------------------------
(* The inductive invariant *)

\* q is the last request of connection c.
Latest(c, q) ==
    /\ q \in 1..Len(reqs) /\ reqs[q].conn = c
    /\ \A p \in 1..Len(reqs) : reqs[p].conn = c => p <= q

\* An open connection holds a context of its own, the one of its last request,
\* and only the last request of a connection may be open.
Owners ==
    /\ \A c \in Conns : at[c] = "closed" <=> ctx[c] = NoCtx
    /\ \A c, d \in Conns : c # d /\ ctx[c] = ctx[d] => ctx[c] = NoCtx
    /\ \A c \in Conns : at[c] # "closed" =>
          /\ Latest(c, Serving(c))
          /\ Request(c).ctx = ctx[c]
          /\ Request(c).fate = IF at[c] = "idle" THEN "answered" ELSE "open"
    /\ \A c \in Conns, q \in 1..Len(reqs) :
          reqs[q].fate = "open" /\ reqs[q].conn = c => at[c] \in Busy /\ q = Serving(c)

\* The body of a response, as its writer fills the pipe.
BodyOK(r) ==
    /\ r.read <= r.sent
    /\ r.fate # "lost" => r.sent - r.read <= PipeCap
    /\ r.sent <= Chunks + 1
    /\ r.writer \in {"running", "storing"} => r.sent <= Chunks
    /\ r.writer = "none" => r.sent = 0
    /\ r.writer # "none" => r.kind = "stream"
    /\ r.fate = "answered" => r.writer \in {"none", "ended"}

Bodies == \A q \in 1..Len(reqs) : BodyOK(reqs[q])

\* What the handler has not done yet, and what its request has left elsewhere.
New(r) ==
    r.by = "" /\ r.writer = "none" /\ r.sent = 0 /\ r.read = 0 /\ ~r.panicked /\ r.status < 400
Clean(v) == v.key = "" /\ ~v.stream /\ v.error = ""

\* The user values tell of the request what its summary is to tell.
Told(v, r) ==
    /\ v.stream = (r.kind = "stream")
    /\ v.key = IF r.kind \in Chat THEN VirtualKey(r.conn) ELSE ""
    /\ v.error = ErrorOf(r)

Phase(c) ==
    /\ at[c] = "handling" => New(Request(c)) /\ Clean(Values(c))
    /\ at[c] = "returned" => Told(Values(c), Request(c)) /\ ~Request(c).panicked
    /\ at[c] \in {"handling", "returned"} =>
          Values(c).id = Serving(c) /\ Serving(c) \notin ToSet(log)
    /\ at[c] = "writing" => Request(c).panicked \/ Serving(c) \in ToSet(log)
    /\ at[c] = "idle" => Clean(Values(c))

\* A context that no connection holds has been cleared.
Released == \A x \in Ctxs : (\A c \in Conns : ctx[c] # x) => Clean(values[x])

Phases == (\A c \in Conns : Phase(c)) /\ Released

\* The store is the end of the log, which has every request that was answered
\* and did not panic.
Logged ==
    /\ IsInjective(log)
    /\ \A i \in 1..Len(log) : log[i] \in 1..Len(reqs)
    /\ Len(store) = IF Len(log) <= Capacity THEN Len(log) ELSE Capacity
    /\ \A i \in 1..Len(store) : store[i].id = log[Len(log) - Len(store) + i]
    /\ \A q \in 1..Len(reqs) : reqs[q].fate = "answered" =>
          reqs[q].panicked \/ q \in ToSet(log)

\* A stream whose client was lost had context x and provider p.
LostIn(x, p, q) ==
    reqs[q].kind = "stream" /\ reqs[q].fate = "lost" /\ reqs[q].ctx = x /\ reqs[q].by = p

\* A provider in a context is that of its request or of a lost stream, which was
\* there before the connection that holds the context now.
LostBefore ==
    \A c \in Conns, q \in 1..Len(reqs) :
        at[c] # "closed" /\ reqs[q].fate = "lost" /\ reqs[q].ctx = ctx[c] => q < Serving(c)

Origin(x) ==
    \/ values[x].provider = ""
    \/ \E c \in Conns : ctx[c] = x /\ at[c] \in Busy /\ values[x].provider = Request(c).by
    \/ \E q \in 1..Len(reqs) : LostIn(x, values[x].provider, q)

Origins == LostBefore /\ \A x \in Ctxs : Origin(x)

\* q was answered or panicked before the n-th summary was made.
Seen(q, n) == q \in 1..Len(reqs) /\ (reqs[q].panicked \/ \E i \in 1..n : log[i] = q)

\* The list that request l was answered with was made after n summaries.
ListedAt(l, n) ==
    LET ids == reqs[l].listed
    IN  /\ Len(ids) = IF n <= Capacity THEN n ELSE Capacity
        /\ \A i \in 1..Len(ids) : ids[i] = log[n - Len(ids) + i]
        /\ \A q \in reqs[l].answered : Seen(q, n)

Listed(l) ==
    reqs[l].kind = "list" =>
        \/ /\ \E c \in Conns : reqs[l].conn = c /\ at[c] = "handling" /\ l = Serving(c)
           /\ \A q \in reqs[l].answered : Seen(q, Len(log))
        \/ \E n \in 0..Len(log) : ListedAt(l, n)

Lists == \A l \in 1..Len(reqs) : Listed(l)

\* A summary tells what was asked and answered, and a provider only of its
\* request or of a lost stream before it.
Faithful(s) ==
    LET r == reqs[s.id]
    IN  /\ s.status = r.status
        /\ s.stream = (r.kind = "stream")
        /\ s.key = IF r.kind \in Chat THEN VirtualKey(r.conn) ELSE ""
        /\ s.error = ErrorOf(r)

Sourced(s) ==
    LET r == reqs[s.id]
    IN  s.provider \in {"", r.by} \/ \E q \in 1..s.id - 1 : LostIn(r.ctx, s.provider, q)

Summaries == \A i \in 1..Len(store) : Faithful(store[i]) /\ Sourced(store[i])

HttpInv == Typed /\ Owners /\ Bodies /\ Phases /\ Logged /\ Origins /\ Lists /\ Summaries

-----------------------------------------------------------------------------
(* Steps *)

LEMMA Constants ==
    /\ Capacity \in Nat \ {0} /\ Requests \in Nat /\ PipeCap \in Nat \ {0} /\ Chunks \in Nat
    /\ NoCtx \notin Ctxs
    /\ \A c \in Conns : VirtualKey(c) \in Keys
    /\ \A q \in 1..Requests : AnsweredBy[q] \in Providers
<1>1. /\ Chunks \in Nat /\ PipeCap \in Nat \ {0} /\ Keep \in Int
      /\ \E S : Kinds \in Seq(S)
      /\ AnsweredBy \in [1..Len(Kinds) -> Providers]
  BY HttpAssumption DEF HttpAssumption
<1>2. Requests \in Nat
  BY <1>1 DEF Requests
<1>3. Capacity \in Nat \ {0}
  BY <1>1 DEF Capacity
<1>4. NoCtx \notin Ctxs
  BY HttpAssumption DEF HttpAssumption, NoCtx
<1>5. \A c \in Conns : VirtualKey(c) \in Keys
  BY DEF Keys
<1>6. \A q \in 1..Requests : AnsweredBy[q] \in Providers
  BY <1>1 DEF Requests
<1> QED
  BY <1>1, <1>2, <1>3, <1>4, <1>5, <1>6

LEMMA ErrorsAreErrors == \A e \in Errors : e \in Nat /\ e >= 400
<1>1. Errors \subseteq {401, 403, 429, 500}
  BY HttpAssumption DEF HttpAssumption
<1>2. \A e \in {401, 403, 429, 500} : e \in Nat /\ e >= 400
  OBVIOUS
<1> QED
  BY <1>1, <1>2

\* The step changes request q into r, which stays with its connection.
Changes(q, r) ==
    /\ q \in 1..Len(reqs)
    /\ reqs' \in Seq(RequestType) /\ Len(reqs') = Len(reqs)
    /\ reqs'[q] = r
    /\ \A p \in 1..Len(reqs) : p # q => reqs'[p] = reqs[p]
    /\ r.conn = reqs[q].conn /\ r.ctx = reqs[q].ctx /\ r.kind = reqs[q].kind
    /\ r.answered = reqs[q].answered

LEMMA ChangeFacts ==
    ASSUME reqs \in Seq(RequestType), NEW q, NEW r, Changes(q, r)
    PROVE  /\ \A p \in 1..Len(reqs) : /\ reqs'[p].conn = reqs[p].conn
                                      /\ reqs'[p].ctx = reqs[p].ctx
                                      /\ reqs'[p].kind = reqs[p].kind
                                      /\ reqs'[p].answered = reqs[p].answered
           /\ \A c : Serving(c)' = Serving(c)
           /\ \A c : Latest(c, Serving(c)) => Latest(c, Serving(c))'
<1>1. \A p \in 1..Len(reqs) : /\ reqs'[p].conn = reqs[p].conn
                              /\ reqs'[p].ctx = reqs[p].ctx
                              /\ reqs'[p].kind = reqs[p].kind
                              /\ reqs'[p].answered = reqs[p].answered
  BY DEF Changes
<1>2. DOMAIN reqs' = 1..Len(reqs) /\ DOMAIN reqs = 1..Len(reqs) /\ Len(reqs') = Len(reqs)
  BY DEF Changes
<1>3. \A c : {p \in DOMAIN reqs' : reqs'[p].conn = c} = {p \in DOMAIN reqs : reqs[p].conn = c}
  BY <1>1, <1>2
<1>4. \A c : Serving(c)' = Serving(c)
  BY <1>3 DEF Serving
<1>5. \A c : Latest(c, Serving(c)) => Latest(c, Serving(c))'
  BY <1>1, <1>2, <1>4 DEF Latest
<1> QED
  BY <1>1, <1>4, <1>5

LEMMA ChangedRequest ==
    ASSUME reqs \in Seq(RequestType), NEW q \in 1..Len(reqs), NEW r \in RequestType,
           reqs' = [reqs EXCEPT ![q] = r],
           r.conn = reqs[q].conn, r.ctx = reqs[q].ctx, r.kind = reqs[q].kind,
           r.answered = reqs[q].answered
    PROVE  Changes(q, r)
BY DEF Changes

\* The handler of connection c leaves the request as r, the user values as v,
\* and what the summary is to tell.
Answers(c, to, r, v) ==
    /\ at[c] = "handling" /\ to \in {"returned", "writing"}
    /\ Changes(Serving(c), r)
    /\ v \in ValuesType
    /\ at' = [at EXCEPT ![c] = to]
    /\ values' = [values EXCEPT ![ctx[c]] = v]
    /\ UNCHANGED <<ctx, store, log>>
    /\ r.fate = "open" /\ r.sent = 0 /\ r.read = 0
    /\ r.writer = "none" \/ (r.writer = "running" /\ r.kind = "stream")
    /\ r.panicked <=> to = "writing"
    /\ r.kind = "list" => r.listed = [i \in 1..Len(store) |-> store[i].id]
    /\ v.id = Serving(c)
    /\ to = "returned" => Told(v, r)
    /\ v.provider = Values(c).provider \/ v.provider = r.by

\* What the handlers have in common.
Leaves(c, to, r, v) ==
    /\ to \in {"returned", "writing"} /\ r \in RequestType /\ v \in ValuesType
    /\ r.conn = Request(c).conn /\ r.ctx = Request(c).ctx /\ r.kind = Request(c).kind
    /\ r.answered = Request(c).answered /\ r.fate = Request(c).fate
    /\ r.sent = Request(c).sent /\ r.read = Request(c).read
    /\ r.writer = Request(c).writer \/ (r.writer = "running" /\ r.kind = "stream")
    /\ r.panicked <=> to = "writing"
    /\ r.kind = "list" => r.listed = [i \in 1..Len(store) |-> store[i].id]
    /\ v.id = Values(c).id
    /\ to = "returned" => Told(v, r)
    /\ v.provider = Values(c).provider \/ v.provider = r.by

LEMMA HandlerAnswers ==
    ASSUME Typed, Owners, Phases, NEW c \in Conns, at[c] = "handling", Handler(c)
    PROVE  \E to, r, v : Answers(c, to, r, v)
<1> DEFINE q == Serving(c)
           x == ctx[c]
<1>1. /\ q \in 1..Len(reqs) /\ Request(c) \in RequestType /\ Request(c).conn = c
      /\ Request(c).fate = "open" /\ reqs \in Seq(RequestType)
  BY DEF Typed, Owners, Latest, Request
<1>2. x \in Ctxs /\ Values(c) \in ValuesType /\ Values(c).id = q
  BY DEF Typed, Owners, Values, Phases, Phase, NoCtx
<1>3. New(Request(c)) /\ Clean(Values(c))
  BY DEF Phases, Phase
<1>4. AnsweredBy[q] \in Providers
  BY <1>1, Constants DEF Typed
<1>5. ASSUME NEW status \in Nat PROVE Error(c, status) \in RequestType
  <2>1. StatusToErrorType(status) \in ErrorTypes
    BY DEF StatusToErrorType, ErrorTypes
  <2> QED
    BY <1>1, <2>1 DEF Error, RequestType
<1>6. /\ Sent(c) \in ValuesType
      /\ Sent(c) = [Values(c) EXCEPT !.key = VirtualKey(c), !.stream = (Request(c).kind = "stream")]
  BY <1>2, Constants DEF Sent, ValuesType
<1>7. ASSUME NEW to, NEW r, NEW v, Leaves(c, to, r, v), Handle(c, to, r, v)
      PROVE  \E to1, r1, v1 : Answers(c, to1, r1, v1)
  <2>1. /\ at[c] = "handling" /\ at' = [at EXCEPT ![c] = to]
        /\ reqs' = [reqs EXCEPT ![q] = r] /\ values' = [values EXCEPT ![x] = v]
        /\ UNCHANGED <<ctx, store, log>>
    BY <1>7 DEF Handle
  <2>2. Changes(q, r)
    BY <1>1, <1>7, <2>1, ChangedRequest DEF Request, Leaves
  <2>3. Answers(c, to, r, v)
    BY <1>1, <1>2, <1>3, <1>7, <2>1, <2>2 DEF Answers, New, Leaves
  <2> QED
    BY <2>3
<1> HIDE DEF q, x
<1> DEFINE R == Request(c)
           V == Values(c)
<1>8. /\ R \in RequestType /\ R.conn = c /\ R.writer = "none" /\ R.panicked = FALSE
      /\ R.status < 400
      /\ V \in ValuesType /\ V.key = "" /\ V.stream = FALSE /\ V.error = ""
  BY <1>1, <1>2, <1>3 DEF New, Clean, RequestType, ValuesType
<1>9. /\ Sent(c).key = VirtualKey(c) /\ Sent(c).stream = (R.kind = "stream")
      /\ Sent(c).error = "" /\ Sent(c).id = V.id /\ Sent(c).provider = V.provider
  BY <1>6, <1>8 DEF ValuesType
<1>10. ASSUME NEW status \in Nat
       PROVE  LET e == Error(c, status)
              IN  /\ e \in RequestType /\ e.status = status
                  /\ e.conn = R.conn /\ e.ctx = R.ctx /\ e.kind = R.kind
                  /\ e.answered = R.answered /\ e.fate = R.fate /\ e.sent = R.sent
                  /\ e.read = R.read /\ e.writer = R.writer /\ e.panicked = R.panicked
                  /\ e.listed = R.listed /\ e.by = R.by
  BY <1>5, <1>8 DEF Error, RequestType
<1> HIDE DEF R, V
<1>11. CASE AnswerDirectly(c)
  <2>1. /\ R.kind \in {"health", "unknown", "badmethod", "malformed"}
        /\ Handle(c, "returned", IF R.kind = "health" THEN R ELSE Error(c, DirectStatus[R.kind]), V)
    BY <1>11 DEF AnswerDirectly, DirectStatus, R, V
  <2>2. DirectStatus[R.kind] \in Nat /\ (R.kind = "health" \/ DirectStatus[R.kind] >= 400)
    BY <2>1 DEF DirectStatus
  <2>3. CASE R.kind = "health"
    <3>1. Leaves(c, "returned", R, V)
      BY <1>8, <2>3 DEF Leaves, Told, ErrorOf, Chat, R, V
    <3> QED
      BY <1>7, <2>1, <2>3, <3>1
  <2>4. CASE R.kind # "health"
    <3> DEFINE e == Error(c, DirectStatus[R.kind])
    <3>1. /\ e \in RequestType
          /\ e.conn = R.conn /\ e.ctx = R.ctx /\ e.kind = R.kind
          /\ e.answered = R.answered /\ e.fate = R.fate /\ e.sent = R.sent
          /\ e.read = R.read /\ e.writer = R.writer /\ e.panicked = R.panicked
      BY <1>10, <2>2
    <3> HIDE DEF e
    <3>2. Leaves(c, "returned", e, V)
      BY <1>8, <2>1, <2>4, <3>1 DEF Leaves, Told, ErrorOf, Chat, R, V
    <3>3. Handle(c, "returned", e, V)
      BY <2>1, <2>4 DEF e
    <3> QED
      BY <1>7, <3>2, <3>3
  <2> QED
    BY <2>3, <2>4
<1>12. CASE DebugRequests(c)
  <2> DEFINE ids == [i \in DOMAIN store |-> store[i].id]
             r == [R EXCEPT !.listed = ids]
  <2>1. store \in Seq(SummaryType) /\ Len(store) \in Nat /\ DOMAIN store = 1..Len(store)
    BY DEF Typed
  <2>2. \A i \in 1..Len(store) : store[i].id \in Nat
    <3> SUFFICES ASSUME NEW i \in 1..Len(store) PROVE store[i].id \in Nat
      OBVIOUS
    <3>1. store[i] \in SummaryType
      BY <2>1
    <3> QED
      BY <3>1 DEF SummaryType
  <2>3. ids = [i \in 1..Len(store) |-> store[i].id] /\ ids \in Seq(Nat)
    BY <2>1, <2>2
  <2> HIDE DEF ids
  <2>4. /\ r \in RequestType /\ r.listed = ids
        /\ r.conn = R.conn /\ r.ctx = R.ctx /\ r.kind = R.kind
        /\ r.answered = R.answered /\ r.fate = R.fate /\ r.sent = R.sent
        /\ r.read = R.read /\ r.writer = R.writer /\ r.panicked = R.panicked
    BY <1>8, <2>3 DEF RequestType, R
  <2>5. R.kind = "list" /\ Handle(c, "returned", r, V)
    BY <1>12 DEF DebugRequests, R, V, ids
  <2> HIDE DEF r
  <2>6. Leaves(c, "returned", r, V)
    BY <1>8, <2>3, <2>4, <2>5 DEF Leaves, Told, ErrorOf, Chat, R, V
  <2> QED
    BY <1>7, <2>5, <2>6
<1>13. CASE HandlerPanics(c)
  <2> DEFINE e == Error(c, 500)
             r == [e EXCEPT !.panicked = TRUE]
  <2>1. /\ e \in RequestType
        /\ e.conn = R.conn /\ e.ctx = R.ctx /\ e.kind = R.kind
        /\ e.answered = R.answered /\ e.fate = R.fate /\ e.sent = R.sent
        /\ e.read = R.read /\ e.writer = R.writer
    BY <1>10
  <2> HIDE DEF e
  <2>2. /\ r \in RequestType /\ r.panicked = TRUE
        /\ r.conn = R.conn /\ r.ctx = R.ctx /\ r.kind = R.kind
        /\ r.answered = R.answered /\ r.fate = R.fate /\ r.sent = R.sent
        /\ r.read = R.read /\ r.writer = R.writer
    BY <2>1 DEF RequestType
  <2>3. R.kind \in {"plain", "stream"} /\ Handle(c, "writing", r, Sent(c))
    BY <1>13 DEF HandlerPanics, Chat, R, e
  <2> HIDE DEF r
  <2>4. Leaves(c, "writing", r, Sent(c))
    BY <1>6, <1>9, <2>2, <2>3 DEF Leaves, R, V
  <2> QED
    BY <1>7, <2>3, <2>4
<1>14. CASE HandleChatAnswers(c)
  <2> DEFINE p == AnsweredBy[q]
             r == [R EXCEPT !.by = p]
             v == [Sent(c) EXCEPT !.provider = p]
  <2>1. R.kind = "plain" /\ Handle(c, "returned", r, v)
    BY <1>14 DEF HandleChatAnswers, q, R
  <2>2. p \in Providers
    BY <1>4
  <2> HIDE DEF p
  <2>3. /\ r \in RequestType /\ r.by = p /\ r.status = R.status
        /\ r.conn = R.conn /\ r.ctx = R.ctx /\ r.kind = R.kind
        /\ r.answered = R.answered /\ r.fate = R.fate /\ r.sent = R.sent
        /\ r.read = R.read /\ r.writer = R.writer /\ r.panicked = R.panicked
    BY <1>8, <2>2 DEF RequestType, R
  <2>4. /\ v \in ValuesType /\ v.provider = p /\ v.id = V.id /\ v.error = ""
        /\ v.key = VirtualKey(c) /\ v.stream = (R.kind = "stream")
    BY <1>6, <1>9, <2>2 DEF ValuesType
  <2> HIDE DEF r, v
  <2>5. ErrorOf(r) = ""
    <3>1. R.status \in Nat
      BY <1>8 DEF RequestType
    <3>2. r.status = R.status
      BY <2>3
    <3>3. R.status < 400
      BY <1>8
    <3>4. ~(r.status >= 400)
      BY <3>1, <3>2, <3>3
    <3> QED
      BY <3>4 DEF ErrorOf
  <2>6. Leaves(c, "returned", r, v)
    BY <1>8, <2>1, <2>3, <2>4, <2>5 DEF Leaves, Told, Chat, R, V
  <2> QED
    BY <1>7, <2>1, <2>6
<1>15. CASE StreamOpens(c)
  <2> DEFINE p == AnsweredBy[q]
             r == [R EXCEPT !.by = p, !.writer = "running"]
  <2>1. R.kind = "stream" /\ Handle(c, "returned", r, Sent(c))
    BY <1>15 DEF StreamOpens, q, R
  <2>2. p \in Providers
    BY <1>4
  <2> HIDE DEF p
  <2>3. /\ r \in RequestType /\ r.writer = "running"
        /\ r.conn = R.conn /\ r.ctx = R.ctx /\ r.kind = R.kind
        /\ r.answered = R.answered /\ r.fate = R.fate /\ r.sent = R.sent
        /\ r.read = R.read /\ r.panicked = R.panicked
    BY <1>8, <2>2 DEF RequestType, R
  <2> HIDE DEF r
  <2>4. Told(Sent(c), r)
    BY <1>8, <1>9, <2>1, <2>3 DEF Told, ErrorOf, Chat
  <2>5. Leaves(c, "returned", r, Sent(c))
    BY <1>6, <1>8, <1>9, <2>1, <2>3, <2>4 DEF Leaves, R, V
  <2> QED
    BY <1>7, <2>1, <2>5
<1>16. ASSUME NEW e \in Errors, HandleChatFails(c, e) \/ StreamFails(c, e)
       PROVE  \E to, r, v : Answers(c, to, r, v)
  <2> DEFINE r == Error(c, e)
             v == [Sent(c) EXCEPT !.error = ClassifyRunError(e)]
  <2>1. e \in Nat /\ e >= 400
    BY ErrorsAreErrors
  <2>2. /\ r \in RequestType /\ r.status = e
        /\ r.conn = R.conn /\ r.ctx = R.ctx /\ r.kind = R.kind
        /\ r.answered = R.answered /\ r.fate = R.fate /\ r.sent = R.sent
        /\ r.read = R.read /\ r.writer = R.writer /\ r.panicked = R.panicked
    BY <1>10, <2>1
  <2>3. /\ v \in ValuesType /\ v.provider = V.provider /\ v.id = V.id
        /\ v.key = VirtualKey(c) /\ v.stream = (R.kind = "stream")
        /\ v.error = "internal_error"
    BY <1>6, <1>9 DEF ValuesType, ClassifyRunError
  <2>4. \/ R.kind = "plain" /\ Handle(c, "returned", r, v)
        \/ R.kind = "stream" /\ Handle(c, "returned", r, Sent(c))
    BY <1>16 DEF HandleChatFails, StreamFails, R
  <2> HIDE DEF r, v
  <2>5. R.kind = "plain" => Leaves(c, "returned", r, v)
    BY <1>8, <2>1, <2>2, <2>3 DEF Leaves, Told, ErrorOf, Chat, R, V
  <2>6. R.kind = "stream" => Told(Sent(c), r)
    BY <1>8, <1>9, <2>1, <2>2 DEF Told, ErrorOf, Chat
  <2>7. R.kind = "stream" => Leaves(c, "returned", r, Sent(c))
    BY <1>6, <1>8, <1>9, <2>1, <2>2, <2>6 DEF Leaves, R, V
  <2> QED
    BY <1>7, <2>4, <2>5, <2>7
<1> QED
  BY <1>11, <1>12, <1>13, <1>14, <1>15, <1>16 DEF Handler

\* Connection c gets a request r and takes or keeps the context x for it.
Arrives(c, x, r) ==
    /\ x \in Ctxs /\ Len(reqs) < Requests
    /\ at[c] \in {"closed", "idle"} /\ at' = [at EXCEPT ![c] = "handling"]
    /\ \/ at[c] = "idle" /\ x = ctx[c]
       \/ at[c] = "closed" /\ \A d \in Conns : ctx[d] # x
    /\ ctx' = [ctx EXCEPT ![c] = x]
    /\ values' = [values EXCEPT ![x] = [@ EXCEPT !.id = Len(reqs) + 1]]
    /\ r \in RequestType /\ reqs' = Append(reqs, r)
    /\ r.conn = c /\ r.ctx = x /\ r.fate = "open" /\ New(r) /\ r.status < 400
    /\ \A p \in r.answered : r.kind = "list" /\ p \in 1..Len(reqs) /\ reqs[p].fate = "answered"
    /\ UNCHANGED <<store, log>>

LEMMA Arrival ==
    ASSUME Typed, Owners, NEW c \in Conns, Len(reqs) < Requests,
           NEW kind \in Kinds[Len(reqs) + 1], Arrive(c, kind)
    PROVE  \E x, r : Arrives(c, x, r)
<1>1. kind \in AllKinds
  <2>1. Kinds \in Seq(SUBSET AllKinds)
    BY HttpAssumption DEF HttpAssumption, AllKinds
  <2>2. Len(reqs) + 1 \in 1..Len(Kinds)
    BY Constants DEF Typed, Requests
  <2> QED
    BY <2>1, <2>2
<1>2. PICK x \in IF at[c] = "idle" THEN {ctx[c]} ELSE Ctxs \ {ctx[d] : d \in Conns} :
          /\ ctx' = [ctx EXCEPT ![c] = x]
          /\ values' = [values EXCEPT ![x].id = Len(reqs) + 1]
          /\ reqs' = Append(reqs,
                 [conn |-> c, ctx |-> x, kind |-> kind, fate |-> "open",
                  status |-> 200, type |-> "", by |-> "", listed |-> <<>>, panicked |-> FALSE,
                  answered |-> {q \in DOMAIN reqs : kind = "list" /\ reqs[q].fate = "answered"},
                  writer |-> "none", sent |-> 0, read |-> 0])
  BY DEF Arrive
<1>3. x \in Ctxs /\ (\/ at[c] = "idle" /\ x = ctx[c]
                     \/ at[c] = "closed" /\ \A d \in Conns : ctx[d] # x)
  <2>1. at[c] \in {"closed", "idle"}
    BY DEF Arrive
  <2>2. CASE at[c] = "idle"
    <3>1. ctx[c] # NoCtx /\ ctx[c] \in Ctxs \cup {NoCtx}
      BY <2>2 DEF Typed, Owners
    <3> QED
      BY <1>2, <2>2, <3>1
  <2>3. CASE at[c] = "closed"
    BY <1>2, <2>3
  <2> QED
    BY <2>1, <2>2, <2>3
<1> DEFINE A == {q \in DOMAIN reqs : kind = "list" /\ reqs[q].fate = "answered"}
           r == [conn |-> c, ctx |-> x, kind |-> kind, fate |-> "open",
                 status |-> 200, type |-> "", by |-> "", listed |-> <<>>, panicked |-> FALSE,
                 answered |-> A, writer |-> "none", sent |-> 0, read |-> 0]
<1>4. /\ A \in SUBSET Nat
      /\ \A p \in A : kind = "list" /\ p \in 1..Len(reqs) /\ reqs[p].fate = "answered"
  BY DEF Typed
<1> HIDE DEF A
<1>5. <<>> \in Seq(Nat)
  OBVIOUS
<1>6. r \in RequestType
  BY <1>1, <1>3, <1>4, <1>5 DEF RequestType, ErrorTypes
<1>7. /\ r.conn = c /\ r.ctx = x /\ r.fate = "open" /\ New(r) /\ r.status < 400
      /\ r.kind = kind /\ r.answered = A
  BY DEF New
<1>8. reqs' = Append(reqs, r)
  BY <1>2 DEF A
<1> HIDE DEF r
<1>9. /\ at[c] \in {"closed", "idle"} /\ at' = [at EXCEPT ![c] = "handling"]
      /\ UNCHANGED <<store, log>>
  BY DEF Arrive
<1>10. values' = [values EXCEPT ![x] = [@ EXCEPT !.id = Len(reqs) + 1]]
  BY <1>2
<1>11. Arrives(c, x, r)
  BY <1>2, <1>3, <1>4, <1>6, <1>7, <1>8, <1>9, <1>10 DEF Arrives
<1> QED
  BY <1>11

LEMMA ArrivalFacts ==
    ASSUME Typed, NEW c \in Conns, NEW x, NEW r, Arrives(c, x, r)
    PROVE  /\ Typed'
           /\ Len(reqs) \in Nat /\ Len(reqs') = Len(reqs) + 1 /\ reqs'[Len(reqs) + 1] = r
           /\ \A p \in 1..Len(reqs) : reqs'[p] = reqs[p]
           /\ \A p \in 1..Len(reqs') : p \in 1..Len(reqs) \/ p = Len(reqs) + 1
           /\ Serving(c)' = Len(reqs) + 1
           /\ Latest(c, Serving(c))'
           /\ \A d : d # c => Serving(d)' = Serving(d)
           /\ \A d : d # c /\ Latest(d, Serving(d)) => Latest(d, Serving(d))'
<1> DEFINE n == Len(reqs) + 1
<1>1. r \in RequestType /\ reqs \in Seq(RequestType) /\ reqs' = Append(reqs, r) /\ r.conn = c
  BY DEF Arrives, Typed
<1>2. /\ Len(reqs) \in Nat /\ Len(reqs') = n /\ reqs'[n] = r /\ reqs' \in Seq(RequestType)
      /\ \A p \in 1..Len(reqs) : reqs'[p] = reqs[p]
  BY <1>1
<1>3. \A p \in 1..Len(reqs') : p \in 1..Len(reqs) \/ p = n
  BY <1>2
<1>4. at' \in [Conns -> {"closed", "idle"} \cup Busy] /\ ctx' \in [Conns -> Ctxs \cup {NoCtx}]
  BY DEF Arrives, Typed, Busy
<1>5. values' \in [Ctxs -> ValuesType]
  <2>1. n \in 0..Requests
    BY <1>2, Constants DEF Arrives
  <2>2. x \in Ctxs /\ values[x] \in ValuesType /\ values \in [Ctxs -> ValuesType]
    BY DEF Arrives, Typed
  <2>3. [values[x] EXCEPT !.id = n] \in ValuesType
    BY <2>1, <2>2 DEF ValuesType
  <2>4. values' = [values EXCEPT ![x] = [values[x] EXCEPT !.id = n]]
    BY DEF Arrives
  <2> HIDE DEF n
  <2> QED
    BY <2>2, <2>3, <2>4
<1>6. Typed'
  BY <1>2, <1>4, <1>5, Constants DEF Typed, Arrives
<1> HIDE DEF n
<1>7. \A d : d # c => Serving(d)' = Serving(d)
  <2> SUFFICES ASSUME NEW d, d # c
               PROVE  {p \in DOMAIN reqs' : reqs'[p].conn = d} = {p \in DOMAIN reqs : reqs[p].conn = d}
    BY DEF Serving
  <2>1. DOMAIN reqs' = 1..n /\ DOMAIN reqs = 1..Len(reqs)
    BY <1>1, <1>2
  <2>2. n \notin 1..Len(reqs) /\ \A p \in 1..Len(reqs) : p \in 1..n
    BY <1>2 DEF n
  <2> QED
    BY <1>1, <1>2, <1>3, <2>1, <2>2
<1>8. \A d : d # c /\ Latest(d, Serving(d)) => Latest(d, Serving(d))'
  BY <1>1, <1>2, <1>3, <1>7 DEF Latest
<1>9. \A p \in 1..Len(reqs') : p <= n
  BY <1>2
<1>10. n \in 1..Len(reqs')
  BY <1>2 DEF n
<1>11. Serving(c)' = n
  <2> DEFINE S == {p \in DOMAIN reqs' : reqs'[p].conn = c}
  <2>1. n \in S /\ \A p \in S : n >= p /\ p \in Nat
    BY <1>1, <1>2, <1>9, <1>10
  <2>2. \A m : m \in S /\ (\A p \in S : m >= p) => m = n
    BY <2>1
  <2> HIDE DEF S
  <2>3. Max(S) = n
    BY <2>1, <2>2 DEF Max
  <2> QED
    BY <2>3 DEF Serving, S
<1>12. Latest(c, Serving(c))'
  BY <1>1, <1>2, <1>9, <1>10, <1>11 DEF Latest
<1> QED
  BY <1>2, <1>3, <1>6, <1>7, <1>8, <1>11, <1>12 DEF n

\* The writer of request q, or the connection that reads from it, has changed
\* the body; the provider of its context may be stored.
Moves(q, r) ==
    /\ Changes(q, r)
    /\ reqs[q].writer # "none" \/ (\E c \in Conns : reqs[q].conn = c /\ at[c] = "writing" /\ q = Serving(c))
    /\ r.fate = reqs[q].fate /\ r.status = reqs[q].status /\ r.by = reqs[q].by
    /\ r.listed = reqs[q].listed /\ r.panicked = reqs[q].panicked
    /\ BodyOK(r)
    /\ UNCHANGED <<at, ctx, store, log>>
    /\ \/ values' = values
       \/ /\ reqs[q].writer = "running"
          /\ values' = [values EXCEPT ![reqs[q].ctx] = [@ EXCEPT !.provider = reqs[q].by]]

\* All but the body is as it was.
SameAnswer(r, s) ==
    /\ r \in RequestType
    /\ r.conn = s.conn /\ r.ctx = s.ctx /\ r.kind = s.kind /\ r.answered = s.answered
    /\ r.fate = s.fate /\ r.status = s.status /\ r.by = s.by
    /\ r.listed = s.listed /\ r.panicked = s.panicked

LEMMA BodyMoves ==
    ASSUME Typed, Owners, Bodies,
           \/ \E c \in Conns : RespondPiece(c)
           \/ \E q \in DOMAIN reqs : StreamBreaks(q) \/ WriterStep(q)
    PROVE  \E q, r : Moves(q, r)
<1>1. reqs \in Seq(RequestType) /\ DOMAIN reqs = 1..Len(reqs)
  BY DEF Typed
<1>2. ASSUME NEW c \in Conns, RespondPiece(c) PROVE \E q, r : Moves(q, r)
  <2> DEFINE q == Serving(c)
             n == reqs[q].read + 1
             r == [reqs[q] EXCEPT !.read = n]
  <2>1. q \in 1..Len(reqs) /\ reqs[q] \in RequestType /\ reqs[q].conn = c /\ BodyOK(reqs[q])
    BY <1>1, <1>2 DEF RespondPiece, Owners, Latest, Bodies
  <2>2. /\ at[c] = "writing" /\ reqs[q].read < reqs[q].sent
        /\ reqs' = [reqs EXCEPT ![q] = r] /\ UNCHANGED <<at, ctx, values, store, log>>
    BY <1>2 DEF RespondPiece
  <2> HIDE DEF q
  <2>3. /\ reqs[q].read \in Nat /\ reqs[q].sent \in Nat
        /\ reqs[q].fate \in {"open", "answered", "lost"}
    BY <2>1 DEF RequestType
  <2>4. n \in Nat
    BY <2>3
  <2> HIDE DEF n
  <2>5. /\ SameAnswer(r, reqs[q]) /\ r.read = n
        /\ r.sent = reqs[q].sent /\ r.writer = reqs[q].writer
    BY <2>1, <2>3, <2>4 DEF RequestType, SameAnswer
  <2> HIDE DEF r
  <2>6. BodyOK(r)
    BY <2>1, <2>2, <2>3, <2>4, <2>5, Constants DEF BodyOK, SameAnswer, n
  <2>7. Changes(q, r)
    BY <1>1, <2>1, <2>2, <2>5, ChangedRequest DEF SameAnswer
  <2>8. Moves(q, r)
    BY <2>1, <2>2, <2>5, <2>6, <2>7 DEF Moves, SameAnswer, q
  <2> QED
    BY <2>8
<1>3. ASSUME NEW q \in DOMAIN reqs, StreamBreaks(q) \/ WriterStep(q) PROVE \E r : Moves(q, r)
  <2>1. q \in 1..Len(reqs) /\ reqs[q] \in RequestType /\ BodyOK(reqs[q])
    BY <1>1 DEF Bodies
  <2> DEFINE R == reqs[q]
  <2>2. /\ R.read \in Nat /\ R.sent \in Nat /\ R.fate \in {"open", "answered", "lost"}
        /\ UNCHANGED <<at, ctx, store, log>>
    BY <1>3, <2>1 DEF RequestType, StreamBreaks, WriterStep, WriterCopies, WriterStores,
       WriterSendsDone, WriterEnds
  <2>3. ASSUME NEW r, reqs' = [reqs EXCEPT ![q] = r], SameAnswer(r, R), BodyOK(r),
               R.writer # "none",
               \/ values' = values
               \/ /\ R.writer = "running"
                  /\ values' = [values EXCEPT ![R.ctx] = [@ EXCEPT !.provider = R.by]]
        PROVE  \E r1 : Moves(q, r1)
    <3>1. Changes(q, r)
      BY <1>1, <2>1, <2>3, ChangedRequest DEF SameAnswer
    <3>2. Moves(q, r)
      BY <2>2, <2>3, <3>1 DEF Moves, SameAnswer
    <3> QED
      BY <3>2
  <2>4. CASE WriterCopies(q)
    <3> DEFINE n == R.sent + 1
               r == [R EXCEPT !.sent = n]
    <3>0. n \in Nat
      BY <2>2
    <3> HIDE DEF n
    <3>1. /\ SameAnswer(r, R) /\ r.sent = n /\ r.read = R.read /\ r.writer = R.writer
      BY <2>1, <2>2, <3>0 DEF RequestType, SameAnswer
    <3>2. /\ R.writer = "running" /\ R.sent < Chunks
          /\ R.fate = "lost" \/ R.sent - R.read < PipeCap
          /\ reqs' = [reqs EXCEPT ![q] = r] /\ values' = values
      BY <2>4 DEF WriterCopies, CanWrite, n
    <3> HIDE DEF r
    <3>3. BodyOK(r)
      BY <2>1, <2>2, <3>1, <3>2, Constants DEF BodyOK, SameAnswer, n
    <3> QED
      BY <2>3, <3>1, <3>2, <3>3
  <2>5. CASE StreamBreaks(q)
    <3> DEFINE r == [R EXCEPT !.writer = "broken"]
    <3>1. SameAnswer(r, R) /\ r.sent = R.sent /\ r.read = R.read /\ r.writer = "broken"
      BY <2>1, <2>2 DEF RequestType, SameAnswer
    <3>2. R.writer = "running" /\ reqs' = [reqs EXCEPT ![q] = r] /\ values' = values
      BY <2>5 DEF StreamBreaks
    <3> HIDE DEF r
    <3>3. BodyOK(r)
      BY <2>1, <2>2, <3>1, <3>2, Constants DEF BodyOK, SameAnswer
    <3> QED
      BY <2>3, <3>1, <3>2, <3>3
  <2>6. CASE WriterStores(q)
    <3> DEFINE r == [R EXCEPT !.writer = "storing"]
    <3>1. SameAnswer(r, R) /\ r.sent = R.sent /\ r.read = R.read /\ r.writer = "storing"
      BY <2>1, <2>2 DEF RequestType, SameAnswer
    <3>2. /\ R.writer = "running" /\ R.sent = Chunks /\ reqs' = [reqs EXCEPT ![q] = r]
          /\ values' = [values EXCEPT ![R.ctx] = [@ EXCEPT !.provider = R.by]]
      BY <2>6 DEF WriterStores
    <3> HIDE DEF r
    <3>3. BodyOK(r)
      BY <2>1, <2>2, <3>1, <3>2, Constants DEF BodyOK, SameAnswer
    <3> QED
      BY <2>3, <3>1, <3>2, <3>3
  <2>7. CASE WriterSendsDone(q)
    <3> DEFINE n == R.sent + 1
               r == [R EXCEPT !.writer = "done", !.sent = n]
    <3>0. n \in Nat
      BY <2>2
    <3> HIDE DEF n
    <3>1. SameAnswer(r, R) /\ r.sent = n /\ r.read = R.read /\ r.writer = "done"
      BY <2>1, <2>2, <3>0 DEF RequestType, SameAnswer
    <3>2. /\ R.writer = "storing"
          /\ R.fate = "lost" \/ R.sent - R.read < PipeCap
          /\ reqs' = [reqs EXCEPT ![q] = r] /\ values' = values
      BY <2>7 DEF WriterSendsDone, CanWrite, n
    <3> HIDE DEF r
    <3>3. BodyOK(r)
      BY <2>1, <2>2, <3>1, <3>2, Constants DEF BodyOK, SameAnswer, n
    <3> QED
      BY <2>3, <3>1, <3>2, <3>3
  <2>8. CASE WriterEnds(q)
    <3> DEFINE r == [R EXCEPT !.writer = "ended"]
    <3>1. SameAnswer(r, R) /\ r.sent = R.sent /\ r.read = R.read /\ r.writer = "ended"
      BY <2>1, <2>2 DEF RequestType, SameAnswer
    <3>2. R.writer \in {"done", "broken"} /\ reqs' = [reqs EXCEPT ![q] = r] /\ values' = values
      BY <2>8 DEF WriterEnds
    <3> HIDE DEF r
    <3>3. BodyOK(r)
      BY <2>1, <2>2, <3>1, <3>2, Constants DEF BodyOK, SameAnswer
    <3> QED
      BY <2>3, <3>1, <3>2, <3>3
  <2> QED
    BY <1>3, <2>4, <2>5, <2>6, <2>7, <2>8 DEF WriterStep
<1> QED
  BY <1>1, <1>2, <1>3

\* Connection c has answered its request or lost its client, or closes.
Ends(c, to) ==
    /\ to \in {"idle", "closed"}
    /\ at' = [at EXCEPT ![c] = to]
    /\ values' = [values EXCEPT ![ctx[c]] = Unset]
    /\ ctx' = IF to = "closed" THEN [ctx EXCEPT ![c] = NoCtx] ELSE ctx
    /\ UNCHANGED <<store, log>>
    /\ \/ at[c] = "idle" /\ to = "closed" /\ reqs' = reqs
       \/ /\ at[c] = "writing"
          /\ \E r \in RequestType :
              /\ Changes(Serving(c), r)
              /\ r = [Request(c) EXCEPT !.fate = IF to = "idle" THEN "answered" ELSE "lost"]
              /\ BodyOK(r)

LEMMA ConnectionEnds ==
    ASSUME Typed, Owners, Bodies, NEW c \in Conns, RespondEnds(c) \/ ClientLost(c) \/ Close(c)
    PROVE  \E to : Ends(c, to)
<1>1. CASE Close(c)
  <2>1. Ends(c, "closed")
    BY <1>1 DEF Close, Release, Clear, Ends
  <2> QED
    BY <2>1
<1>2. ASSUME NEW to \in {"idle", "closed"}, at[c] = "writing",
             to = "idle" => Whole(Serving(c)),
             at' = [at EXCEPT ![c] = to], values' = [values EXCEPT ![ctx[c]] = Unset],
             ctx' = IF to = "closed" THEN [ctx EXCEPT ![c] = NoCtx] ELSE ctx,
             UNCHANGED <<store, log>>,
             reqs' = [reqs EXCEPT ![Serving(c)] = [@ EXCEPT !.fate = IF to = "idle" THEN "answered" ELSE "lost"]]
      PROVE  Ends(c, to)
  <2> DEFINE q == Serving(c)
             f == IF to = "idle" THEN "answered" ELSE "lost"
             r == [reqs[q] EXCEPT !.fate = f]
  <2>1. /\ reqs \in Seq(RequestType) /\ q \in 1..Len(reqs) /\ reqs[q] \in RequestType
        /\ BodyOK(reqs[q]) /\ reqs[q].fate = "open"
    BY <1>2 DEF Typed, Owners, Latest, Bodies, Request
  <2>2. f \in {"answered", "lost"} /\ (f = "answered" => Whole(q))
    BY <1>2
  <2> HIDE DEF q, f
  <2>3. /\ r \in RequestType /\ r.conn = reqs[q].conn /\ r.ctx = reqs[q].ctx
        /\ r.kind = reqs[q].kind /\ r.answered = reqs[q].answered
        /\ r.sent = reqs[q].sent /\ r.read = reqs[q].read /\ r.writer = reqs[q].writer
        /\ r.fate = f
    BY <2>1, <2>2 DEF RequestType
  <2>4. Changes(q, r)
    BY <1>2, <2>1, <2>3, ChangedRequest DEF q, f
  <2>5. BodyOK(r)
    <3> HIDE DEF r
    <3> QED
      BY <2>1, <2>2, <2>3 DEF BodyOK, Whole
  <2> QED
    BY <1>2, <2>3, <2>4, <2>5 DEF Ends, q, f, Request
<1>3. CASE RespondEnds(c)
  <2>1. Ends(c, "idle")
    BY <1>2, <1>3 DEF RespondEnds, Clear
  <2> QED
    BY <2>1
<1>4. CASE ClientLost(c)
  <2>1. Ends(c, "closed")
    BY <1>2, <1>4 DEF ClientLost, Release, Clear
  <2> QED
    BY <2>1
<1> QED
  BY <1>1, <1>3, <1>4

\* The store after the summary s: s is its last, and what is dropped its first.
LEMMA AddFacts ==
    ASSUME store \in Seq(SummaryType), Len(store) <= Capacity, NEW s \in SummaryType
    PROVE  LET new == Add(store, s)
               drop == IF Len(store) >= Capacity THEN 1 ELSE 0
           IN  /\ new \in Seq(SummaryType)
               /\ Len(new) = Len(store) + 1 - drop /\ Len(store) \in Nat
               /\ new[Len(new)] = s
               /\ \A i \in 1..(Len(new) - 1) : i + drop \in 1..Len(store) /\ new[i] = store[i + drop]
<1>1. Len(store) \in Nat /\ Capacity \in Nat \ {0}
  BY Constants
<1>2. CASE Len(store) >= Capacity
  <2>1. store # <<>> /\ Len(store) >= 1
    BY <1>1, <1>2
  <2>2. /\ Tail(store) \in Seq(SummaryType) /\ Len(Tail(store)) = Len(store) - 1
        /\ \A i \in 1..(Len(store) - 1) : Tail(store)[i] = store[i + 1]
    BY <2>1
  <2>3. Add(store, s) = Append(Tail(store), s)
    BY <1>2 DEF Add
  <2> DEFINE t == Tail(store)
  <2> HIDE DEF t
  <2>4. /\ Append(t, s) \in Seq(SummaryType) /\ Len(Append(t, s)) = Len(t) + 1
        /\ Append(t, s)[Len(t) + 1] = s
        /\ \A i \in 1..Len(t) : Append(t, s)[i] = t[i]
    BY <2>2 DEF t
  <2>5. Len(t) = Len(store) - 1 /\ \A i \in 1..Len(t) : t[i] = store[i + 1] /\ i + 1 \in 1..Len(store)
    BY <1>1, <2>2 DEF t
  <2> QED
    BY <1>1, <1>2, <2>1, <2>3, <2>4, <2>5 DEF t
<1>3. CASE ~(Len(store) >= Capacity)
  BY <1>1, <1>3 DEF Add
<1> QED
  BY <1>2, <1>3

\* The summary of the request of connection c is the next one.
Summarises(c, s) ==
    /\ at[c] = "returned" /\ at' = [at EXCEPT ![c] = "writing"]
    /\ s \in SummaryType /\ s.id = Values(c).id /\ s.key = Values(c).key
    /\ s.stream = Values(c).stream /\ s.provider = Values(c).provider
    /\ s.error = Values(c).error /\ s.status = Request(c).status
    /\ store' = Add(store, s) /\ log' = Append(log, Serving(c))
    /\ UNCHANGED <<ctx, values, reqs>>

LEMMA Summary ==
    ASSUME Typed, Owners, NEW c \in Conns, DebugSummary(c)
    PROVE  \E s : Summarises(c, s)
<1> DEFINE v == Values(c)
           s == [id |-> v.id, key |-> v.key, stream |-> v.stream, provider |-> v.provider,
                 error |-> v.error, status |-> Request(c).status]
<1>1. at[c] = "returned"
  BY DEF DebugSummary
<1>2. v \in ValuesType /\ Request(c) \in RequestType
  BY <1>1 DEF Typed, Owners, Values, Request, Latest
<1>3. v.id \in Nat
  <2>1. v.id \in 0..Requests
    BY <1>2 DEF ValuesType
  <2> QED
    BY <2>1, Constants
<1>4. s \in SummaryType
  BY <1>2, <1>3 DEF SummaryType, ValuesType, RequestType
<1>5. store' = Add(store, s)
  BY DEF DebugSummary
<1> HIDE DEF v
<1>6. /\ s.id = v.id /\ s.key = v.key /\ s.stream = v.stream /\ s.provider = v.provider
      /\ s.error = v.error /\ s.status = Request(c).status
  OBVIOUS
<1> HIDE DEF s
<1>7. Summarises(c, s)
  BY <1>1, <1>4, <1>5, <1>6 DEF DebugSummary, Summarises, v
<1> QED
  BY <1>7

-----------------------------------------------------------------------------
(* Types *)

LEMMA UnsetType == Unset \in ValuesType /\ Clean(Unset) /\ Unset.provider = ""
<1>1. 0 \in 0..Requests
  BY Constants
<1> QED
  BY <1>1 DEF Unset, ValuesType, Keys, Clean

LEMMA TypedInit == Init => Typed
<1> SUFFICES ASSUME Init PROVE Typed
  OBVIOUS
<1>1. /\ at \in [Conns -> {"closed", "idle"} \cup Busy]
      /\ ctx \in [Conns -> Ctxs \cup {NoCtx}]
  BY DEF Init
<1>2. values \in [Ctxs -> ValuesType]
  BY UnsetType DEF Init
<1>3. reqs \in Seq(RequestType) /\ store \in Seq(SummaryType) /\ log \in Seq(Nat) /\ Len(reqs) = 0
  BY DEF Init
<1> QED
  BY <1>1, <1>2, <1>3, Constants DEF Typed

LEMMA TypedAnswers ==
    ASSUME Typed, NEW c \in Conns, NEW to, NEW r, NEW v, Answers(c, to, r, v)
    PROVE  Typed'
<1>1. values' \in [Ctxs -> ValuesType]
  BY DEF Answers, Typed
<1>2. at' \in [Conns -> {"closed", "idle"} \cup Busy]
  BY DEF Answers, Typed, Busy
<1> QED
  BY <1>1, <1>2 DEF Answers, Changes, Typed

LEMMA TypedSummarises ==
    ASSUME Typed, Owners, Logged, NEW c \in Conns, NEW s, Summarises(c, s)
    PROVE  Typed'
<1>1. Serving(c) \in Nat /\ log' \in Seq(Nat)
  BY DEF Summarises, Owners, Latest, Typed
<1>2. at' \in [Conns -> {"closed", "idle"} \cup Busy]
  BY DEF Summarises, Typed, Busy
<1>3. store' \in Seq(SummaryType)
  BY AddFacts DEF Summarises, Typed, Logged
<1> QED
  BY <1>1, <1>2, <1>3 DEF Summarises, Typed

LEMMA TypedMoves ==
    ASSUME Typed, NEW q, NEW r, Moves(q, r)
    PROVE  Typed'
<1>1. values' \in [Ctxs -> ValuesType]
  <2> DEFINE x == reqs[q].ctx
             p == reqs[q].by
  <2>1. reqs[q] \in RequestType
    BY DEF Moves, Changes, Typed
  <2>2. x \in Ctxs /\ p \in Providers \cup {""}
    BY <2>1 DEF RequestType
  <2> HIDE DEF x, p
  <2>3. [values[x] EXCEPT !.provider = p] \in ValuesType
    BY <2>2 DEF Typed, ValuesType
  <2>4. values' = values \/ values' = [values EXCEPT ![x] = [values[x] EXCEPT !.provider = p]]
    BY DEF Moves, x, p
  <2> QED
    BY <2>2, <2>3, <2>4 DEF Typed
<1> QED
  BY <1>1 DEF Moves, Changes, Typed

LEMMA TypedEnds ==
    ASSUME Typed, NEW c \in Conns, NEW to, Ends(c, to)
    PROVE  Typed'
<1>1. values' \in [Ctxs -> ValuesType]
  BY UnsetType DEF Ends, Typed
<1>2. at' \in [Conns -> {"closed", "idle"} \cup Busy] /\ ctx' \in [Conns -> Ctxs \cup {NoCtx}]
  BY DEF Ends, Typed
<1>3. reqs' \in Seq(RequestType) /\ Len(reqs') = Len(reqs)
  BY DEF Ends, Typed, Changes
<1> QED
  BY <1>1, <1>2, <1>3 DEF Ends, Typed

-----------------------------------------------------------------------------
(* Connections and bodies *)

LEMMA OpenConnection ==
    ASSUME Typed, Owners, NEW c \in Conns, at[c] # "closed"
    PROVE  /\ Serving(c) \in 1..Len(reqs) /\ Request(c) \in RequestType /\ Request(c).conn = c
           /\ Request(c).ctx = ctx[c] /\ ctx[c] \in Ctxs
           /\ \A d \in Conns : d # c => Serving(d) # Serving(c) \/ at[d] = "closed"
           /\ \A d \in Conns : d # c => ctx[d] # ctx[c]
<1>1. /\ Serving(c) \in 1..Len(reqs) /\ Request(c) \in RequestType /\ Request(c).conn = c
      /\ Request(c).ctx = ctx[c] /\ ctx[c] \in Ctxs
  BY DEF Typed, Owners, Latest, Request, NoCtx
<1>2. \A d \in Conns : d # c => Serving(d) # Serving(c) \/ at[d] = "closed"
  BY <1>1 DEF Owners, Latest, Request
<1>3. \A d \in Conns : d # c => ctx[d] # ctx[c]
  BY <1>1, Constants DEF Owners
<1> QED
  BY <1>1, <1>2, <1>3

\* A step that changes the request that connection c serves changes that of no
\* other connection.
LEMMA OwnChange ==
    ASSUME Typed, Owners, NEW c \in Conns, at[c] # "closed", NEW r, Changes(Serving(c), r)
    PROVE  /\ Request(c)' = r
           /\ \A d \in Conns : Serving(d)' = Serving(d)
           /\ \A d \in Conns : d # c /\ at[d] # "closed" => Request(d)' = Request(d)
           /\ \A d \in Conns : Latest(d, Serving(d)) => Latest(d, Serving(d))'
<1>1. reqs \in Seq(RequestType)
  BY DEF Typed
<1>2. /\ \A d : Serving(d)' = Serving(d)
      /\ \A d : Latest(d, Serving(d)) => Latest(d, Serving(d))'
  BY <1>1, ChangeFacts
<1>3. Request(c)' = r
  BY <1>2 DEF Request, Changes
<1>4. ASSUME NEW d \in Conns, d # c, at[d] # "closed" PROVE Request(d)' = Request(d)
  <2>1. Serving(d) # Serving(c) /\ Serving(d) \in 1..Len(reqs)
    BY <1>4, OpenConnection
  <2> QED
    BY <1>2, <2>1 DEF Request, Changes
<1> QED
  BY <1>2, <1>3, <1>4

LEMMA OwnersAnswers ==
    ASSUME Typed, Owners, NEW c \in Conns, NEW to, NEW r, NEW v, Answers(c, to, r, v)
    PROVE  Owners'
<1>1. /\ at[c] = "handling" /\ to \in {"returned", "writing"} /\ at' = [at EXCEPT ![c] = to]
      /\ Changes(Serving(c), r) /\ ctx' = ctx /\ r.fate = "open"
  BY DEF Answers
<1>2. /\ Request(c)' = r /\ \A d \in Conns : Serving(d)' = Serving(d)
      /\ \A d \in Conns : d # c /\ at[d] # "closed" => Request(d)' = Request(d)
      /\ \A d \in Conns : Latest(d, Serving(d)) => Latest(d, Serving(d))'
  BY <1>1, OwnChange
<1>3. \A d \in Conns : at'[d] = IF d = c THEN to ELSE at[d]
  BY <1>1 DEF Typed
<1>4. \A d \in Conns : at'[d] = "closed" <=> at[d] = "closed"
  BY <1>1, <1>3
<1>5. \A d \in Conns : at'[d] # "closed" =>
        /\ Latest(d, Serving(d))'
        /\ Request(d)'.ctx = ctx'[d]
        /\ Request(d)'.fate = IF at'[d] = "idle" THEN "answered" ELSE "open"
  <2> SUFFICES ASSUME NEW d \in Conns, at'[d] # "closed"
               PROVE  /\ Latest(d, Serving(d))'
                      /\ Request(d)'.ctx = ctx'[d]
                      /\ Request(d)'.fate = IF at'[d] = "idle" THEN "answered" ELSE "open"
    OBVIOUS
  <2>1. /\ at[d] # "closed" /\ Latest(d, Serving(d)) /\ Request(d).ctx = ctx[d]
        /\ Request(d).fate = IF at[d] = "idle" THEN "answered" ELSE "open"
    BY <1>4 DEF Owners
  <2>2. Latest(d, Serving(d))'
    BY <1>2, <2>1
  <2>3. CASE d = c
    BY <1>1, <1>2, <1>3, <2>1, <2>2, <2>3 DEF Changes, Request
  <2>4. CASE d # c
    BY <1>1, <1>2, <1>3, <2>1, <2>2, <2>4
  <2> QED
    BY <2>3, <2>4
<1>6. \A d \in Conns, q \in 1..Len(reqs') :
        reqs'[q].fate = "open" /\ reqs'[q].conn = d => at'[d] \in Busy /\ q = Serving(d)'
  <2> SUFFICES ASSUME NEW d \in Conns, NEW q \in 1..Len(reqs'),
                      reqs'[q].fate = "open", reqs'[q].conn = d
               PROVE  at'[d] \in Busy /\ q = Serving(d)'
    OBVIOUS
  <2>1. q \in 1..Len(reqs) /\ reqs[q].conn = d
    BY <1>1 DEF Changes
  <2>2. reqs[q].fate = "open"
    BY <1>1, <2>1 DEF Changes, Owners, Request, Busy
  <2>3. at[d] \in Busy /\ q = Serving(d)
    BY <2>1, <2>2 DEF Owners
  <2> QED
    BY <1>1, <1>2, <1>3, <2>3 DEF Busy
<1> QED
  BY <1>1, <1>4, <1>5, <1>6 DEF Owners

LEMMA OwnersSummarises ==
    ASSUME Typed, Owners, NEW c \in Conns, NEW s, Summarises(c, s)
    PROVE  Owners'
<1>1. \A d \in Conns : at'[d] = IF d = c THEN "writing" ELSE at[d]
  BY DEF Summarises, Typed
<1>2. /\ at[c] = "returned" /\ ctx' = ctx /\ reqs' = reqs
      /\ \A d \in Conns : Request(d)' = Request(d) /\ Serving(d)' = Serving(d)
      /\ \A d \in Conns : Latest(d, Serving(d)) => Latest(d, Serving(d))'
  BY DEF Summarises, Request, Serving, Latest
<1>3. \A d \in Conns : at'[d] = "closed" <=> at[d] = "closed"
  BY <1>1, <1>2
<1>4. \A d \in Conns : at'[d] = "idle" <=> at[d] = "idle"
  BY <1>1, <1>2
<1>5. \A d \in Conns : at[d] \in Busy => at'[d] \in Busy
  BY <1>1 DEF Busy
<1> QED
  BY <1>2, <1>3, <1>4, <1>5 DEF Owners

LEMMA OwnersMoves ==
    ASSUME Typed, Owners, NEW q, NEW r, Moves(q, r)
    PROVE  Owners'
<1>1. /\ at' = at /\ ctx' = ctx /\ Changes(q, r) /\ r.fate = reqs[q].fate
      /\ reqs \in Seq(RequestType)
  BY DEF Moves, Typed
<1>2. /\ \A p \in 1..Len(reqs) : reqs'[p].conn = reqs[p].conn /\ reqs'[p].ctx = reqs[p].ctx
      /\ \A d : Serving(d)' = Serving(d)
      /\ \A d : Latest(d, Serving(d)) => Latest(d, Serving(d))'
  BY <1>1, ChangeFacts
<1>3. \A p \in 1..Len(reqs) : reqs'[p].fate = reqs[p].fate
  BY <1>1 DEF Changes
<1>4. ASSUME NEW d \in Conns, at[d] # "closed"
      PROVE  /\ Latest(d, Serving(d))'
             /\ Request(d)'.ctx = ctx[d]
             /\ Request(d)'.fate = IF at[d] = "idle" THEN "answered" ELSE "open"
  <2>1. Serving(d) \in 1..Len(reqs)
    BY <1>4 DEF Owners, Latest
  <2>2. Request(d)'.ctx = Request(d).ctx /\ Request(d)'.fate = Request(d).fate
    BY <1>2, <1>3, <2>1 DEF Request
  <2> QED
    BY <1>2, <1>4, <2>2 DEF Owners
<1>5. Len(reqs') = Len(reqs)
  BY <1>1 DEF Changes
<1> QED
  BY <1>1, <1>2, <1>3, <1>4, <1>5 DEF Owners

\* All but what became of the request is as it was.
SameBody(r, s) ==
    /\ r.conn = s.conn /\ r.ctx = s.ctx /\ r.kind = s.kind /\ r.answered = s.answered
    /\ r.status = s.status /\ r.by = s.by /\ r.listed = s.listed /\ r.panicked = s.panicked
    /\ r.writer = s.writer /\ r.sent = s.sent /\ r.read = s.read

LEMMA EndsFacts ==
    ASSUME Typed, Owners, NEW c \in Conns, NEW to, Ends(c, to)
    PROVE  /\ to \in {"idle", "closed"}
           /\ (at[c] = "idle" /\ to = "closed" /\ reqs' = reqs)
              \/ (at[c] = "writing" /\ BodyOK(reqs'[Serving(c)])
                  /\ reqs'[Serving(c)].fate = IF to = "idle" THEN "answered" ELSE "lost")
           /\ \A d \in Conns : at'[d] = IF d = c THEN to ELSE at[d]
           /\ \A d \in Conns : ctx'[d] = IF d = c /\ to = "closed" THEN NoCtx ELSE ctx[d]
           /\ \A x \in Ctxs : values'[x] = IF x = ctx[c] THEN Unset ELSE values[x]
           /\ store' = store /\ log' = log
           /\ Len(reqs') = Len(reqs)
           /\ \A p \in 1..Len(reqs) : /\ SameBody(reqs'[p], reqs[p])
                                      /\ p # Serving(c) => reqs'[p] = reqs[p]
           /\ \A d \in Conns : Serving(d)' = Serving(d)
           /\ \A d \in Conns : d # c /\ at[d] # "closed" => Request(d)' = Request(d)
           /\ \A d \in Conns : Latest(d, Serving(d)) => Latest(d, Serving(d))'
<1>1. /\ to \in {"idle", "closed"} /\ at[c] # "closed" /\ store' = store /\ log' = log
      /\ \A d \in Conns : at'[d] = IF d = c THEN to ELSE at[d]
      /\ \A d \in Conns : ctx'[d] = IF d = c /\ to = "closed" THEN NoCtx ELSE ctx[d]
  BY DEF Ends, Typed
<1>2. \A x \in Ctxs : values'[x] = IF x = ctx[c] THEN Unset ELSE values[x]
  BY DEF Ends, Typed
<1>3. CASE reqs' = reqs /\ at[c] = "idle" /\ to = "closed"
  <2>1. \A p \in 1..Len(reqs) : SameBody(reqs'[p], reqs[p])
    BY <1>3 DEF SameBody
  <2>2. \A d \in Conns : /\ Serving(d)' = Serving(d) /\ Request(d)' = Request(d)
                         /\ Latest(d, Serving(d)) => Latest(d, Serving(d))'
    BY <1>3 DEF Serving, Request, Latest
  <2> QED
    BY <1>1, <1>2, <1>3, <2>1, <2>2
<1>4. ASSUME at[c] = "writing",
             NEW r \in RequestType, Changes(Serving(c), r), BodyOK(r),
             r = [Request(c) EXCEPT !.fate = IF to = "idle" THEN "answered" ELSE "lost"]
      PROVE  /\ BodyOK(reqs'[Serving(c)])
             /\ reqs'[Serving(c)].fate = IF to = "idle" THEN "answered" ELSE "lost"
             /\ Len(reqs') = Len(reqs)
             /\ \A p \in 1..Len(reqs) : /\ SameBody(reqs'[p], reqs[p])
                                        /\ p # Serving(c) => reqs'[p] = reqs[p]
             /\ \A d \in Conns : Serving(d)' = Serving(d)
             /\ \A d \in Conns : d # c /\ at[d] # "closed" => Request(d)' = Request(d)
             /\ \A d \in Conns : Latest(d, Serving(d)) => Latest(d, Serving(d))'
  <2> DEFINE f == IF to = "idle" THEN "answered" ELSE "lost"
  <2>1. Request(c) \in RequestType
    BY <1>1, OpenConnection
  <2>2. r.fate = f /\ SameBody(r, Request(c))
    BY <1>4, <2>1 DEF RequestType, SameBody
  <2> HIDE DEF f
  <2>3. /\ reqs'[Serving(c)] = r /\ Len(reqs') = Len(reqs)
        /\ \A p \in 1..Len(reqs) : p # Serving(c) => reqs'[p] = reqs[p]
    BY <1>4 DEF Changes
  <2>4. \A p \in 1..Len(reqs) : SameBody(reqs'[p], reqs[p])
    BY <2>2, <2>3 DEF SameBody, Request
  <2>5. /\ \A d \in Conns : Serving(d)' = Serving(d)
        /\ \A d \in Conns : d # c /\ at[d] # "closed" => Request(d)' = Request(d)
        /\ \A d \in Conns : Latest(d, Serving(d)) => Latest(d, Serving(d))'
    BY <1>1, <1>4, OwnChange
  <2> QED
    BY <1>4, <2>2, <2>3, <2>4, <2>5 DEF f
<1>5. \/ reqs' = reqs /\ at[c] = "idle" /\ to = "closed"
      \/ at[c] = "writing" /\ \E r \in RequestType :
            /\ Changes(Serving(c), r) /\ BodyOK(r)
            /\ r = [Request(c) EXCEPT !.fate = IF to = "idle" THEN "answered" ELSE "lost"]
  BY DEF Ends
<1> QED
  BY <1>1, <1>2, <1>3, <1>4, <1>5

LEMMA OwnersEnds ==
    ASSUME Typed, Owners, NEW c \in Conns, NEW to, Ends(c, to)
    PROVE  Owners'
<1> DEFINE f == IF to = "idle" THEN "answered" ELSE "lost"
<1>1. /\ to \in {"idle", "closed"} /\ at[c] \in {"idle", "writing"}
      /\ \A d \in Conns : at'[d] = IF d = c THEN to ELSE at[d]
      /\ \A d \in Conns : ctx'[d] = IF d = c /\ to = "closed" THEN NoCtx ELSE ctx[d]
      /\ Len(reqs') = Len(reqs)
      /\ \A d \in Conns : Serving(d)' = Serving(d)
      /\ \A d \in Conns : d # c /\ at[d] # "closed" => Request(d)' = Request(d)
      /\ \A d \in Conns : Latest(d, Serving(d)) => Latest(d, Serving(d))'
  BY EndsFacts
<1>2. \A p \in 1..Len(reqs) : /\ reqs'[p].conn = reqs[p].conn /\ reqs'[p].ctx = reqs[p].ctx
                              /\ p # Serving(c) => reqs'[p] = reqs[p]
  BY EndsFacts DEF SameBody
<1>3. Serving(c) \in 1..Len(reqs) /\ Request(c).conn = c
  BY <1>1, OpenConnection
<1>4. reqs'[Serving(c)].fate # "open" /\ (to = "idle" => reqs'[Serving(c)].fate = "answered")
  BY <1>1, EndsFacts DEF Owners, Request
<1>5. \A d \in Conns : at'[d] = "closed" <=> ctx'[d] = NoCtx
  BY <1>1, Constants DEF Owners
<1>6. \A d, e \in Conns : d # e /\ ctx'[d] = ctx'[e] => ctx'[d] = NoCtx
  BY <1>1 DEF Owners
<1>7. ASSUME NEW d \in Conns, at'[d] # "closed"
      PROVE  /\ Latest(d, Serving(d))'
             /\ Request(d)'.ctx = ctx'[d]
             /\ Request(d)'.fate = IF at'[d] = "idle" THEN "answered" ELSE "open"
  <2>1. /\ at[d] # "closed" /\ Latest(d, Serving(d)) /\ Request(d).ctx = ctx[d]
        /\ Request(d).fate = IF at[d] = "idle" THEN "answered" ELSE "open"
    BY <1>1, <1>7 DEF Owners
  <2>2. CASE d = c
    BY <1>1, <1>2, <1>3, <1>4, <1>7, <2>1, <2>2 DEF Request
  <2>3. CASE d # c
    BY <1>1, <1>7, <2>1, <2>3
  <2> QED
    BY <2>2, <2>3
<1>8. ASSUME NEW d \in Conns, NEW q \in 1..Len(reqs'), reqs'[q].fate = "open", reqs'[q].conn = d
      PROVE  at'[d] \in Busy /\ q = Serving(d)'
  <2>1. q \in 1..Len(reqs) /\ q # Serving(c) /\ reqs'[q] = reqs[q]
    BY <1>1, <1>2, <1>4, <1>8
  <2>2. at[d] \in Busy /\ q = Serving(d)
    BY <1>8, <2>1 DEF Owners
  <2> QED
    BY <1>1, <2>1, <2>2
<1> QED
  BY <1>5, <1>6, <1>7, <1>8 DEF Owners

LEMMA OwnersArrives ==
    ASSUME Typed, Owners, NEW c \in Conns, NEW x, NEW r, Arrives(c, x, r)
    PROVE  Owners'
<1> DEFINE n == Len(reqs) + 1
<1>1. /\ Len(reqs) \in Nat /\ Len(reqs') = n /\ reqs'[n] = r
      /\ \A p \in 1..Len(reqs) : reqs'[p] = reqs[p]
      /\ \A p \in 1..Len(reqs') : p \in 1..Len(reqs) \/ p = n
      /\ Serving(c)' = n
      /\ Latest(c, Serving(c))'
      /\ \A d : d # c => Serving(d)' = Serving(d)
      /\ \A d : d # c /\ Latest(d, Serving(d)) => Latest(d, Serving(d))'
  BY ArrivalFacts
<1> HIDE DEF n
<1>2. /\ x \in Ctxs /\ at[c] \in {"closed", "idle"} /\ r.conn = c /\ r.ctx = x /\ r.fate = "open"
      /\ (at[c] = "idle" /\ x = ctx[c]) \/ \A d \in Conns : ctx[d] # x
      /\ \A d \in Conns : at'[d] = IF d = c THEN "handling" ELSE at[d]
      /\ \A d \in Conns : ctx'[d] = IF d = c THEN x ELSE ctx[d]
  BY DEF Arrives, Typed
<1>3. \A d \in Conns : d # c => ctx[d] # x
  BY <1>2, OpenConnection
<1>4. \A d \in Conns : at'[d] = "closed" <=> ctx'[d] = NoCtx
  BY <1>2, Constants DEF Owners
<1>5. \A d, e \in Conns : d # e /\ ctx'[d] = ctx'[e] => ctx'[d] = NoCtx
  BY <1>2, <1>3 DEF Owners
<1>6. ASSUME NEW d \in Conns, at'[d] # "closed"
      PROVE  /\ Latest(d, Serving(d))'
             /\ Request(d)'.ctx = ctx'[d]
             /\ Request(d)'.fate = IF at'[d] = "idle" THEN "answered" ELSE "open"
  <2>1. CASE d = c
    BY <1>1, <1>2, <2>1 DEF Request
  <2>2. CASE d # c
    <3>1. /\ at[d] # "closed" /\ Latest(d, Serving(d)) /\ Request(d).ctx = ctx[d]
          /\ Request(d).fate = IF at[d] = "idle" THEN "answered" ELSE "open"
      BY <1>2, <1>6, <2>2 DEF Owners
    <3>2. Request(d)' = Request(d)
      BY <1>1, <2>2, <3>1 DEF Request, Latest
    <3> QED
      BY <1>1, <1>2, <2>2, <3>1, <3>2
  <2> QED
    BY <2>1, <2>2
<1>7. ASSUME NEW d \in Conns, NEW q \in 1..Len(reqs'), reqs'[q].fate = "open", reqs'[q].conn = d
      PROVE  at'[d] \in Busy /\ q = Serving(d)'
  <2>1. CASE q = n
    BY <1>1, <1>2, <1>7, <2>1 DEF Busy
  <2>2. CASE q \in 1..Len(reqs)
    <3>1. at[d] \in Busy /\ q = Serving(d)
      BY <1>1, <1>7, <2>2 DEF Owners
    <3>2. d # c
      BY <1>2, <3>1 DEF Busy
    <3> QED
      BY <1>1, <1>2, <3>1, <3>2
  <2> QED
    BY <1>1, <2>1, <2>2
<1> QED
  BY <1>4, <1>5, <1>6, <1>7 DEF Owners

-----------------------------------------------------------------------------

LEMMA BodiesKept ==
    ASSUME Typed, Owners, Bodies, NEW c \in Conns,
           \/ \E to, r, v : Answers(c, to, r, v)
           \/ \E s : Summarises(c, s)
           \/ \E to : Ends(c, to)
           \/ \E x, r : Arrives(c, x, r)
           \/ \E q, r : Moves(q, r)
    PROVE  Bodies'
<1>1. ASSUME NEW to, NEW r, NEW v, Answers(c, to, r, v) PROVE Bodies'
  <2>1. BodyOK(r)
    BY <1>1, Constants DEF Answers, BodyOK
  <2> QED
    BY <1>1, <2>1 DEF Answers, Changes, Bodies
<1>2. ASSUME NEW s, Summarises(c, s) PROVE Bodies'
  BY <1>2 DEF Summarises, Bodies
<1>3. ASSUME NEW to, Ends(c, to) PROVE Bodies'
  BY <1>3 DEF Ends, Changes, Bodies
<1>4. ASSUME NEW x, NEW r, Arrives(c, x, r) PROVE Bodies'
  <2>1. r.fate = "open" /\ r.writer = "none" /\ r.sent = 0 /\ r.read = 0
    BY <1>4 DEF Arrives, New
  <2>2. BodyOK(r)
    BY <2>1, Constants DEF BodyOK
  <2> QED
    BY <1>4, <2>2, ArrivalFacts DEF Bodies
<1>5. ASSUME NEW q, NEW r, Moves(q, r) PROVE Bodies'
  BY <1>5 DEF Moves, Changes, Bodies
<1> QED
  BY <1>1, <1>2, <1>3, <1>4, <1>5

-----------------------------------------------------------------------------
(* The log and the store *)

LEMMA ToSetLog ==
    ASSUME log \in Seq(Nat), NEW q
    PROVE  q \in ToSet(log) <=> \E i \in 1..Len(log) : log[i] = q
BY DEF ToSet

\* A summary is added to the log and to the store alike.
LEMMA LogGrows ==
    ASSUME Typed, Owners, Logged, Phases, NEW c \in Conns, NEW s, Summarises(c, s)
    PROVE  /\ Len(log) \in Nat /\ log' \in Seq(Nat) /\ Len(log') = Len(log) + 1
           /\ log'[Len(log) + 1] = Serving(c) /\ s.id = Serving(c)
           /\ \A i \in 1..Len(log) : log'[i] = log[i]
           /\ Serving(c) \in 1..Len(reqs) /\ Serving(c) \notin ToSet(log)
<1>1. at[c] = "returned" /\ s.id = Values(c).id /\ log' = Append(log, Serving(c))
  BY DEF Summarises
<1>2. Serving(c) \in 1..Len(reqs) /\ Serving(c) \in Nat
  BY <1>1, OpenConnection
<1>3. log \in Seq(Nat)
  BY DEF Typed
<1> QED
  BY <1>1, <1>2, <1>3 DEF Phases, Phase

LEMMA LoggedSummarises ==
    ASSUME Typed, Owners, Logged, Phases, NEW c \in Conns, NEW s, Summarises(c, s)
    PROVE  Logged'
<1> DEFINE n == Len(log)
           m == Len(store)
<1>1. /\ n \in Nat /\ log' \in Seq(Nat) /\ Len(log') = n + 1
      /\ log'[n + 1] = Serving(c) /\ s.id = Serving(c)
      /\ \A i \in 1..n : log'[i] = log[i]
      /\ Serving(c) \in 1..Len(reqs) /\ Serving(c) \notin ToSet(log)
  BY LogGrows
<1>2. /\ log \in Seq(Nat) /\ DOMAIN log = 1..n /\ DOMAIN log' = 1..(n + 1)
      /\ \A i \in 1..n : log[i] # Serving(c)
  BY <1>1, ToSetLog DEF Typed
<1> HIDE DEF n
<1>3. IsInjective(log')
  <2>1. \A i, j \in 1..n : log[i] = log[j] => i = j
    BY <1>2 DEF Logged, IsInjective
  <2>2. \A i \in 1..(n + 1) : i \in 1..n \/ i = n + 1
    BY <1>1
  <2>3. \A i, j \in 1..(n + 1) : log'[i] = log'[j] => i = j
    BY <1>1, <1>2, <2>1, <2>2
  <2> QED
    BY <1>2, <2>3 DEF IsInjective
<1>4. \A i \in 1..Len(log') : log'[i] \in 1..Len(reqs)
  <2>1. \A i \in 1..n : log[i] \in 1..Len(reqs)
    BY DEF Logged, n
  <2>2. \A i \in 1..Len(log') : i \in 1..n \/ i = n + 1
    BY <1>1
  <2> QED
    BY <1>1, <2>1, <2>2
<1> DEFINE drop == IF m >= Capacity THEN 1 ELSE 0
<1>5. /\ Len(store') = m + 1 - drop /\ m \in Nat /\ store'[Len(store')] = s
      /\ \A i \in 1..(Len(store') - 1) : i + drop \in 1..m /\ store'[i] = store[i + drop]
  BY AddFacts DEF Typed, Summarises, Logged
<1>6. m = (IF n <= Capacity THEN n ELSE Capacity) /\ Capacity \in Nat \ {0}
  BY Constants DEF Logged, n
<1>7. \A i \in 1..m : store[i].id = log[n - m + i]
  BY DEF Logged, n
<1> HIDE DEF m
<1>8. drop \in {0, 1} /\ (drop = 1 <=> n >= Capacity)
  BY <1>1, <1>5, <1>6
<1> HIDE DEF drop
<1>9. Len(store') = IF n + 1 <= Capacity THEN n + 1 ELSE Capacity
  BY <1>1, <1>5, <1>6, <1>8
<1>10. ASSUME NEW i \in 1..Len(store') PROVE store'[i].id = log'[n + 1 - Len(store') + i]
  <2>1. CASE i = Len(store')
    <3>1. n + 1 - Len(store') + i = n + 1
      BY <1>1, <1>5, <1>8, <2>1
    <3> QED
      BY <1>1, <1>5, <2>1, <3>1
  <2>2. CASE i # Len(store')
    <3>1. i \in 1..(Len(store') - 1)
      BY <1>5, <1>8, <2>2
    <3>2. i + drop \in 1..m /\ store'[i] = store[i + drop]
      BY <1>5, <3>1
    <3>3. n + 1 - Len(store') + i = n - m + (i + drop) /\ n - m + (i + drop) \in 1..n
      BY <1>1, <1>5, <1>6, <1>8, <3>1, <3>2
    <3> QED
      BY <1>1, <1>7, <3>2, <3>3
  <2> QED
    BY <2>1, <2>2
<1>11. \A q \in 1..Len(reqs) : reqs[q].fate = "answered" =>
          reqs[q].panicked \/ q \in ToSet(log')
  <2> SUFFICES ASSUME NEW q \in 1..Len(reqs), q \in ToSet(log) PROVE q \in ToSet(log')
    BY DEF Logged
  <2>1. PICK i \in 1..n : log[i] = q
    BY <1>2 DEF ToSet
  <2>2. i \in 1..(n + 1) /\ log'[i] = q
    BY <1>1, <2>1
  <2> QED
    BY <1>2, <2>2 DEF ToSet
<1>12. reqs' = reqs
  BY DEF Summarises
<1>13. /\ Len(store') = IF Len(log') <= Capacity THEN Len(log') ELSE Capacity
       /\ \A i \in 1..Len(store') : store'[i].id = log'[Len(log') - Len(store') + i]
  <2>1. Len(log') = n + 1
    BY <1>1
  <2>2. Len(store') = IF Len(log') <= Capacity THEN Len(log') ELSE Capacity
    BY <1>9, <2>1
  <2>3. ASSUME NEW i \in 1..Len(store')
        PROVE  store'[i].id = log'[Len(log') - Len(store') + i]
    <3>0. n \in Nat /\ m \in Nat /\ drop \in {0, 1} /\ Len(store') = m + 1 - drop
      BY <1>1, <1>5, <1>8
    <3>1. Len(log') - Len(store') + i = n + 1 - Len(store') + i
      BY <2>1, <3>0
    <3>2. store'[i].id = log'[n + 1 - Len(store') + i]
      BY <1>10
    <3> QED
      BY <3>1, <3>2
  <2> QED
    BY <2>2, <2>3
<1> QED
  BY <1>3, <1>4, <1>11, <1>12, <1>13 DEF Logged, Capacity

\* As long as no request is answered or forgotten, the log stays good.
LEMMA LoggedFrame ==
    ASSUME Logged, UNCHANGED <<store, log>>, Len(reqs) \in Nat, Len(reqs') \in Nat,
           Len(reqs) <= Len(reqs'),
           \A q \in 1..Len(reqs') : reqs'[q].fate = "answered" =>
               \/ q \in 1..Len(reqs) /\ reqs[q].fate = "answered" /\ reqs'[q].panicked = reqs[q].panicked
               \/ reqs'[q].panicked \/ q \in ToSet(log)
    PROVE  Logged'
<1>1. \A i \in 1..Len(reqs) : i \in 1..Len(reqs')
  OBVIOUS
<1>2. \A q \in 1..Len(reqs') : reqs'[q].fate = "answered" => reqs'[q].panicked \/ q \in ToSet(log)
  BY DEF Logged
<1> QED
  BY <1>1, <1>2 DEF Logged

LEMMA LoggedKept ==
    ASSUME Typed, Owners, Logged, Phases, NEW c \in Conns,
           \/ \E to, r, v : Answers(c, to, r, v)
           \/ \E to : Ends(c, to)
           \/ \E x, r : Arrives(c, x, r)
           \/ \E q, r : Moves(q, r)
    PROVE  Logged'
<1>0. Len(reqs) \in Nat
  BY DEF Typed
<1>1. ASSUME NEW to, NEW r, NEW v, Answers(c, to, r, v) PROVE Logged'
  BY <1>0, <1>1, LoggedFrame DEF Answers, Changes
<1>2. ASSUME NEW to, Ends(c, to) PROVE Logged'
  <2>1. /\ store' = store /\ log' = log /\ Len(reqs') = Len(reqs)
        /\ (at[c] = "idle" /\ reqs' = reqs) \/ at[c] = "writing"
        /\ \A p \in 1..Len(reqs) : /\ SameBody(reqs'[p], reqs[p])
                                   /\ p # Serving(c) => reqs'[p] = reqs[p]
    BY <1>2, EndsFacts
  <2>2. at[c] = "writing" => Request(c).panicked \/ Serving(c) \in ToSet(log)
    BY DEF Phases, Phase
  <2>3. \A q \in 1..Len(reqs') : reqs'[q].fate = "answered" =>
           \/ q \in 1..Len(reqs) /\ reqs[q].fate = "answered" /\ reqs'[q].panicked = reqs[q].panicked
           \/ reqs'[q].panicked \/ q \in ToSet(log)
    BY <2>1, <2>2 DEF SameBody, Request
  <2> QED
    BY <1>0, <2>1, <2>3, LoggedFrame
<1>3. ASSUME NEW x, NEW r, Arrives(c, x, r) PROVE Logged'
  <2>1. r.fate = "open" /\ store' = store /\ log' = log
    BY <1>3 DEF Arrives
  <2>2. /\ Len(reqs') = Len(reqs) + 1 /\ reqs'[Len(reqs) + 1] = r
        /\ \A p \in 1..Len(reqs) : reqs'[p] = reqs[p]
        /\ \A p \in 1..Len(reqs') : p \in 1..Len(reqs) \/ p = Len(reqs) + 1
    BY <1>3, ArrivalFacts
  <2> QED
    BY <1>0, <2>1, <2>2, LoggedFrame
<1>4. ASSUME NEW q, NEW r, Moves(q, r) PROVE Logged'
  BY <1>0, <1>4, LoggedFrame DEF Moves, Changes
<1> QED
  BY <1>1, <1>2, <1>3, <1>4

-----------------------------------------------------------------------------
(* Phases *)

LEMMA PhaseFrame ==
    ASSUME NEW d \in Conns, Phase(d), at'[d] = at[d], Serving(d)' = Serving(d),
           /\ Request(d)'.kind = Request(d).kind /\ Request(d)'.conn = Request(d).conn
           /\ Request(d)'.status = Request(d).status
           /\ Request(d)'.panicked = Request(d).panicked,
           at[d] = "handling" => New(Request(d)'),
           /\ Values(d)'.id = Values(d).id /\ Values(d)'.key = Values(d).key
           /\ Values(d)'.stream = Values(d).stream /\ Values(d)'.error = Values(d).error,
           Serving(d) \in ToSet(log') <=> Serving(d) \in ToSet(log)
    PROVE  Phase(d)'
<1>1. at[d] = "returned" => Told(Values(d)', Request(d)')
  BY DEF Phase, Told, ErrorOf
<1>2. at[d] \in {"handling", "idle"} => Clean(Values(d)')
  BY DEF Phase, Clean
<1> QED
  BY <1>1, <1>2 DEF Phase

\* What becomes of one connection leaves the phases of the others alone.
LEMMA PhasesOfOthers ==
    ASSUME Typed, Owners, Phases, NEW c \in Conns,
           \A d \in Conns : d # c => at'[d] = at[d] /\ ctx'[d] = ctx[d],
           \A d \in Conns : d # c /\ at[d] # "closed" =>
               /\ Serving(d)' = Serving(d) /\ Request(d)' = Request(d)
               /\ values'[ctx[d]] = values[ctx[d]]
               /\ Serving(d) \in ToSet(log') <=> Serving(d) \in ToSet(log)
    PROVE  \A d \in Conns : d # c => Phase(d)'
<1> SUFFICES ASSUME NEW d \in Conns, d # c PROVE Phase(d)'
  OBVIOUS
<1>1. CASE at[d] = "closed"
  BY <1>1 DEF Phase
<1>2. CASE at[d] # "closed"
  <2>1. Phase(d) /\ (at[d] = "handling" => New(Request(d)))
    BY DEF Phases, Phase
  <2>2. Values(d)' = Values(d)
    BY <1>2 DEF Values
  <2> QED
    BY <1>2, <2>1, <2>2, PhaseFrame
<1> QED
  BY <1>1, <1>2

LEMMA PhasesAnswers ==
    ASSUME Typed, Owners, Phases, NEW c \in Conns, NEW to, NEW r, NEW v, Answers(c, to, r, v)
    PROVE  Phases'
<1>1. /\ at[c] = "handling" /\ to \in {"returned", "writing"} /\ ctx' = ctx /\ log' = log
      /\ Changes(Serving(c), r)
      /\ \A d \in Conns : at'[d] = IF d = c THEN to ELSE at[d]
      /\ \A x \in Ctxs : values'[x] = IF x = ctx[c] THEN v ELSE values[x]
  BY DEF Answers, Typed
<1>2. /\ Request(c)' = r /\ \A d \in Conns : Serving(d)' = Serving(d)
      /\ \A d \in Conns : d # c /\ at[d] # "closed" => Request(d)' = Request(d)
  BY <1>1, OwnChange
<1>3. ctx[c] \in Ctxs /\ \A d \in Conns : d # c => ctx[d] # ctx[c]
  BY <1>1, OpenConnection
<1>4. \A d \in Conns : at[d] # "closed" => ctx[d] \in Ctxs
  BY OpenConnection
<1>5. \A d \in Conns : d # c => Phase(d)'
  BY <1>1, <1>2, <1>3, <1>4, PhasesOfOthers
<1>6. Phase(c)'
  <2>1. Values(c)' = v /\ at'[c] = to
    BY <1>1, <1>3 DEF Values
  <2>2. /\ r.panicked <=> to = "writing"
        /\ v.id = Serving(c)
        /\ to = "returned" => Told(v, r)
    BY DEF Answers
  <2>3. Serving(c) \notin ToSet(log)
    BY <1>1 DEF Phases, Phase
  <2> QED
    BY <1>1, <1>2, <2>1, <2>2, <2>3 DEF Phase
<1>7. Released'
  BY <1>1 DEF Phases, Released
<1> QED
  BY <1>5, <1>6, <1>7 DEF Phases

LEMMA PhasesSummarises ==
    ASSUME Typed, Owners, Logged, Phases, NEW c \in Conns, NEW s, Summarises(c, s)
    PROVE  Phases'
<1>1. /\ at[c] = "returned" /\ ctx' = ctx /\ values' = values /\ reqs' = reqs
      /\ \A d \in Conns : at'[d] = IF d = c THEN "writing" ELSE at[d]
      /\ \A d \in Conns : Serving(d)' = Serving(d) /\ Request(d)' = Request(d)
  BY DEF Summarises, Typed, Serving, Request
<1>2. /\ Len(log) \in Nat /\ log' \in Seq(Nat) /\ Len(log') = Len(log) + 1
      /\ log'[Len(log) + 1] = Serving(c)
      /\ \A i \in 1..Len(log) : log'[i] = log[i]
  BY LogGrows
<1>3. \A q : q \in ToSet(log') <=> q \in ToSet(log) \/ q = Serving(c)
  <2>1. log \in Seq(Nat)
    BY DEF Typed
  <2>2. \A q : q \in ToSet(log) <=> \E i \in 1..Len(log) : log[i] = q
    BY <2>1, ToSetLog
  <2>3. \A q : q \in ToSet(log') <=> \E i \in 1..Len(log') : log'[i] = q
    BY <1>2 DEF ToSet
  <2>4. \A i : i \in 1..Len(log') <=> i \in 1..Len(log) \/ i = Len(log) + 1
    BY <1>2
  <2> QED
    BY <1>2, <2>2, <2>3, <2>4
<1>4. \A d \in Conns : d # c /\ at[d] # "closed" => Serving(d) # Serving(c)
  BY <1>1, OpenConnection
<1>5. \A d \in Conns : d # c => Phase(d)'
  BY <1>1, <1>3, <1>4, PhasesOfOthers
<1>6. Phase(c)'
  BY <1>1, <1>3 DEF Phase
<1>7. Released'
  BY <1>1 DEF Phases, Released
<1> QED
  BY <1>5, <1>6, <1>7 DEF Phases

LEMMA PhasesEnds ==
    ASSUME Typed, Owners, Phases, NEW c \in Conns, NEW to, Ends(c, to)
    PROVE  Phases'
<1>1. /\ to \in {"idle", "closed"} /\ at[c] \in {"idle", "writing"} /\ log' = log
      /\ \A d \in Conns : at'[d] = IF d = c THEN to ELSE at[d]
      /\ \A d \in Conns : ctx'[d] = IF d = c /\ to = "closed" THEN NoCtx ELSE ctx[d]
      /\ \A x \in Ctxs : values'[x] = IF x = ctx[c] THEN Unset ELSE values[x]
      /\ \A d \in Conns : Serving(d)' = Serving(d)
      /\ \A d \in Conns : d # c /\ at[d] # "closed" => Request(d)' = Request(d)
  BY EndsFacts
<1>2. ctx[c] \in Ctxs /\ \A d \in Conns : d # c => ctx[d] # ctx[c]
  BY <1>1, OpenConnection
<1>3. \A d \in Conns : at[d] # "closed" => ctx[d] \in Ctxs
  BY OpenConnection
<1>4. \A d \in Conns : d # c => Phase(d)'
  BY <1>1, <1>2, <1>3, PhasesOfOthers
<1>5. Phase(c)'
  <2>1. CASE to = "closed"
    BY <1>1, <2>1 DEF Phase
  <2>2. CASE to = "idle"
    <3>1. Values(c)' = Unset /\ at'[c] = "idle"
      BY <1>1, <1>2, <2>2 DEF Values
    <3> QED
      BY <3>1, UnsetType DEF Phase
  <2> QED
    BY <1>1, <2>1, <2>2
<1>6. Released'
  <2> SUFFICES ASSUME NEW x \in Ctxs, \A d \in Conns : ctx'[d] # x PROVE Clean(values'[x])
    BY DEF Released
  <2>1. CASE x = ctx[c]
    BY <1>1, <2>1, UnsetType
  <2>2. CASE x # ctx[c]
    <3>1. \A d \in Conns : ctx[d] # x
      BY <1>1, <2>2
    <3> QED
      BY <1>1, <2>2, <3>1 DEF Phases, Released
  <2> QED
    BY <2>1, <2>2
<1> QED
  BY <1>4, <1>5, <1>6 DEF Phases

LEMMA PhasesArrives ==
    ASSUME Typed, Owners, Logged, Phases, NEW c \in Conns, NEW x, NEW r, Arrives(c, x, r)
    PROVE  Phases'
<1> DEFINE n == Len(reqs) + 1
<1>1. /\ Len(reqs) \in Nat /\ reqs'[n] = r /\ Serving(c)' = n
      /\ \A p \in 1..Len(reqs) : reqs'[p] = reqs[p]
      /\ \A d : d # c => Serving(d)' = Serving(d)
  BY ArrivalFacts
<1>2. n \notin 1..Len(reqs)
  BY <1>1
<1> HIDE DEF n
<1>3. /\ x \in Ctxs /\ at[c] \in {"closed", "idle"} /\ New(r) /\ log' = log
      /\ (at[c] = "idle" /\ x = ctx[c]) \/ \A d \in Conns : ctx[d] # x
      /\ \A d \in Conns : at'[d] = IF d = c THEN "handling" ELSE at[d]
      /\ \A d \in Conns : ctx'[d] = IF d = c THEN x ELSE ctx[d]
      /\ \A y \in Ctxs : y # x => values'[y] = values[y]
      /\ values'[x] = [values[x] EXCEPT !.id = n] /\ values[x] \in ValuesType
  BY DEF Arrives, Typed, n
<1>4. \A d \in Conns : d # c => ctx[d] # x
  BY <1>3, OpenConnection
<1>5. \A d \in Conns : at[d] # "closed" => ctx[d] \in Ctxs /\ Serving(d) \in 1..Len(reqs)
  BY OpenConnection
<1>6. \A d \in Conns : d # c /\ at[d] # "closed" => Request(d)' = Request(d)
  BY <1>1, <1>5 DEF Request
<1>7. \A d \in Conns : d # c => Phase(d)'
  BY <1>1, <1>3, <1>4, <1>5, <1>6, PhasesOfOthers
<1>8. Phase(c)'
  <2>1. Clean(values[x])
    BY <1>3 DEF Phases, Phase, Released, Values
  <2>2. Values(c)' = values'[x] /\ at'[c] = "handling" /\ Request(c)' = r
    BY <1>1, <1>3 DEF Values, Request
  <2>3. values'[x].id = n /\ Clean(values'[x])
    BY <1>3, <2>1 DEF Clean, ValuesType
  <2>4. n \notin ToSet(log)
    BY <1>2, ToSetLog DEF Logged, Typed
  <2> QED
    BY <1>1, <1>3, <2>2, <2>3, <2>4 DEF Phase
<1>9. Released'
  <2> SUFFICES ASSUME NEW y \in Ctxs, \A d \in Conns : ctx'[d] # y PROVE Clean(values'[y])
    BY DEF Released
  <2>1. y # x /\ \A d \in Conns : d # c => ctx[d] # y
    BY <1>3
  <2>2. ctx[c] # y
    <3>1. (at[c] = "idle" /\ x = ctx[c]) \/ at[c] = "closed"
      BY DEF Arrives
    <3>2. at[c] = "closed" => ctx[c] = NoCtx
      BY DEF Owners
    <3> QED
      BY <2>1, <3>1, <3>2, Constants
  <2>3. Clean(values[y])
    BY <2>1, <2>2 DEF Phases, Released
  <2> QED
    BY <1>3, <2>1, <2>3
<1> QED
  BY <1>7, <1>8, <1>9 DEF Phases

LEMMA PhasesMoves ==
    ASSUME Typed, Owners, Phases, NEW q, NEW r, Moves(q, r)
    PROVE  Phases'
<1>1. /\ at' = at /\ ctx' = ctx /\ log' = log /\ Changes(q, r) /\ reqs \in Seq(RequestType)
      /\ r.status = reqs[q].status /\ r.panicked = reqs[q].panicked
      /\ reqs[q].writer # "none"
         \/ (\E c \in Conns : reqs[q].conn = c /\ at[c] = "writing" /\ q = Serving(c))
  BY DEF Moves, Typed
<1>2. /\ \A p \in 1..Len(reqs) : reqs'[p].conn = reqs[p].conn /\ reqs'[p].kind = reqs[p].kind
      /\ \A d : Serving(d)' = Serving(d)
  BY <1>1, ChangeFacts
<1>3. \A p \in 1..Len(reqs) : /\ reqs'[p].status = reqs[p].status
                              /\ reqs'[p].panicked = reqs[p].panicked
                              /\ p # q => reqs'[p] = reqs[p]
  BY <1>1 DEF Changes
<1>4. \A x \in Ctxs : /\ values'[x].id = values[x].id /\ values'[x].key = values[x].key
                      /\ values'[x].stream = values[x].stream
                      /\ values'[x].error = values[x].error
  <2> DEFINE y == reqs[q].ctx
             p == reqs[q].by
  <2>1. values' = values \/ values' = [values EXCEPT ![y] = [values[y] EXCEPT !.provider = p]]
    BY DEF Moves
  <2>2. values \in [Ctxs -> ValuesType]
    BY DEF Typed
  <2> HIDE DEF y, p
  <2>3. CASE values' = values
    BY <2>3
  <2>4. CASE values' = [values EXCEPT ![y] = [values[y] EXCEPT !.provider = p]]
    <3> SUFFICES ASSUME NEW x \in Ctxs
                 PROVE  /\ values'[x].id = values[x].id /\ values'[x].key = values[x].key
                        /\ values'[x].stream = values[x].stream
                        /\ values'[x].error = values[x].error
      OBVIOUS
    <3>1. values[x] \in ValuesType
      BY <2>2
    <3>2. values'[x] = values[x] \/ values'[x] = [values[x] EXCEPT !.provider = p]
      BY <2>2, <2>4
    <3> QED
      BY <3>1, <3>2 DEF ValuesType
  <2> QED
    BY <2>1, <2>3, <2>4
<1>5. ASSUME NEW d \in Conns PROVE Phase(d)'
  <2>1. CASE at[d] = "closed"
    BY <1>1, <2>1 DEF Phase
  <2>2. CASE at[d] # "closed"
    <3>1. Serving(d) \in 1..Len(reqs) /\ ctx[d] \in Ctxs /\ Request(d).conn = d
      BY <2>2, OpenConnection
    <3>2. Phase(d)
      BY DEF Phases
    <3>3. at[d] = "handling" => New(Request(d)')
      <4> SUFFICES ASSUME at[d] = "handling" PROVE New(Request(d)')
        OBVIOUS
      <4>1. New(Request(d))
        BY <3>2 DEF Phase
      <4>2. q # Serving(d)
        BY <1>1, <3>1, <4>1 DEF New, Request
      <4> QED
        BY <1>2, <1>3, <3>1, <4>1, <4>2 DEF Request
    <3>4. /\ Request(d)'.kind = Request(d).kind /\ Request(d)'.conn = Request(d).conn
          /\ Request(d)'.status = Request(d).status
          /\ Request(d)'.panicked = Request(d).panicked
      BY <1>2, <1>3, <3>1 DEF Request
    <3>5. /\ Values(d)'.id = Values(d).id /\ Values(d)'.key = Values(d).key
          /\ Values(d)'.stream = Values(d).stream /\ Values(d)'.error = Values(d).error
      BY <1>1, <1>4, <3>1 DEF Values
    <3> QED
      BY <1>1, <1>2, <3>2, <3>3, <3>4, <3>5, PhaseFrame
  <2> QED
    BY <2>1, <2>2
<1>6. Released'
  BY <1>1, <1>4 DEF Phases, Released, Clean
<1> QED
  BY <1>5, <1>6 DEF Phases

-----------------------------------------------------------------------------
(* Where providers come from *)

LEMMA OriginFrame ==
    ASSUME NEW x \in Ctxs, Origin(x), values'[x].provider = values[x].provider,
           \A d \in Conns : ctx[d] = x /\ at[d] \in Busy =>
               ctx'[d] = x /\ at'[d] \in Busy /\ Request(d)'.by = Request(d).by,
           \A q \in 1..Len(reqs) : reqs[q].fate = "lost" =>
               /\ q \in 1..Len(reqs') /\ reqs'[q].fate = "lost"
               /\ reqs'[q].kind = reqs[q].kind /\ reqs'[q].ctx = reqs[q].ctx
               /\ reqs'[q].by = reqs[q].by
    PROVE  Origin(x)'
<1>1. CASE values[x].provider = ""
  BY <1>1 DEF Origin
<1>2. ASSUME NEW d \in Conns, ctx[d] = x, at[d] \in Busy, values[x].provider = Request(d).by
      PROVE  Origin(x)'
  <2>1. ctx'[d] = x /\ at'[d] \in Busy /\ values'[x].provider = Request(d)'.by
    BY <1>2
  <2> QED
    BY <2>1 DEF Origin, Busy
<1>3. ASSUME NEW q \in 1..Len(reqs), LostIn(x, values[x].provider, q) PROVE Origin(x)'
  <2>1. q \in 1..Len(reqs') /\ LostIn(x, values[x].provider, q)'
    BY <1>3 DEF LostIn
  <2> QED
    BY <2>1 DEF Origin
<1> QED
  BY <1>1, <1>2, <1>3 DEF Origin

LEMMA OriginsAnswers ==
    ASSUME Typed, Owners, Phases, Origins, NEW c \in Conns, NEW to, NEW r, NEW v,
           Answers(c, to, r, v)
    PROVE  Origins'
<1>1. /\ at[c] = "handling" /\ to \in {"returned", "writing"} /\ ctx' = ctx
      /\ Changes(Serving(c), r) /\ r.fate = "open"
      /\ \A d \in Conns : at'[d] = IF d = c THEN to ELSE at[d]
      /\ \A x \in Ctxs : values'[x] = IF x = ctx[c] THEN v ELSE values[x]
      /\ v.provider = Values(c).provider \/ v.provider = r.by
  BY DEF Answers, Typed
<1>2. /\ Request(c)' = r /\ \A d \in Conns : Serving(d)' = Serving(d)
      /\ \A d \in Conns : d # c /\ at[d] # "closed" => Request(d)' = Request(d)
  BY <1>1, OwnChange
<1>3. ctx[c] \in Ctxs /\ \A d \in Conns : d # c => ctx[d] # ctx[c]
  BY <1>1, OpenConnection
<1>4. /\ Len(reqs') = Len(reqs)
      /\ \A q \in 1..Len(reqs) : reqs'[q].fate = "lost" \/ reqs[q].fate = "lost" => reqs'[q] = reqs[q]
  BY <1>1 DEF Changes, Owners, Request
<1>5. LostBefore'
  BY <1>1, <1>2, <1>4 DEF Origins, LostBefore
<1>6. ASSUME NEW x \in Ctxs PROVE Origin(x)'
  <2>1. CASE x # ctx[c]
    <3>1. \A d \in Conns : ctx[d] = x /\ at[d] \in Busy =>
             ctx'[d] = x /\ at'[d] \in Busy /\ Request(d)'.by = Request(d).by
      BY <1>1, <1>2, <2>1 DEF Busy
    <3> QED
      BY <1>1, <1>4, <2>1, <3>1, OriginFrame DEF Origins
  <2>2. CASE x = ctx[c] /\ v.provider = r.by
    <3>1. ctx'[c] = x /\ at'[c] \in Busy /\ values'[x].provider = Request(c)'.by
      BY <1>1, <1>2, <2>2 DEF Busy
    <3> QED
      BY <3>1 DEF Origin, Busy
  <2>3. CASE x = ctx[c] /\ v.provider = Values(c).provider
    <3>1. values'[x].provider = values[x].provider
      BY <1>1, <2>3 DEF Values
    <3>2. Request(c).by = ""
      BY <1>1 DEF Phases, Phase, New
    <3>3. values[x].provider = "" \/ \E q \in 1..Len(reqs) : LostIn(x, values[x].provider, q)
      <4>1. \A d \in Conns : ctx[d] = x => d = c
        BY <1>3, <2>3
      <4> QED
        BY <3>2, <4>1 DEF Origins, Origin
    <3>4. \A q \in 1..Len(reqs) : LostIn(x, values[x].provider, q) =>
             q \in 1..Len(reqs') /\ LostIn(x, values[x].provider, q)'
      BY <1>4, <3>1 DEF LostIn
    <3> QED
      BY <3>1, <3>3, <3>4 DEF Origin
  <2> QED
    BY <1>1, <2>1, <2>2, <2>3
<1> QED
  BY <1>5, <1>6 DEF Origins

LEMMA OriginsSummarises ==
    ASSUME Typed, Owners, Origins, NEW c \in Conns, NEW s, Summarises(c, s)
    PROVE  Origins'
<1>1. /\ at[c] = "returned" /\ ctx' = ctx /\ values' = values /\ reqs' = reqs
      /\ \A d \in Conns : at'[d] = IF d = c THEN "writing" ELSE at[d]
      /\ \A d \in Conns : Serving(d)' = Serving(d) /\ Request(d)' = Request(d)
  BY DEF Summarises, Typed, Serving, Request
<1>2. LostBefore'
  BY <1>1 DEF Origins, LostBefore
<1>3. ASSUME NEW x \in Ctxs PROVE Origin(x)'
  BY <1>1, OriginFrame DEF Origins, Busy
<1> QED
  BY <1>2, <1>3 DEF Origins

LEMMA OriginsEnds ==
    ASSUME Typed, Owners, Origins, NEW c \in Conns, NEW to, Ends(c, to)
    PROVE  Origins'
<1>1. /\ to \in {"idle", "closed"} /\ at[c] \in {"idle", "writing"}
      /\ \A d \in Conns : at'[d] = IF d = c THEN to ELSE at[d]
      /\ \A d \in Conns : ctx'[d] = IF d = c /\ to = "closed" THEN NoCtx ELSE ctx[d]
      /\ \A x \in Ctxs : values'[x] = IF x = ctx[c] THEN Unset ELSE values[x]
      /\ \A d \in Conns : Serving(d)' = Serving(d)
      /\ \A d \in Conns : d # c /\ at[d] # "closed" => Request(d)' = Request(d)
      /\ (to = "closed" /\ reqs' = reqs)
         \/ reqs'[Serving(c)].fate = IF to = "idle" THEN "answered" ELSE "lost"
  BY EndsFacts
<1>2. /\ Len(reqs') = Len(reqs)
      /\ \A p \in 1..Len(reqs) : p # Serving(c) => reqs'[p] = reqs[p]
      /\ \A p \in 1..Len(reqs) : reqs'[p].ctx = reqs[p].ctx
  BY EndsFacts DEF SameBody
<1>3. /\ ctx[c] \in Ctxs /\ \A d \in Conns : d # c => ctx[d] # ctx[c]
      /\ Serving(c) \in 1..Len(reqs) /\ Request(c).ctx = ctx[c]
  BY <1>1, OpenConnection
<1>4. reqs[Serving(c)].fate # "lost" /\ reqs[Serving(c)].ctx = ctx[c]
  BY <1>1, <1>3 DEF Owners, Request
<1>5. ASSUME NEW d \in Conns, NEW q \in 1..Len(reqs'),
             at'[d] # "closed", reqs'[q].fate = "lost", reqs'[q].ctx = ctx'[d]
      PROVE  q < Serving(d)'
  <2>1. at[d] # "closed" /\ ctx'[d] = ctx[d] /\ q \in 1..Len(reqs) /\ reqs[q].ctx = ctx[d]
    BY <1>1, <1>2, <1>5
  <2>2. CASE q = Serving(c)
    BY <1>1, <1>3, <1>4, <1>5, <2>1, <2>2
  <2>3. CASE q # Serving(c)
    BY <1>1, <1>2, <1>5, <2>1, <2>3 DEF Origins, LostBefore
  <2> QED
    BY <2>2, <2>3
<1>6. ASSUME NEW x \in Ctxs PROVE Origin(x)'
  <2>1. CASE x = ctx[c]
    BY <1>1, <2>1, UnsetType DEF Origin
  <2>2. CASE x # ctx[c]
    <3>1. \A d \in Conns : ctx[d] = x /\ at[d] \in Busy =>
             ctx'[d] = x /\ at'[d] \in Busy /\ Request(d)'.by = Request(d).by
      BY <1>1, <2>2 DEF Busy
    <3>2. \A q \in 1..Len(reqs) : reqs[q].fate = "lost" => q # Serving(c)
      BY <1>4
    <3> QED
      BY <1>1, <1>2, <2>2, <3>1, <3>2, OriginFrame DEF Origins
  <2> QED
    BY <2>1, <2>2
<1> QED
  BY <1>5, <1>6 DEF Origins, LostBefore

LEMMA OriginsArrives ==
    ASSUME Typed, Owners, Origins, NEW c \in Conns, NEW x, NEW r, Arrives(c, x, r)
    PROVE  Origins'
<1> DEFINE n == Len(reqs) + 1
<1>1. /\ Len(reqs) \in Nat /\ Len(reqs') = n /\ reqs'[n] = r /\ Serving(c)' = n
      /\ \A p \in 1..Len(reqs) : reqs'[p] = reqs[p]
      /\ \A p \in 1..Len(reqs') : p \in 1..Len(reqs) \/ p = n
      /\ \A d : d # c => Serving(d)' = Serving(d)
  BY ArrivalFacts
<1>2. \A p \in 1..Len(reqs) : p < n /\ p \in 1..n
  BY <1>1
<1> HIDE DEF n
<1>3. /\ x \in Ctxs /\ at[c] \in {"closed", "idle"} /\ r.fate = "open"
      /\ (at[c] = "idle" /\ x = ctx[c]) \/ \A d \in Conns : ctx[d] # x
      /\ \A d \in Conns : at'[d] = IF d = c THEN "handling" ELSE at[d]
      /\ \A d \in Conns : ctx'[d] = IF d = c THEN x ELSE ctx[d]
  BY DEF Arrives, Typed
<1>4. \A y \in Ctxs : values'[y].provider = values[y].provider
  <2> SUFFICES ASSUME NEW y \in Ctxs PROVE values'[y].provider = values[y].provider
    OBVIOUS
  <2>1. values[y] \in ValuesType
    BY DEF Typed
  <2>2. values'[y] = values[y] \/ values'[y] = [values[y] EXCEPT !.id = n]
    BY DEF Arrives, Typed, n
  <2> QED
    BY <2>1, <2>2 DEF ValuesType
<1>5. \A d \in Conns : at[d] # "closed" => Serving(d) \in 1..Len(reqs)
  BY OpenConnection
<1>6. ASSUME NEW d \in Conns, NEW q \in 1..Len(reqs'),
             at'[d] # "closed", reqs'[q].fate = "lost", reqs'[q].ctx = ctx'[d]
      PROVE  q < Serving(d)'
  <2>1. q \in 1..Len(reqs) /\ reqs'[q] = reqs[q]
    BY <1>1, <1>3, <1>6
  <2>2. CASE d = c
    BY <1>1, <1>2, <2>1, <2>2
  <2>3. CASE d # c
    BY <1>1, <1>3, <1>6, <2>1, <2>3 DEF Origins, LostBefore
  <2> QED
    BY <2>2, <2>3
<1>7. ASSUME NEW y \in Ctxs PROVE Origin(y)'
  <2>1. \A d \in Conns : ctx[d] = y /\ at[d] \in Busy =>
           ctx'[d] = y /\ at'[d] \in Busy /\ Request(d)'.by = Request(d).by
    BY <1>1, <1>3, <1>5 DEF Busy, Request
  <2> QED
    BY <1>1, <1>2, <1>4, <2>1, OriginFrame DEF Origins
<1> QED
  BY <1>6, <1>7 DEF Origins, LostBefore

LEMMA OriginsMoves ==
    ASSUME Typed, Owners, Bodies, Origins, NEW q, NEW r, Moves(q, r)
    PROVE  Origins'
<1>1. /\ at' = at /\ ctx' = ctx /\ Changes(q, r) /\ reqs \in Seq(RequestType)
      /\ q \in 1..Len(reqs) /\ r.fate = reqs[q].fate /\ r.by = reqs[q].by
  BY DEF Moves, Typed, Changes
<1>2. /\ \A p \in 1..Len(reqs) : reqs'[p].ctx = reqs[p].ctx /\ reqs'[p].kind = reqs[p].kind
      /\ \A d : Serving(d)' = Serving(d)
  BY <1>1, ChangeFacts
<1>3. /\ Len(reqs') = Len(reqs)
      /\ \A p \in 1..Len(reqs) : reqs'[p].fate = reqs[p].fate /\ reqs'[p].by = reqs[p].by
  BY <1>1 DEF Changes
<1>4. LostBefore'
  BY <1>1, <1>2, <1>3 DEF Origins, LostBefore
<1>5. \A d \in Conns : at[d] \in Busy => Serving(d) \in 1..Len(reqs)
  BY OpenConnection DEF Busy
<1>6. \A d \in Conns : at[d] \in Busy => Request(d)'.by = Request(d).by
  BY <1>2, <1>3, <1>5 DEF Request
<1>7. ASSUME NEW x \in Ctxs PROVE Origin(x)'
  <2>1. CASE values'[x].provider = values[x].provider
    BY <1>1, <1>2, <1>3, <1>6, <2>1, OriginFrame DEF Origins
  <2>2. CASE values'[x].provider # values[x].provider
    <3>1. reqs[q] \in RequestType
      BY <1>1
    <3>2. /\ values # values' /\ reqs[q].writer = "running"
          /\ values' = [values EXCEPT ![reqs[q].ctx] = [@ EXCEPT !.provider = reqs[q].by]]
      BY <2>2 DEF Moves
    <3>3. x = reqs[q].ctx
      BY <2>2, <3>2 DEF Typed
    <3>0. PICK p : p = reqs[q].by
      OBVIOUS
    <3>4. values[x] \in ValuesType /\ values'[x] = [values[x] EXCEPT !.provider = p]
      BY <3>0, <3>2, <3>3 DEF Typed
    <3>5. values'[x].provider = p
      BY <3>4 DEF ValuesType
    <3>6. BodyOK(reqs[q])
      BY <1>1 DEF Bodies
    <3>7. reqs[q].kind = "stream" /\ reqs[q].fate # "answered"
      BY <3>2, <3>6 DEF BodyOK
    <3>8. CASE reqs[q].fate = "open"
      <4>1. PICK d \in Conns : d = reqs[q].conn
        BY <3>1 DEF RequestType
      <4>2. at[d] \in Busy /\ q = Serving(d)
        BY <1>1, <3>8, <4>1 DEF Owners
      <4>3. ctx[d] = x /\ Request(d)'.by = p
        <5>1. at[d] # "closed"
          BY <4>2 DEF Busy
        <5>2. Request(d).ctx = ctx[d]
          BY <5>1, OpenConnection
        <5> QED
          BY <1>6, <3>0, <3>3, <4>2, <5>2 DEF Request
      <4> QED
        BY <1>1, <3>5, <4>1, <4>2, <4>3 DEF Origin
    <3>9. CASE reqs[q].fate = "lost"
      <4>1. q \in 1..Len(reqs') /\ LostIn(x, p, q)'
        BY <1>1, <1>2, <1>3, <3>0, <3>3, <3>7, <3>9 DEF LostIn
      <4> QED
        BY <3>5, <4>1 DEF Origin, LostIn
    <3> QED
      BY <3>1, <3>7, <3>8, <3>9 DEF RequestType
  <2> QED
    BY <2>1, <2>2
<1> QED
  BY <1>4, <1>7 DEF Origins

-----------------------------------------------------------------------------
(* Lists *)

\* The log and the requests only grow, and a request that panicked has panicked.
Grows ==
    /\ Len(reqs) \in Nat /\ Len(reqs') \in Nat /\ Len(reqs) <= Len(reqs')
    /\ Len(log) \in Nat /\ Len(log') \in Nat /\ Len(log) <= Len(log')
    /\ \A i \in 1..Len(log) : log'[i] = log[i]
    /\ \A q \in 1..Len(reqs) : reqs[q].panicked => reqs'[q].panicked

LEMMA SeenStays ==
    ASSUME Grows, NEW n \in 0..Len(log), NEW q, Seen(q, n)
    PROVE  Seen(q, n)' /\ Seen(q, Len(log)) /\ Seen(q, Len(log))' /\ q \in 1..Len(reqs')
<1>1. /\ q \in 1..Len(reqs) /\ q \in 1..Len(reqs')
      /\ reqs[q].panicked => reqs'[q].panicked
  BY DEF Seen, Grows
<1>2. \A i \in 1..n : i \in 1..Len(log) /\ i \in 1..Len(log') /\ log'[i] = log[i]
  BY DEF Grows
<1>3. CASE reqs[q].panicked
  BY <1>1, <1>3 DEF Seen
<1>4. CASE \E i \in 1..n : log[i] = q
  <2>1. PICK i \in 1..n : log[i] = q
    BY <1>4
  <2>2. i \in 1..Len(log) /\ i \in 1..Len(log') /\ log'[i] = q
    BY <1>2, <2>1
  <2> QED
    BY <1>1, <2>1, <2>2 DEF Seen
<1> QED
  BY <1>3, <1>4 DEF Seen

LEMMA ListFrame ==
    ASSUME Grows, NEW l \in 1..Len(reqs), Listed(l),
           /\ reqs'[l].listed = reqs[l].listed /\ reqs'[l].answered = reqs[l].answered
           /\ reqs'[l].kind = reqs[l].kind /\ reqs'[l].conn = reqs[l].conn,
           \A c \in Conns : reqs[l].conn = c /\ at[c] = "handling" /\ l = Serving(c) =>
               at'[c] = "handling" /\ Serving(c)' = Serving(c)
    PROVE  Listed(l)'
<1> SUFFICES ASSUME reqs[l].kind = "list" PROVE Listed(l)'
  BY DEF Listed
<1>1. Len(log) \in 0..Len(log) /\ Len(log) \in Nat
  BY DEF Grows
<1>2. ASSUME NEW c \in Conns, reqs[l].conn = c, at[c] = "handling", l = Serving(c),
             \A q \in reqs[l].answered : Seen(q, Len(log))
      PROVE  Listed(l)'
  <2>1. \A q \in reqs[l].answered : Seen(q, Len(log))'
    BY <1>1, <1>2, SeenStays
  <2>2. \A q \in reqs'[l].answered : Seen(q, Len(log))'
    BY <2>1
  <2>3. reqs'[l].conn = c /\ at'[c] = "handling" /\ l = Serving(c)'
    BY <1>2
  <2> QED
    BY <2>2, <2>3 DEF Listed
<1>3. ASSUME NEW n \in 0..Len(log), ListedAt(l, n) PROVE Listed(l)'
  <2>1. /\ Len(reqs[l].listed) = IF n <= Capacity THEN n ELSE Capacity
        /\ \A i \in 1..Len(reqs[l].listed) : reqs[l].listed[i] = log[n - Len(reqs[l].listed) + i]
        /\ \A q \in reqs[l].answered : Seen(q, n)
    BY <1>3 DEF ListedAt
  <2> DEFINE ids == reqs[l].listed
  <2>2. n \in 0..Len(log') /\ n \in Nat
    BY DEF Grows
  <2>3. \A i \in 1..Len(ids) : n - Len(ids) + i \in 1..Len(log)
    <3> DEFINE k == Len(ids)
    <3>1. k = IF n <= Capacity THEN n ELSE Capacity
      BY <2>1
    <3> HIDE DEF k, ids
    <3>2. \A i \in 1..k : n - k + i \in 1..Len(log)
      BY <1>1, <2>2, <3>1, Constants
    <3> QED
      BY <3>2 DEF k
  <2>4. \A i \in 1..Len(ids) : ids[i] = log'[n - Len(ids) + i]
    BY <2>1, <2>3 DEF Grows
  <2>5. \A q \in reqs[l].answered : Seen(q, n)'
    BY <2>1, SeenStays
  <2>6. ListedAt(l, n)'
    BY <2>1, <2>4, <2>5 DEF ListedAt, Capacity
  <2> QED
    BY <2>2, <2>6 DEF Listed
<1> QED
  BY <1>2, <1>3 DEF Listed

\* The list is what the store holds when the handler reads it.
LEMMA ListRead ==
    ASSUME Typed, Logged, NEW l \in 1..Len(reqs'),
           reqs'[l].listed = [i \in 1..Len(store) |-> store[i].id], log' = log,
           \A q \in reqs'[l].answered : Seen(q, Len(log))'
    PROVE  Listed(l)'
<1> DEFINE n == Len(log)
           k == Len(store)
<1>1. n \in Nat /\ k \in Nat /\ n \in 0..Len(log')
  BY DEF Typed
<1>2. /\ k = IF n <= Capacity THEN n ELSE Capacity
      /\ \A i \in 1..k : store[i].id = log[n - k + i]
  BY DEF Logged
<1>3. PICK m : m = n
  OBVIOUS
<1>4. /\ Len(reqs'[l].listed) = k
      /\ \A i \in 1..k : reqs'[l].listed[i] = store[i].id
  BY <1>1
<1>5. \A i \in 1..Len(reqs'[l].listed) :
         reqs'[l].listed[i] = log'[m - Len(reqs'[l].listed) + i]
  BY <1>2, <1>3, <1>4
<1>6. Len(reqs'[l].listed) = IF m <= Capacity THEN m ELSE Capacity
  BY <1>2, <1>3, <1>4
<1>7. \A q \in reqs'[l].answered : Seen(q, m)'
  BY <1>3
<1>8. ListedAt(l, m)'
  BY <1>5, <1>6, <1>7 DEF ListedAt, Capacity
<1> QED
  BY <1>1, <1>3, <1>8 DEF Listed

LEMMA ListsAnswers ==
    ASSUME Typed, Owners, Phases, Logged, Lists, NEW c \in Conns, NEW to, NEW r, NEW v,
           Answers(c, to, r, v)
    PROVE  Lists'
<1>1. /\ at[c] = "handling" /\ Changes(Serving(c), r) /\ log' = log
      /\ \A d \in Conns : d # c => at'[d] = at[d]
      /\ r.kind = "list" => r.listed = [i \in 1..Len(store) |-> store[i].id]
  BY DEF Answers, Typed
<1>2. /\ Serving(c) \in 1..Len(reqs) /\ ~Request(c).panicked
      /\ Len(reqs) \in Nat /\ Len(log) \in Nat
  <2>1. Serving(c) \in 1..Len(reqs)
    BY <1>1, OpenConnection
  <2>2. New(Request(c))
    BY <1>1 DEF Phases, Phase
  <2>3. ~Request(c).panicked
    BY <2>2, Zenon DEF New
  <2>4. Len(reqs) \in Nat /\ Len(log) \in Nat
    BY DEF Typed
  <2> QED
    BY <2>1, <2>3, <2>4
<1>3. /\ Len(reqs') = Len(reqs) /\ reqs'[Serving(c)] = r
      /\ \A q \in 1..Len(reqs) : q # Serving(c) => reqs'[q] = reqs[q]
      /\ r.kind = Request(c).kind /\ r.answered = Request(c).answered
      /\ \A d \in Conns : Serving(d)' = Serving(d)
  BY <1>1, OwnChange DEF Changes, Request
<1>4. Grows
  BY <1>1, <1>2, <1>3 DEF Grows, Request
<1>5. ASSUME NEW l \in 1..Len(reqs') PROVE Listed(l)'
  <2>1. Listed(l) /\ l \in 1..Len(reqs)
    BY <1>3 DEF Lists
  <2>2. CASE l # Serving(c)
    BY <1>1, <1>3, <1>4, <2>1, <2>2, ListFrame
  <2>3. CASE l = Serving(c) /\ r.kind = "list"
    <3>1. \A q \in reqs[l].answered : Seen(q, Len(log)) \/ \E n \in 0..Len(log) : Seen(q, n)
      BY <1>3, <2>1, <2>3 DEF Listed, ListedAt, Request
    <3>2. Len(log) \in 0..Len(log)
      BY <1>2
    <3>3. \A q \in reqs[l].answered : Seen(q, Len(log))'
      BY <1>4, <3>1, <3>2, SeenStays
    <3>4. reqs'[l].answered = reqs[l].answered
      BY <1>3, <2>3 DEF Request
    <3>5. reqs'[l].listed = [i \in 1..Len(store) |-> store[i].id]
      BY <1>1, <1>3, <2>3
    <3> QED
      BY <1>1, <3>3, <3>4, <3>5, ListRead
  <2>4. CASE l = Serving(c) /\ r.kind # "list"
    BY <1>3, <2>4 DEF Listed
  <2> QED
    BY <2>2, <2>3, <2>4
<1> QED
  BY <1>5 DEF Lists

LEMMA ListsSummarises ==
    ASSUME Typed, Owners, Phases, Logged, Lists, NEW c \in Conns, NEW s, Summarises(c, s)
    PROVE  Lists'
<1>1. /\ at[c] = "returned" /\ reqs' = reqs
      /\ \A d \in Conns : d # c => at'[d] = at[d]
      /\ \A d \in Conns : Serving(d)' = Serving(d)
  BY DEF Summarises, Typed, Serving
<1>2. /\ Len(log) \in Nat /\ Len(log') = Len(log) + 1 /\ Len(reqs) \in Nat
      /\ \A i \in 1..Len(log) : log'[i] = log[i]
  BY LogGrows DEF Typed
<1>3. Grows
  BY <1>1, <1>2 DEF Grows
<1>4. \A d \in Conns : at[d] = "handling" => at'[d] = "handling"
  BY <1>1
<1> QED
  BY <1>1, <1>3, <1>4, ListFrame DEF Lists

LEMMA ListsEnds ==
    ASSUME Typed, Owners, Lists, NEW c \in Conns, NEW to, Ends(c, to)
    PROVE  Lists'
<1>1. /\ at[c] # "handling" /\ log' = log /\ Len(reqs') = Len(reqs)
      /\ \A d \in Conns : d # c => at'[d] = at[d]
      /\ \A d \in Conns : Serving(d)' = Serving(d)
      /\ \A p \in 1..Len(reqs) : SameBody(reqs'[p], reqs[p])
  BY EndsFacts
<1>2. Len(log) \in Nat /\ Len(reqs) \in Nat
  BY DEF Typed
<1>3. Grows
  BY <1>1, <1>2 DEF Grows, SameBody
<1>4. \A d \in Conns : at[d] = "handling" => at'[d] = "handling"
  BY <1>1
<1> QED
  BY <1>1, <1>3, <1>4, ListFrame DEF Lists, SameBody

LEMMA ListsMoves ==
    ASSUME Typed, Lists, NEW q, NEW r, Moves(q, r)
    PROVE  Lists'
<1>1. /\ at' = at /\ log' = log /\ Changes(q, r) /\ reqs \in Seq(RequestType)
      /\ r.panicked = reqs[q].panicked /\ r.listed = reqs[q].listed
  BY DEF Moves, Typed
<1>2. /\ \A p \in 1..Len(reqs) : /\ reqs'[p].conn = reqs[p].conn /\ reqs'[p].kind = reqs[p].kind
                                 /\ reqs'[p].answered = reqs[p].answered
      /\ \A d : Serving(d)' = Serving(d)
  BY <1>1, ChangeFacts
<1>3. /\ Len(reqs') = Len(reqs)
      /\ \A p \in 1..Len(reqs) : /\ reqs'[p].panicked = reqs[p].panicked
                                 /\ reqs'[p].listed = reqs[p].listed
  BY <1>1 DEF Changes
<1>4. Grows
  BY <1>1, <1>3 DEF Grows, Typed
<1> QED
  BY <1>1, <1>2, <1>3, <1>4, ListFrame DEF Lists

LEMMA ListsArrives ==
    ASSUME Typed, Owners, Logged, Lists, NEW c \in Conns, NEW x, NEW r, Arrives(c, x, r)
    PROVE  Lists'
<1> DEFINE n == Len(reqs) + 1
<1>1. /\ Len(reqs) \in Nat /\ Len(reqs') = n /\ reqs'[n] = r /\ Serving(c)' = n
      /\ \A p \in 1..Len(reqs) : reqs'[p] = reqs[p]
      /\ \A p \in 1..Len(reqs') : p \in 1..Len(reqs) \/ p = n
      /\ \A d : d # c => Serving(d)' = Serving(d)
  BY ArrivalFacts
<1>2. /\ at[c] # "handling" /\ r.conn = c /\ log' = log
      /\ \A d \in Conns : at'[d] = IF d = c THEN "handling" ELSE at[d]
      /\ \A p \in r.answered : p \in 1..Len(reqs) /\ reqs[p].fate = "answered"
  BY DEF Arrives, Typed
<1>3. Len(log) \in Nat /\ log \in Seq(Nat)
  BY DEF Typed
<1>4. Grows
  BY <1>1, <1>2, <1>3 DEF Grows
<1> HIDE DEF n
<1>5. ASSUME NEW l \in 1..Len(reqs) PROVE Listed(l)'
  <2>1. \A d \in Conns : at[d] = "handling" => at'[d] = "handling" /\ Serving(d)' = Serving(d)
    BY <1>1, <1>2
  <2> QED
    BY <1>1, <1>4, <2>1, ListFrame DEF Lists
<1>6. PICK m : m = n
  OBVIOUS
<1>7. Listed(m)'
  <2>1. \A q \in r.answered : Seen(q, Len(log))
    BY <1>2, <1>3, ToSetLog DEF Logged, Seen
  <2>2. Len(log) \in 0..Len(log)
    BY <1>3
  <2>3. \A q \in r.answered : Seen(q, Len(log))'
    BY <1>4, <2>1, <2>2, SeenStays
  <2>4. reqs'[m] = r /\ r.conn = c /\ at'[c] = "handling" /\ m = Serving(c)'
    BY <1>1, <1>2, <1>6
  <2> QED
    BY <2>3, <2>4 DEF Listed
<1> QED
  BY <1>1, <1>5, <1>6, <1>7 DEF Lists

-----------------------------------------------------------------------------
(* Summaries *)

LEMMA Stored ==
    ASSUME Typed, Logged, NEW i \in 1..Len(store)
    PROVE  /\ store[i] \in SummaryType /\ store[i].id \in 1..Len(reqs)
           /\ store[i].id \in ToSet(log)
<1> DEFINE n == Len(log)
           k == Len(store)
<1>1. log \in Seq(Nat) /\ n \in Nat /\ k \in Nat /\ store[i] \in SummaryType
  BY DEF Typed
<1>2. k = (IF n <= Capacity THEN n ELSE Capacity) /\ store[i].id = log[n - k + i]
  BY DEF Logged
<1>3. \A j \in 1..n : log[j] \in 1..Len(reqs)
  BY DEF Logged
<1> HIDE DEF n, k
<1>4. n - k + i \in 1..n
  BY <1>1, <1>2, Constants DEF k
<1> QED
  BY <1>1, <1>2, <1>3, <1>4, ToSetLog DEF n

\* A step keeps a summary right that leaves its request and lost streams alone.
LEMMA SummaryFrame ==
    ASSUME NEW s \in SummaryType, s.id \in 1..Len(reqs), Faithful(s), Sourced(s),
           /\ reqs'[s.id].status = reqs[s.id].status /\ reqs'[s.id].kind = reqs[s.id].kind
           /\ reqs'[s.id].conn = reqs[s.id].conn /\ reqs'[s.id].by = reqs[s.id].by
           /\ reqs'[s.id].ctx = reqs[s.id].ctx,
           \A q \in 1..Len(reqs) : reqs[q].fate = "lost" =>
               /\ reqs'[q].fate = "lost" /\ reqs'[q].kind = reqs[q].kind
               /\ reqs'[q].ctx = reqs[q].ctx /\ reqs'[q].by = reqs[q].by,
           Len(reqs) \in Nat
    PROVE  Faithful(s)' /\ Sourced(s)'
<1>1. Faithful(s)'
  BY DEF Faithful, ErrorOf
<1>2. \A q \in 1..s.id - 1 : q \in 1..Len(reqs)
  OBVIOUS
<1>3. Sourced(s)'
  BY <1>2 DEF Sourced, LostIn
<1> QED
  BY <1>1, <1>3

LEMMA SummariesFrame ==
    ASSUME Typed, Logged, Summaries, store' = store,
           \A q \in 1..Len(reqs) : q \in ToSet(log) =>
               /\ reqs'[q].status = reqs[q].status /\ reqs'[q].kind = reqs[q].kind
               /\ reqs'[q].conn = reqs[q].conn /\ reqs'[q].by = reqs[q].by
               /\ reqs'[q].ctx = reqs[q].ctx,
           \A q \in 1..Len(reqs) : reqs[q].fate = "lost" =>
               /\ reqs'[q].fate = "lost" /\ reqs'[q].kind = reqs[q].kind
               /\ reqs'[q].ctx = reqs[q].ctx /\ reqs'[q].by = reqs[q].by
    PROVE  Summaries'
<1>1. Len(reqs) \in Nat
  BY DEF Typed
<1>2. ASSUME NEW i \in 1..Len(store) PROVE Faithful(store[i])' /\ Sourced(store[i])'
  <2>1. PICK s : s = store[i]
    OBVIOUS
  <2>2. s \in SummaryType /\ s.id \in 1..Len(reqs) /\ s.id \in ToSet(log)
    BY <2>1, Stored
  <2>3. Faithful(s) /\ Sourced(s)
    BY <2>1 DEF Summaries
  <2>4. /\ reqs'[s.id].status = reqs[s.id].status /\ reqs'[s.id].kind = reqs[s.id].kind
        /\ reqs'[s.id].conn = reqs[s.id].conn /\ reqs'[s.id].by = reqs[s.id].by
        /\ reqs'[s.id].ctx = reqs[s.id].ctx
    BY <2>2
  <2>5. Faithful(s)' /\ Sourced(s)'
    BY <1>1, <2>2, <2>3, <2>4, SummaryFrame
  <2>6. store'[i] = s
    BY <2>1
  <2> QED
    BY <2>5, <2>6 DEF Faithful, Sourced
<1> QED
  BY <1>2 DEF Summaries

LEMMA SummariesAnswers ==
    ASSUME Typed, Owners, Phases, Logged, Summaries, NEW c \in Conns, NEW to, NEW r, NEW v,
           Answers(c, to, r, v)
    PROVE  Summaries'
<1>1. at[c] = "handling" /\ Changes(Serving(c), r) /\ store' = store
  BY DEF Answers
<1>2. \A q \in 1..Len(reqs) : q # Serving(c) => reqs'[q] = reqs[q]
  BY <1>1 DEF Changes
<1>3. Serving(c) \notin ToSet(log)
  BY <1>1 DEF Phases, Phase
<1>4. reqs[Serving(c)].fate # "lost"
  BY <1>1 DEF Owners, Request
<1> QED
  BY <1>1, <1>2, <1>3, <1>4, SummariesFrame

LEMMA SummariesEnds ==
    ASSUME Typed, Owners, Logged, Summaries, NEW c \in Conns, NEW to, Ends(c, to)
    PROVE  Summaries'
<1>1. /\ at[c] # "closed" /\ store' = store
      /\ \A p \in 1..Len(reqs) : /\ SameBody(reqs'[p], reqs[p])
                                 /\ p # Serving(c) => reqs'[p] = reqs[p]
  BY EndsFacts
<1>2. reqs[Serving(c)].fate # "lost"
  BY <1>1 DEF Owners, Request
<1> QED
  BY <1>1, <1>2, SummariesFrame DEF SameBody

LEMMA SummariesArrives ==
    ASSUME Typed, Logged, Summaries, NEW c \in Conns, NEW x, NEW r, Arrives(c, x, r)
    PROVE  Summaries'
<1>1. /\ store' = store
      /\ \A p \in 1..Len(reqs) : reqs'[p] = reqs[p]
  BY ArrivalFacts DEF Arrives
<1> QED
  BY <1>1, SummariesFrame

LEMMA SummariesMoves ==
    ASSUME Typed, Logged, Summaries, NEW q, NEW r, Moves(q, r)
    PROVE  Summaries'
<1>1. /\ store' = store /\ Changes(q, r) /\ reqs \in Seq(RequestType)
      /\ r.status = reqs[q].status /\ r.by = reqs[q].by /\ r.fate = reqs[q].fate
  BY DEF Moves, Typed
<1>2. \A p \in 1..Len(reqs) : /\ reqs'[p].conn = reqs[p].conn /\ reqs'[p].kind = reqs[p].kind
                              /\ reqs'[p].ctx = reqs[p].ctx
  BY <1>1, ChangeFacts
<1>3. \A p \in 1..Len(reqs) : /\ reqs'[p].status = reqs[p].status /\ reqs'[p].by = reqs[p].by
                              /\ reqs'[p].fate = reqs[p].fate
  BY <1>1 DEF Changes
<1> QED
  BY <1>1, <1>2, <1>3, SummariesFrame

\* The new summary is that of the request of connection c, and the provider in
\* its context is of that request or of a stream that was lost before.
LEMMA NewSummary ==
    ASSUME Typed, Owners, Phases, Origins, NEW c \in Conns, NEW s, Summarises(c, s)
    PROVE  Faithful(s) /\ Sourced(s)
<1>1. /\ at[c] = "returned" /\ s \in SummaryType
      /\ s.id = Values(c).id /\ s.key = Values(c).key
      /\ s.stream = Values(c).stream /\ s.provider = Values(c).provider
      /\ s.error = Values(c).error /\ s.status = Request(c).status
  BY DEF Summarises
<1>2. Told(Values(c), Request(c)) /\ Values(c).id = Serving(c)
  BY <1>1 DEF Phases, Phase
<1>3. /\ Serving(c) \in 1..Len(reqs) /\ Request(c).ctx = ctx[c] /\ ctx[c] \in Ctxs
      /\ \A d \in Conns : d # c => ctx[d] # ctx[c]
  BY <1>1, OpenConnection
<1>4. reqs[s.id] = Request(c)
  BY <1>1, <1>2 DEF Request
<1>5. Faithful(s)
  BY <1>1, <1>2, <1>4 DEF Faithful, Told
<1>6. Sourced(s)
  <2> DEFINE x == ctx[c]
  <2>1. s.provider = values[x].provider /\ x \in Ctxs
    BY <1>1, <1>3 DEF Values
  <2>2. Origin(x)
    BY <2>1 DEF Origins
  <2>3. CASE s.provider = ""
    BY <2>3 DEF Sourced
  <2>4. CASE \E d \in Conns : ctx[d] = x /\ at[d] \in Busy /\ values[x].provider = Request(d).by
    <3>1. s.provider = Request(c).by
      BY <1>3, <2>1, <2>4
    <3> QED
      BY <1>4, <3>1 DEF Sourced
  <2>5. ASSUME NEW q \in 1..Len(reqs), LostIn(x, values[x].provider, q)
        PROVE  Sourced(s)
    <3>1. q < Serving(c)
      BY <1>1, <2>5 DEF LostIn, Origins, LostBefore
    <3>2. q \in 1..s.id - 1
      BY <1>1, <1>2, <1>3, <3>1
    <3>3. LostIn(reqs[s.id].ctx, s.provider, q)
      BY <1>3, <1>4, <2>1, <2>5
    <3> QED
      BY <3>2, <3>3 DEF Sourced
  <2> QED
    BY <2>1, <2>2, <2>3, <2>4, <2>5 DEF Origin
<1> QED
  BY <1>5, <1>6

LEMMA SummariesSummarises ==
    ASSUME Typed, Owners, Phases, Logged, Origins, Summaries,
           NEW c \in Conns, NEW s, Summarises(c, s)
    PROVE  Summaries'
<1>1. reqs' = reqs /\ s \in SummaryType /\ store' = Add(store, s)
  BY DEF Summarises
<1>2. Faithful(s) /\ Sourced(s)
  BY NewSummary
<1>3. store \in Seq(SummaryType) /\ Len(store) <= Capacity
  BY Constants DEF Typed, Logged
<1> DEFINE drop == IF Len(store) >= Capacity THEN 1 ELSE 0
<1>4. /\ store' \in Seq(SummaryType) /\ store'[Len(store')] = s
      /\ \A i \in 1..(Len(store') - 1) : i + drop \in 1..Len(store) /\ store'[i] = store[i + drop]
  BY <1>1, <1>3, AddFacts
<1> HIDE DEF drop
<1>5. ASSUME NEW i \in 1..Len(store') PROVE Faithful(store'[i]) /\ Sourced(store'[i])
  <2>1. CASE i = Len(store')
    BY <1>2, <1>4, <2>1
  <2>2. CASE i # Len(store')
    <3>1. i \in 1..(Len(store') - 1)
      BY <1>4, <2>2
    <3> QED
      BY <1>4, <3>1 DEF Summaries
  <2> QED
    BY <2>1, <2>2
<1>6. ASSUME NEW t, Faithful(t) /\ Sourced(t) PROVE Faithful(t)' /\ Sourced(t)'
  <2>1. Faithful(t)'
    BY <1>1, <1>6 DEF Faithful
  <2>2. Sourced(t)'
    BY <1>1, <1>6 DEF Sourced, LostIn
  <2> QED
    BY <2>1, <2>2
<1>7. ASSUME NEW i \in 1..Len(store') PROVE Faithful(store[i])' /\ Sourced(store[i])'
  <2>1. PICK t : t = store'[i]
    OBVIOUS
  <2>2. Faithful(t)' /\ Sourced(t)'
    BY <1>5, <1>6, <2>1
  <2> QED
    BY <2>1, <2>2 DEF Faithful, Sourced
<1> QED
  BY <1>7 DEF Summaries

-----------------------------------------------------------------------------
(* The invariant *)

LEMMA HttpInit == Init => HttpInv
<1> SUFFICES ASSUME Init PROVE HttpInv
  OBVIOUS
<1>1. Typed
  BY TypedInit
<1>2. /\ \A c \in Conns : at[c] = "closed" /\ ctx[c] = NoCtx
      /\ reqs = <<>> /\ store = <<>> /\ log = <<>>
      /\ \A x \in Ctxs : values[x] = Unset
  BY DEF Init
<1>3. Len(reqs) = 0 /\ Len(store) = 0 /\ Len(log) = 0 /\ DOMAIN log = {}
  BY <1>2
<1>4. \A q : q \notin 1..Len(reqs) /\ q \notin 1..Len(store) /\ q \notin 1..Len(log)
  BY <1>3
<1>5. Owners
  BY <1>2, <1>4 DEF Owners
<1>6. Bodies /\ Lists /\ Summaries
  BY <1>4 DEF Bodies, Lists, Summaries
<1>7. Phases
  BY <1>2, UnsetType DEF Phases, Phase, Released
<1>8. Logged
  BY <1>3, <1>4, Constants DEF Logged, IsInjective
<1>9. Origins
  BY <1>2, <1>4, UnsetType DEF Origins, LostBefore, Origin
<1> QED
  BY <1>1, <1>5, <1>6, <1>7, <1>8, <1>9 DEF HttpInv

LEMMA HttpStays == HttpInv /\ UNCHANGED vars => HttpInv'
<1> SUFFICES ASSUME HttpInv, UNCHANGED vars PROVE HttpInv'
  OBVIOUS
<1>1. /\ at' = at /\ ctx' = ctx /\ values' = values /\ reqs' = reqs /\ store' = store
      /\ log' = log
  BY DEF vars
<1>2. Typed' /\ Bodies' /\ Logged'
  BY <1>1 DEF HttpInv, Typed, Bodies, Logged
<1>3. \A c : /\ Serving(c)' = Serving(c) /\ Request(c)' = Request(c)
             /\ Values(c)' = Values(c)
  BY <1>1 DEF Serving, Request, Values
<1>4. Owners'
  BY <1>1, <1>3 DEF HttpInv, Owners, Latest
<1>5. Phases'
  BY <1>1, <1>3 DEF HttpInv, Phases, Phase, Released
<1>6. Origins'
  BY <1>1, <1>3 DEF HttpInv, Origins, LostBefore, Origin, LostIn
<1>7. Lists'
  <2>1. \A q, n : Seen(q, n) => Seen(q, n)'
    BY <1>1 DEF Seen
  <2>2. \A l, n : ListedAt(l, n) => ListedAt(l, n)'
    BY <1>1, <2>1 DEF ListedAt, Capacity
  <2>3. \A l : Listed(l) => Listed(l)'
    <3> SUFFICES ASSUME NEW l, Listed(l), reqs[l].kind = "list" PROVE Listed(l)'
      BY <1>1 DEF Listed
    <3>1. CASE /\ \E c \in Conns : reqs[l].conn = c /\ at[c] = "handling" /\ l = Serving(c)
               /\ \A q \in reqs[l].answered : Seen(q, Len(log))
      <4>1. \A q \in reqs[l].answered : Seen(q, Len(log))'
        BY <1>1, <2>1, <3>1
      <4> QED
        BY <1>1, <1>3, <3>1, <4>1 DEF Listed
    <3>2. ASSUME NEW n \in 0..Len(log), ListedAt(l, n) PROVE Listed(l)'
      BY <1>1, <2>2, <3>2 DEF Listed
    <3> QED
      BY <3>1, <3>2 DEF Listed
  <2> QED
    BY <1>1, <2>3 DEF HttpInv, Lists
<1>8. Summaries'
  BY <1>1 DEF HttpInv, Summaries, Faithful, Sourced, LostIn
<1> QED
  BY <1>2, <1>4, <1>5, <1>6, <1>7, <1>8 DEF HttpInv

LEMMA HttpNext == HttpInv /\ [Next]_vars => HttpInv'
<1> SUFFICES ASSUME HttpInv, [Next]_vars PROVE HttpInv'
  OBVIOUS
<1>0. Typed /\ Owners /\ Bodies /\ Phases /\ Logged /\ Origins /\ Lists /\ Summaries
  BY DEF HttpInv
<1>1. ASSUME NEW c \in Conns, NEW to, NEW r, NEW v, Answers(c, to, r, v) PROVE HttpInv'
  <2>1. Bodies' /\ Logged'
    BY <1>0, <1>1, BodiesKept, LoggedKept
  <2>2. Typed' /\ Owners' /\ Phases'
    BY <1>0, <1>1, TypedAnswers, OwnersAnswers, PhasesAnswers
  <2>3. Origins' /\ Lists' /\ Summaries'
    BY <1>0, <1>1, OriginsAnswers, ListsAnswers, SummariesAnswers
  <2> QED
    BY <2>1, <2>2, <2>3 DEF HttpInv
<1>2. ASSUME NEW c \in Conns, NEW s, Summarises(c, s) PROVE HttpInv'
  <2>1. Bodies' /\ Logged'
    BY <1>0, <1>2, BodiesKept, LoggedSummarises
  <2>2. Typed' /\ Owners' /\ Phases'
    BY <1>0, <1>2, TypedSummarises, OwnersSummarises, PhasesSummarises
  <2>3. Origins' /\ Lists' /\ Summaries'
    BY <1>0, <1>2, OriginsSummarises, ListsSummarises, SummariesSummarises
  <2> QED
    BY <2>1, <2>2, <2>3 DEF HttpInv
<1>3. ASSUME NEW c \in Conns, NEW to, Ends(c, to) PROVE HttpInv'
  <2>1. Bodies' /\ Logged'
    BY <1>0, <1>3, BodiesKept, LoggedKept
  <2>2. Typed' /\ Owners' /\ Phases'
    BY <1>0, <1>3, TypedEnds, OwnersEnds, PhasesEnds
  <2>3. Origins' /\ Lists' /\ Summaries'
    BY <1>0, <1>3, OriginsEnds, ListsEnds, SummariesEnds
  <2> QED
    BY <2>1, <2>2, <2>3 DEF HttpInv
<1>4. ASSUME NEW c \in Conns, NEW x, NEW r, Arrives(c, x, r) PROVE HttpInv'
  <2>1. Bodies' /\ Logged'
    BY <1>0, <1>4, BodiesKept, LoggedKept
  <2>2. Typed' /\ Owners' /\ Phases'
    BY <1>0, <1>4, ArrivalFacts, OwnersArrives, PhasesArrives
  <2>3. Origins' /\ Lists' /\ Summaries'
    BY <1>0, <1>4, OriginsArrives, ListsArrives, SummariesArrives
  <2> QED
    BY <2>1, <2>2, <2>3 DEF HttpInv
<1>5. ASSUME NEW q, NEW r, Moves(q, r) PROVE HttpInv'
  <2>1. PICK c \in Conns : c = reqs[q].conn
    <3>1. reqs[q] \in RequestType
      BY <1>0, <1>5 DEF Moves, Changes, Typed
    <3> QED
      BY <3>1 DEF RequestType
  <2>2. Bodies' /\ Logged'
    BY <1>0, <1>5, <2>1, BodiesKept, LoggedKept
  <2>3. Typed' /\ Owners' /\ Phases'
    BY <1>0, <1>5, TypedMoves, OwnersMoves, PhasesMoves
  <2>4. Origins' /\ Lists' /\ Summaries'
    BY <1>0, <1>5, OriginsMoves, ListsMoves, SummariesMoves
  <2> QED
    BY <2>2, <2>3, <2>4 DEF HttpInv
<1>6. ASSUME NEW c \in Conns, ConnStep(c) PROVE HttpInv'
  <2>1. CASE at[c] = "handling" /\ Handler(c)
    BY <1>0, <1>1, <2>1, HandlerAnswers
  <2>2. CASE DebugSummary(c)
    BY <1>0, <1>2, <2>2, Summary
  <2>3. CASE RespondEnds(c) \/ ClientLost(c)
    BY <1>0, <1>3, <2>3, ConnectionEnds
  <2>4. CASE RespondPiece(c)
    BY <1>0, <1>5, <2>4, BodyMoves
  <2> QED
    BY <1>6, <2>1, <2>2, <2>3, <2>4 DEF ConnStep
<1>7. ASSUME NEW c \in Conns, Close(c) PROVE HttpInv'
  BY <1>0, <1>3, <1>7, ConnectionEnds
<1>8. ASSUME Len(reqs) < Requests, NEW c \in Conns, NEW kind \in Kinds[Len(reqs) + 1],
             Arrive(c, kind)
      PROVE  HttpInv'
  BY <1>0, <1>4, <1>8, Arrival
<1>9. ASSUME NEW q \in DOMAIN reqs, StreamBreaks(q) \/ WriterStep(q) PROVE HttpInv'
  BY <1>0, <1>5, <1>9, BodyMoves
<1>10. CASE Terminating \/ UNCHANGED vars
  BY <1>10, HttpStays DEF Terminating
<1> QED
  BY <1>6, <1>7, <1>8, <1>9, <1>10 DEF Next

LEMMA HttpInvariant == Spec => []HttpInv
BY HttpInit, HttpNext, PTL DEF Spec

\* Whatever the clients send, and in whatever order requests, summaries and the
\* writers of streams whose clients are gone take turns: an open connection has
\* a context of its own, the pipe below a stream never holds more than it can
\* while its client reads, the store never has more than its capacity, and no
\* request is summarised twice.
THEOREM HttpTypes == Spec => []TypeOK
<1>1. HttpInv => TypeOK
  <2> SUFFICES ASSUME HttpInv PROVE TypeOK
    OBVIOUS
  <2>1. Typed /\ Owners /\ Bodies /\ Logged
    BY DEF HttpInv
  <2>2. /\ at \in [Conns -> {"closed", "idle", "handling", "returned", "writing"}]
        /\ \A c \in Conns : at[c] = "closed" <=> ctx[c] = NoCtx
        /\ \A c, d \in Conns : c # d /\ ctx[c] = ctx[d] => ctx[c] = NoCtx
    BY <2>1 DEF Typed, Owners, Busy
  <2>3. values \in [Ctxs -> [id : 0..Requests, key : {""} \cup {VirtualKey(c) : c \in Conns},
                             stream : BOOLEAN, provider : Providers \cup {""},
                             error : {"", "internal_error"}]]
    BY <2>1 DEF Typed, ValuesType, Keys
  <2>4. \A q \in DOMAIN reqs :
           /\ reqs[q].read <= reqs[q].sent /\ reqs[q].sent <= Chunks + 1
           /\ reqs[q].fate # "lost" => reqs[q].sent - reqs[q].read <= PipeCap
    BY <2>1 DEF Bodies, BodyOK, Typed
  <2>5. Len(store) <= Capacity /\ IsInjective(log) /\ Len(reqs) <= Requests
    BY <2>1, Constants DEF Logged, Typed
  <2> QED
    BY <2>2, <2>3, <2>4, <2>5 DEF TypeOK
<1> QED
  BY <1>1, HttpInvariant, PTL

\* Request l has a list with q in it, or a full one of newer summaries only.
Finds(l, q) ==
    \/ q \in ToSet(reqs[l].listed)
    \/ /\ Len(reqs[l].listed) = Capacity
       /\ \A r \in ToSet(reqs[l].listed) :
             \E i, j \in DOMAIN log : i < j /\ log[i] = q /\ log[j] = r

\* A list that was answered was made after so many summaries, and what it leaves
\* out of those is older than all that it has.
LEMMA Newer ==
    ASSUME Typed, Logged, NEW l \in 1..Len(reqs), NEW n \in 0..Len(log), ListedAt(l, n),
           NEW q, NEW p \in 1..n, log[p] = q
    PROVE  Finds(l, q)
<1> DEFINE ids == reqs[l].listed
           k == Len(ids)
<1>1. /\ reqs[l] \in RequestType /\ log \in Seq(Nat) /\ DOMAIN log = 1..Len(log)
      /\ Len(log) \in Nat /\ n \in Nat
  BY DEF Typed
<1>2. ids \in Seq(Nat)
  BY <1>1 DEF RequestType
<1>3. /\ k = IF n <= Capacity THEN n ELSE Capacity
      /\ \A j \in 1..k : ids[j] = log[n - k + j]
  BY DEF ListedAt
<1>4. \A r : r \in ToSet(ids) <=> \E j \in 1..k : ids[j] = r
  BY <1>2 DEF ToSet
<1> HIDE DEF ids, k
<1>5. k \in Nat /\ k <= n /\ (k = n \/ k = Capacity) /\ p \in 1..Len(log)
  BY <1>1, <1>3, Constants
<1>6. CASE p > n - k
  <2> DEFINE j == p - (n - k)
  <2>1. j \in 1..k /\ n - k + j = p
    BY <1>1, <1>5, <1>6
  <2> HIDE DEF j
  <2>2. ids[j] = q
    BY <1>3, <2>1
  <2> QED
    BY <1>4, <2>1, <2>2 DEF Finds, ids
<1>7. CASE ~(p > n - k)
  <2>1. k = Capacity
    BY <1>1, <1>5, <1>7
  <2>2. ASSUME NEW r \in ToSet(ids)
        PROVE  \E i, j \in DOMAIN log : i < j /\ log[i] = q /\ log[j] = r
    <3>1. PICK j \in 1..k : ids[j] = r
      BY <1>4
    <3>2. log[n - k + j] = r
      BY <1>3, <3>1
    <3>3. n - k + j \in 1..Len(log) /\ p < n - k + j
      BY <1>1, <1>5, <1>7
    <3> QED
      BY <1>1, <1>5, <3>2, <3>3
  <2> QED
    BY <2>1, <2>2 DEF Finds, ids, k
<1> QED
  BY <1>6, <1>7

\* The answer that a client has read is in every list asked for afterwards, on
\* any connection, unless newer summaries fill the store: the summary is made
\* before the response is written, however many clients there are.
THEOREM AnswersAreListed == Spec => []AnsweredIsListed
<1>1. HttpInv => AnsweredIsListed
  <2> SUFFICES ASSUME HttpInv, NEW l \in DOMAIN reqs, reqs[l].kind = "list", l \in ToSet(log),
                      NEW q \in reqs[l].answered, ~reqs[q].panicked
               PROVE  Finds(l, q)
    BY DEF AnsweredIsListed, Finds
  <2>1. Typed /\ Phases /\ Logged /\ Lists /\ l \in 1..Len(reqs)
    BY DEF HttpInv, Typed
  <2>2. ~\E c \in Conns : at[c] = "handling" /\ l = Serving(c)
    BY <2>1 DEF Phases, Phase
  <2>3. PICK n \in 0..Len(log) : ListedAt(l, n)
    BY <2>1, <2>2 DEF Lists, Listed
  <2>4. Seen(q, n)
    BY <2>3 DEF ListedAt
  <2>5. PICK p \in 1..n : log[p] = q
    BY <2>4 DEF Seen
  <2> QED
    BY <2>1, <2>3, <2>5, Newer
<1> QED
  BY <1>1, HttpInvariant, PTL

\* Every summary in the store tells the key, the kind and the status of its own
\* request, and an error only of one that failed, however contexts are reused
\* and whatever late writers store in them.
THEOREM SummariesMatch == Spec => []SummaryMatchesRequest
<1>1. HttpInv => SummaryMatchesRequest
  <2> SUFFICES ASSUME HttpInv PROVE SummaryMatchesRequest
    OBVIOUS
  <2>1. DOMAIN store = 1..Len(store)
    BY DEF HttpInv, Typed
  <2>2. \A i \in 1..Len(store) : Faithful(store[i])
    BY DEF HttpInv, Summaries
  <2> QED
    BY <2>1, <2>2 DEF Faithful, SummaryMatchesRequest
<1> QED
  BY <1>1, HttpInvariant, PTL

\* A summary that names a provider other than its request's has it from the
\* writer of an earlier stream in the same context whose client was lost: no
\* other interleaving makes one.
THEOREM OnlyLostStreamsMislead == Spec => []OtherProviderNeedsLostStream
<1>1. HttpInv => OtherProviderNeedsLostStream
  <2> SUFFICES ASSUME HttpInv PROVE OtherProviderNeedsLostStream
    OBVIOUS
  <2>1. DOMAIN store = 1..Len(store)
    BY DEF HttpInv, Typed
  <2>2. \A i \in 1..Len(store) : Sourced(store[i])
    BY DEF HttpInv, Summaries
  <2> QED
    BY <2>1, <2>2 DEF Sourced, LostIn, OtherProviderNeedsLostStream
<1> QED
  BY <1>1, HttpInvariant, PTL

=============================================================================
