------------------------------ MODULE ToolLoop ------------------------------
(***************************************************************************)
(* One request through HandleChat or HandleChatStream: the attempts and    *)
(* hooks of Pipeline with the tool loop (framework/tool) in the place of   *)
(* the execution.  The model is asked, the tools it calls are run and      *)
(* their results are added to the conversation, for at most MaxRounds      *)
(* rounds; a failure of a tool or of the model ends the execution, and the *)
(* next provider starts again from the conversation of the caller.         *)
(* Streamed requests and processes without tools skip the loop.  What a    *)
(* model call goes through is the subject of Dispatch; here it is an       *)
(* outcome.                                                                *)
(***************************************************************************)
EXTENDS Pipeline, Integers

CONSTANTS
    Accountant, \* the position of the governance plugin in the pipeline
    Limit,      \* the maxRounds given to NewLoop: 4 in NewGateway
    Callable,   \* the tools a model may call, registered or not
    MaxCalls    \* the largest number of tool calls of one response, for TLC

ASSUME ToolLoopAssumption ==
    /\ Accountant \in 1..Plugins
    /\ Limit \in Int
    /\ MaxCalls \in Nat \ {0}

VARIABLES
    loop,      \* where Loop.Execute is: off, model or tools
    round,     \* the rounds of the loop that are over
    messages,  \* the conversation of the execution
    calls,     \* the tool calls of the last response that are not run yet
    ran,       \* the tool calls run by this execution, in order (history)
    used,      \* the responses whose tokens were used (history)
    accounted  \* the responses whose tokens PostHook has counted

loopVars == <<loop, round, messages, calls, ran, used, accounted>>
vars == <<cfg, streamed, pc, pos, executed, left, err, outcome, events, decided, fate,
          loop, round, messages, calls, ran, used, accounted>>

-----------------------------------------------------------------------------
MaxRounds == IF Limit <= 0 THEN 4 ELSE Limit

\* A tool call is known by its round, its place in the response and its tool.
Call(i, name) == [round |-> round, index |-> i, name |-> name]

Requested == UNION {[1..n -> Callable] : n \in 1..MaxCalls}

Ask == [role |-> "user"]
Asked(cs) == [role |-> "assistant", calls |-> cs]
Result(c) == [role |-> "tool", call |-> c]

Init ==
    /\ PipelineInit
    /\ loop = "off"
    /\ round = 0
    /\ messages = <<Ask>>
    /\ calls = <<>>
    /\ ran = <<>>
    /\ used = 0
    /\ accounted = 0

\* executeRequest takes the loop if there is one and the request has tools.
HasLoop == ~streamed /\ Tools(cfg) # {}

\* The execution without a loop is one model call, or the stream.
ExecuteDirectly(e) ==
    /\ ~HasLoop
    /\ Execute(e)
    /\ used' = IF e = "none" THEN used + 1 ELSE used
    /\ UNCHANGED <<loop, round, messages, calls, ran, accounted>>

\* Execute: the loop works on a copy of the request of this attempt.
EnterLoop ==
    /\ pc = "execute" /\ loop = "off"
    /\ HasLoop
    /\ loop' = "model"
    /\ UNCHANGED <<pipeVars, round, messages, calls, ran, used, accounted>>

\* The number of rounds is not limited.
BugMayAsk == loop = "model"

\* The loop calls the model as long as it has rounds left.
MayAsk == loop = "model" /\ round < MaxRounds

\* Execute returns: with the last response or an error.
Leave(e) == Execute(e) /\ loop' = "off"

\* The model answers without tool calls: this response goes to the PostHooks.
ModelAnswers ==
    /\ MayAsk
    /\ Leave("none")
    /\ used' = used + 1
    /\ UNCHANGED <<round, messages, calls, ran, accounted>>

\* The model calls tools: its message goes back into the conversation.
ModelCallsTools(names) ==
    /\ MayAsk /\ Present
    /\ used' = used + 1
    /\ calls' = [i \in DOMAIN names |-> Call(i, names[i])]
    /\ messages' = Append(messages, Asked(calls'))
    /\ loop' = "tools"
    /\ UNCHANGED <<pipeVars, round, ran, accounted>>

\* handleProviderAttempt returns an error, which may be a NonRetryableError.
ModelFails(e) ==
    /\ MayAsk
    /\ Leave(e)
    /\ UNCHANGED <<round, messages, calls, ran, used, accounted>>

\* Every round was used for tools.
RoundsExhausted ==
    /\ loop = "model" /\ round >= MaxRounds
    /\ Leave("plain")
    /\ UNCHANGED <<round, messages, calls, ran, used, accounted>>

\* Registry.Execute: the next call of the response, in order.
ToolRuns ==
    /\ loop = "tools" /\ calls # <<>>
    /\ Head(calls).name \in Tools(cfg)
    /\ ran' = Append(ran, Head(calls))
    /\ messages' = Append(messages, Result(Head(calls)))
    /\ calls' = Tail(calls)
    /\ UNCHANGED <<pipeVars, loop, round, used, accounted>>

\* The tool is unknown or returns an error, as both built-in tools do when they
\* cannot parse their arguments: an error like another.
ToolFails ==
    /\ loop = "tools" /\ calls # <<>>
    /\ Leave("plain")
    /\ UNCHANGED <<round, messages, calls, ran, used, accounted>>

RoundEnds ==
    /\ loop = "tools" /\ calls = <<>>
    /\ round' = round + 1
    /\ loop' = "model"
    /\ UNCHANGED <<pipeVars, messages, calls, ran, used, accounted>>

\* The PostHooks in reverse; the one of governance never fails by itself and
\* counts the response it gets if there is no error.
RunPostHook(kind) ==
    /\ PostHook(kind)
    /\ left = Accountant => kind = "pass"
    /\ accounted' = IF left = Accountant /\ err = "none" THEN accounted + 1 ELSE accounted
    /\ UNCHANGED <<loop, round, messages, calls, ran, used>>

\* The next provider goes on from the conversation of the one that failed.
BugFallback ==
    /\ NextAttempt
    /\ round' = 0 /\ calls' = <<>> /\ ran' = <<>>
    /\ UNCHANGED <<messages, loop, used, accounted>>

\* HandleChat: CloneRequest takes the request of the caller, so the tool calls
\* of the failed attempt are forgotten, although they were run.
Fallback ==
    /\ NextAttempt
    /\ round' = 0 /\ calls' = <<>> /\ ran' = <<>>
    /\ messages' = <<Ask>>
    /\ UNCHANGED <<loop, used, accounted>>

Terminating == pc \in {"answered", "failed"} /\ UNCHANGED vars

Next ==
    \/ PipelineStep /\ UNCHANGED loopVars
    \/ \E e \in Errors \cup {"none"} : ExecuteDirectly(e)
    \/ EnterLoop \/ ModelAnswers
    \/ \E names \in Requested : ModelCallsTools(names)
    \/ \E e \in Errors : ModelFails(e)
    \/ RoundsExhausted
    \/ ToolRuns \/ ToolFails \/ RoundEnds
    \/ \E kind \in PostKinds : RunPostHook(kind)
    \/ Fallback
    \/ Terminating

Spec == Init /\ [][Next]_vars

-----------------------------------------------------------------------------
(* Properties *)

Turn(i) == messages[i].role = "assistant"

\* The k-th tool call of the message at i has its result k places behind the
\* message, or waits for it among the calls that are not run yet.
Served(i, k) ==
    LET call == messages[i].calls[k]
        waits == i + k - Len(messages)
    IN  IF waits <= 0 THEN messages[i + k] = Result(call)
        ELSE waits <= Len(calls) /\ calls[waits] = call

\* The model never sees a conversation that is not well-formed: it begins with
\* the question of the caller, and every tool call a model of this attempt has
\* made is answered at once, in order, before the model is asked again, after
\* rounds, failing hooks and fallbacks alike; no other result is in it, and
\* none is missing of a tool that was run (Execute, CloneRequest).
ConversationComplete ==
    /\ messages[1] = Ask
    /\ \A i \in 1..Len(messages) : Turn(i) => \A k \in 1..Len(messages[i].calls) : Served(i, k)
    /\ \A i \in 2..Len(messages) : Turn(i) \/
          /\ \E j \in 1..(i - 1) : Turn(j) /\ i - j <= Len(messages[j].calls)
          /\ \E r \in 1..Len(ran) : messages[i] = Result(ran[r])
    /\ \A r \in 1..Len(ran) : \E i \in 2..Len(messages) : messages[i] = Result(ran[r])
    /\ loop = "model" => calls = <<>>

\* No attempt asks the model more than MaxRounds times, whatever the model
\* wants, so the calls of a request are bounded by the length of its chain; and
\* no tool runs that the configuration does not allow.
RoundsBounded ==
    /\ round <= MaxRounds
    /\ used <= Len(fate) * MaxRounds + (IF loop = "off" THEN 0 ELSE MaxRounds)
    /\ \A i \in 1..Len(ran) : cfg.tools /\ ran[i].name \in Builtin
           /\ (cfg.allowed = <<>> \/ ran[i].name \in ToSet(cfg.allowed))

\* After a success the input and output tokens are accumulated (README.md,
\* the section on virtual keys): those of every response of the request.
AllTokensAccounted == pc = "answered" /\ outcome = "none" => accounted = used

=============================================================================
