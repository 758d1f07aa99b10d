------------------------------ MODULE Pipeline ------------------------------
(***************************************************************************)
(* The plugin pipeline (plugin/pipeline.go) around the attempts of one     *)
(* request: PreHooks in order, the execution, PostHooks in reverse, and    *)
(* then perhaps the next provider with hooks of its own.  A streamed       *)
(* request runs the same pipeline differently: a short circuit does run    *)
(* PostHooks, an attempt that has no stream does not, and nothing is tried *)
(* after PostHooks.  The chain is the one Routing makes of a configuration *)
(* with which the process starts.                                          *)
(***************************************************************************)
EXTENDS Routing

CONSTANTS
    Plugins,    \* the number of plugins of the pipeline
    Configs     \* the configurations to start with

ASSUME PipelineAssumption ==
    /\ Plugins \in Nat
    /\ \E cfg \in Configs : Bootstraps(cfg)

VARIABLES
    cfg,       \* the configuration of the process
    streamed,  \* the request is streamed
    pc,        \* pre, execute, post, refused, answered or failed
    pos,       \* fallbackIndex + 1
    executed,  \* executedCount of RunPreHooks
    left,      \* the PostHooks that are to run
    err,       \* the current error
    outcome,   \* what the execution itself came to in this attempt (history)
    events,    \* the hooks this attempt has run (history)
    decided,   \* what PostHooks made of the error by themselves (history)
    fate       \* what became of each attempt at a provider (history)

pipeVars == <<cfg, streamed, pc, pos, executed, left, err, outcome, events, decided, fate>>

-----------------------------------------------------------------------------
\* The handler names no provider, so prepareRequest takes the default.
Names == Chain(cfg, cfg.default)
Present == Names[pos] \in Registered(cfg)

Errors == {"plain", "fatal"}

\* What a PostHook does with the error: return it, return another, or none.
PostKinds == {"pass", "fail", "recover"}

Pre(i) == <<"pre", i>>
Post(i) == <<"post", i>>

PipelineInit ==
    /\ cfg \in {c \in Configs : Bootstraps(c)}
    /\ streamed \in BOOLEAN
    /\ pc = "pre"
    /\ pos = 1
    /\ executed = 0
    /\ left = 0
    /\ err = "none"
    /\ outcome = "notrun"
    /\ events = <<>>
    /\ decided = {}
    /\ fate = <<>>

\* RunPreHooks calls the next PreHook.
CallPre ==
    /\ pc = "pre" /\ executed < Plugins
    /\ events' = Append(events, Pre(executed + 1))

PreHook ==
    /\ CallPre
    /\ executed' = executed + 1
    /\ UNCHANGED <<cfg, streamed, pc, pos, left, err, outcome, decided, fate>>

\* The error ends the attempt; the PostHooks of the plugins before are not run.
PreHookFails(e) ==
    /\ CallPre
    /\ err' = e
    /\ pc' = "refused"
    /\ fate' = Append(fate, "refused")
    /\ UNCHANGED <<cfg, streamed, pos, executed, left, outcome, decided>>

\* handleRequestWithPlugins returns the response at once, the stream variant
\* runs the PostHooks of the plugins up to this one.
ShortCircuit ==
    /\ CallPre
    /\ executed' = executed + 1
    /\ left' = IF streamed THEN executed + 1 ELSE 0
    /\ pc' = IF streamed THEN "post" ELSE "answered"
    /\ UNCHANGED <<cfg, streamed, pos, err, outcome, decided, fate>>

PreHooksDone ==
    /\ pc = "pre" /\ executed = Plugins
    /\ pc' = "execute"
    /\ UNCHANGED <<cfg, streamed, pos, executed, left, err, outcome, events, decided, fate>>

\* A failed execution returns before the PostHooks.
BugExecute(e) ==
    /\ pc = "execute"
    /\ Present \/ (e = "plain" /\ ~streamed)
    /\ err' = e
    /\ outcome' = e
    /\ left' = IF e = "none" THEN executed ELSE 0
    /\ pc' = "post"
    /\ fate' = Append(fate, IF Present THEN "asked" ELSE "absent")
    /\ UNCHANGED <<cfg, streamed, pos, executed, events, decided>>

\* executeRequest, or the stream up to its end: the PostHooks get the outcome.
\* Without a queue for the name there is an error like another.
Execute(e) ==
    /\ pc = "execute"
    /\ Present \/ (e = "plain" /\ ~streamed)
    /\ err' = e
    /\ outcome' = e
    /\ left' = executed
    /\ pc' = "post"
    /\ fate' = Append(fate, IF Present THEN "asked" ELSE "absent")
    /\ UNCHANGED <<cfg, streamed, pos, executed, events, decided>>

\* handleProviderStreamAttempt finds no provider or gets no channel from it: no
\* hook hears of it.
NoStream ==
    /\ pc = "execute"
    /\ streamed
    /\ err' = "plain"
    /\ outcome' = "nostream"
    /\ pc' = "refused"
    /\ fate' = Append(fate, IF Present THEN "asked" ELSE "absent")
    /\ UNCHANGED <<cfg, streamed, pos, executed, left, events, decided>>

\* The hooks run in the order of registration.
BugPostHook(kind) ==
    /\ pc = "post" /\ left > 0
    /\ events' = Append(events, Post(executed - left + 1))
    /\ left' = left - 1
    /\ decided' = decided \cup ({kind} \ {"pass"})
    /\ err' = CASE kind = "fail" -> "plain" [] kind = "recover" -> "none" [] OTHER -> err
    /\ UNCHANGED <<cfg, streamed, pc, pos, executed, outcome, fate>>

\* The error is formatted into the new one and not wrapped.
BugUnwrapped(kind) ==
    /\ pc = "post" /\ left > 0
    /\ events' = Append(events, Post(left))
    /\ left' = left - 1
    /\ decided' = decided \cup ({kind} \ {"pass"})
    /\ err' = IF kind = "recover" \/ (err = "none" /\ kind = "pass") THEN "none" ELSE "plain"
    /\ UNCHANGED <<cfg, streamed, pc, pos, executed, outcome, fate>>

\* The error of one hook is forgotten when the next one returns none.
BugForgetsError(kind) ==
    /\ pc = "post" /\ left > 0
    /\ events' = Append(events, Post(left))
    /\ left' = left - 1
    /\ decided' = decided \cup ({kind} \ {"pass"})
    /\ err' = IF kind = "fail" THEN "plain" ELSE "none"
    /\ UNCHANGED <<cfg, streamed, pc, pos, executed, outcome, fate>>

\* RunPostHooks: a hook may hand on the error it gets, which is wrapped and so
\* stays what it is; fail with an error of its own, which takes its place; or
\* return none.
PostHook(kind) ==
    /\ pc = "post" /\ left > 0
    /\ events' = Append(events, Post(left))
    /\ left' = left - 1
    /\ decided' = decided \cup ({kind} \ {"pass"})
    /\ err' = CASE kind = "fail" -> "plain" [] kind = "recover" -> "none" [] OTHER -> err
    /\ UNCHANGED <<cfg, streamed, pc, pos, executed, outcome, fate>>

PostHooksDone ==
    /\ pc = "post" /\ left = 0
    /\ pc' = IF err = "none" THEN "answered" ELSE IF streamed THEN "failed" ELSE "refused"
    /\ UNCHANGED <<cfg, streamed, pos, executed, left, err, outcome, events, decided, fate>>

\* HandleChat, HandleChatStream: the next provider, with hooks of its own.
NextAttempt ==
    /\ pc = "refused" /\ err # "fatal" /\ pos < Len(Names)
    /\ pos' = pos + 1
    /\ pc' = "pre"
    /\ executed' = 0
    /\ left' = 0
    /\ err' = "none"
    /\ outcome' = "notrun"
    /\ events' = <<>>
    /\ decided' = {}
    /\ UNCHANGED <<cfg, streamed, fate>>

Finish ==
    /\ pc = "refused"
    /\ err = "fatal" \/ pos = Len(Names)
    /\ pc' = "failed"
    /\ UNCHANGED <<cfg, streamed, pos, executed, left, err, outcome, events, decided, fate>>

\* Every step but the execution, the hooks that follow it and the next attempt.
PipelineStep ==
    \/ PreHook \/ ShortCircuit \/ PreHooksDone
    \/ \E e \in Errors : PreHookFails(e)
    \/ NoStream \/ PostHooksDone \/ Finish

-----------------------------------------------------------------------------
(* Properties *)

HasRun(h) == \E j \in 1..Len(events) : events[j] = h

\* The hooks of an attempt are nested: PostHooks run after all PreHooks, in
\* reverse, and only those of plugins whose PreHook succeeded (RunPreHooks,
\* RunPostHooks).
HooksNested ==
    \E n \in 0..Len(events) : \A i \in 1..Len(events) :
        events[i] = IF i <= n THEN Pre(i) ELSE Post(executed - (i - n) + 1)

\* The PostHooks hear of the end of an attempt if its execution came to an
\* outcome, or a plugin has answered a streamed request in the place of one.
Told ==
    \/ outcome \in Errors \cup {"none"}
    \/ outcome = "notrun" /\ streamed /\ ~HasRun(Pre(executed + 1))

\* What a plugin is told of an attempt that is over: every PostHook of a plugin
\* whose PreHook succeeded has run, whatever the execution and the hooks before
\* it came to, or none has.  None has after a PreHook that failed, a short
\* circuit that is not streamed, and an attempt that got no stream; after every
\* other end all have (handleRequestWithPlugins, handleStreamRequestWithPlugins).
PostHooksAllOrNone ==
    pc \in {"refused", "answered", "failed"} =>
        \A i \in 1..Plugins : HasRun(Post(i)) <=> Told /\ i <= executed

\* No failed execution and no failed PostHook is answered as a success, unless
\* a PostHook returns none on purpose: neither registered plugin does.
FailureIsNeverAnswered ==
    pc = "answered" /\ "recover" \notin decided =>
        outcome \in {"none", "notrun"} /\ "fail" \notin decided

\* A configuration that starts may name providers that are disabled or unknown,
\* as a default or as a fallback.  They are never asked and never keep the
\* others from being asked: a request fails for want of an answer only after
\* every name of its chain had its turn (getQueue, MustGet, HandleChat).
WholeChainTried ==
    LET usable(n) == \E p \in ToSet(cfg.providers) :
                        p.enabled /\ n = IF p.name = "" THEN p.type ELSE p.name
    IN  /\ \A i \in 1..Len(fate) : fate[i] = "asked" => usable(Names[i])
        /\ \A i \in 1..Len(fate) : fate[i] = "absent" => ~usable(Names[i])
        /\ pc = "failed" /\ err # "fatal" /\ ~(streamed /\ HasRun(Post(1)))
           => Len(fate) = Len(Names)

\* A NonRetryableError of the execution stays one through all the PostHooks
\* that hand it on, each of which wraps it, and no other provider is tried
\* (HandleChat, RunPostHooks).
FatalIsFinal == [][pos' # pos /\ decided = {} => outcome # "fatal"]_pipeVars

=============================================================================
