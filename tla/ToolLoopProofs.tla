--------------------------- MODULE ToolLoopProofs ---------------------------
(* Theorems about ToolLoop and the Pipeline it extends, for any plugins,    *)
(* configurations, tools and limit of rounds.                               *)
EXTENDS ToolLoop, TLAPS

Record == [round : Nat, index : Nat, name : Callable]

LoopType ==
    /\ pc \in {"pre", "execute", "post", "refused", "answered", "failed"}
    /\ loop \in {"off", "model", "tools"}
    /\ round \in Nat
    /\ used \in Nat
    /\ fate \in Seq({"refused", "asked", "absent"})
    /\ calls \in Seq(Record)
    /\ ran \in Seq(Record)

LEMMA MaxRoundsPositive == MaxRounds \in Nat \ {0}
BY ToolLoopAssumption DEF ToolLoopAssumption, MaxRounds

LEMMA NewCalls ==
    ASSUME LoopType, NEW names \in Requested
    PROVE  [i \in DOMAIN names |-> Call(i, names[i])] \in Seq(Record)
<1>1. PICK n \in 1..MaxCalls : names \in [1..n -> Callable]
  BY DEF Requested
<1>2. n \in Nat /\ DOMAIN names = 1..n
  BY <1>1, ToolLoopAssumption DEF ToolLoopAssumption
<1>3. \A i \in 1..n : Call(i, names[i]) \in Record
  BY <1>1, <1>2 DEF Call, Record, LoopType
<1> QED
  BY <1>2, <1>3

LEMMA TypeNext == LoopType /\ [Next]_vars => LoopType'
<1> SUFFICES ASSUME LoopType, [Next]_vars PROVE LoopType'
  OBVIOUS
<1> USE DEF LoopType, loopVars, pipeVars
<1>1. ASSUME PipelineStep, UNCHANGED loopVars PROVE LoopType'
  <2>1. CASE PreHook \/ ShortCircuit \/ PreHooksDone \/ PostHooksDone \/ Finish
    BY <1>1, <2>1 DEF PreHook, ShortCircuit, PreHooksDone, PostHooksDone, Finish, CallPre
  <2>2. ASSUME NoStream \/ \E e \in Errors : PreHookFails(e) PROVE LoopType'
    <3>1. \E f \in {"refused", "asked", "absent"} : fate' = Append(fate, f)
      BY <2>2 DEF NoStream, PreHookFails
    <3>2. fate' \in Seq({"refused", "asked", "absent"})
      BY <3>1
    <3> QED
      BY <1>1, <2>2, <3>2 DEF NoStream, PreHookFails
  <2> QED
    BY <1>1, <2>1, <2>2 DEF PipelineStep
<1>2. ASSUME NEW e \in Errors \cup {"none"}, ExecuteDirectly(e) PROVE LoopType'
  BY <1>2 DEF ExecuteDirectly, Execute
<1>3. CASE EnterLoop
  BY <1>3 DEF EnterLoop
<1>4. CASE ModelAnswers
  BY <1>4 DEF ModelAnswers, Leave, Execute
<1>5. ASSUME NEW names \in Requested, ModelCallsTools(names) PROVE LoopType'
  BY <1>5, NewCalls DEF ModelCallsTools
<1>6. ASSUME NEW e \in Errors, ModelFails(e) PROVE LoopType'
  BY <1>6 DEF ModelFails, Leave, Execute
<1>7. CASE RoundsExhausted
  BY <1>7 DEF RoundsExhausted, Leave, Execute
<1>8. CASE ToolRuns
  <2>1. Head(calls) \in Record /\ Tail(calls) \in Seq(Record)
    BY <1>8 DEF ToolRuns
  <2> QED
    BY <1>8, <2>1 DEF ToolRuns
<1>9. CASE ToolFails
  BY <1>9 DEF ToolFails, Leave, Execute
<1>10. CASE RoundEnds
  BY <1>10 DEF RoundEnds
<1>11. ASSUME NEW kind \in PostKinds, RunPostHook(kind) PROVE LoopType'
  BY <1>11 DEF RunPostHook, PostHook
<1>12. CASE Fallback
  BY <1>12 DEF Fallback, NextAttempt
<1>13. CASE UNCHANGED vars
  BY <1>13 DEF vars
<1> QED
  BY <1>1, <1>2, <1>3, <1>4, <1>5, <1>6, <1>7, <1>8, <1>9, <1>10, <1>11, <1>12, <1>13
  DEF Next, Terminating

LEMMA TypeInit == Init => LoopType
BY DEF Init, PipelineInit, LoopType

-----------------------------------------------------------------------------
(* Errors *)

\* What is left of the outcome of an attempt in its error: nothing but a
\* PostHook turns a failure into a success or another error.
ErrorKept ==
    /\ pc \in {"pre", "execute"} => err = "none" /\ outcome = "notrun" /\ decided = {}
    /\ pc = "answered" => err = "none"
    /\ err = "none" /\ "recover" \notin decided =>
          outcome \in {"none", "notrun"} /\ "fail" \notin decided
    /\ outcome = "fatal" /\ decided = {} => err = "fatal"

LEMMA ErrorInit == Init => ErrorKept
BY DEF Init, PipelineInit, ErrorKept

\* All ways of ending the execution are alike to the PostHooks.
LEMMA ExecuteKept ==
    ASSUME ErrorKept, NEW e \in Errors \cup {"none"}, Execute(e)
    PROVE  ErrorKept'
BY DEF ErrorKept, Execute, Errors

LEMMA ErrorNext == ErrorKept /\ [Next]_vars => ErrorKept'
<1> SUFFICES ASSUME ErrorKept, [Next]_vars PROVE ErrorKept'
  OBVIOUS
<1>1. CASE PipelineStep
  <2> USE DEF ErrorKept
  <2>1. CASE PreHook \/ ShortCircuit \/ PreHooksDone
    BY <2>1 DEF PreHook, ShortCircuit, PreHooksDone, CallPre
  <2>2. ASSUME NEW e \in Errors, PreHookFails(e) PROVE ErrorKept'
    BY <2>2 DEF PreHookFails, CallPre, Errors
  <2>3. CASE NoStream \/ PostHooksDone \/ Finish
    BY <2>3 DEF NoStream, PostHooksDone, Finish
  <2> QED
    BY <1>1, <2>1, <2>2, <2>3 DEF PipelineStep
<1>2. ASSUME NEW e \in Errors \cup {"none"},
             \/ ExecuteDirectly(e)
             \/ ModelAnswers /\ e = "none"
             \/ ModelFails(e)
             \/ (RoundsExhausted \/ ToolFails) /\ e = "plain"
      PROVE  ErrorKept'
  BY <1>2, ExecuteKept DEF ExecuteDirectly, ModelAnswers, ModelFails, RoundsExhausted,
     ToolFails, Leave
<1>3. ASSUME EnterLoop \/ ToolRuns \/ RoundEnds \/ \E names \in Requested : ModelCallsTools(names)
      PROVE  ErrorKept'
  BY <1>3 DEF EnterLoop, ToolRuns, RoundEnds, ModelCallsTools, pipeVars, ErrorKept
<1>4. ASSUME NEW kind \in PostKinds, RunPostHook(kind) PROVE ErrorKept'
  <2> USE DEF RunPostHook, PostHook, ErrorKept
  <2>1. CASE kind = "pass"
    BY <1>4, <2>1
  <2>2. CASE kind = "fail"
    BY <1>4, <2>2
  <2>3. CASE kind = "recover"
    BY <1>4, <2>3
  <2> QED
    BY <2>1, <2>2, <2>3 DEF PostKinds
<1>5. CASE Fallback
  BY <1>5 DEF Fallback, NextAttempt, ErrorKept
<1>6. CASE UNCHANGED vars
  BY <1>6 DEF vars, ErrorKept
<1> QED
  BY <1>1, <1>2, <1>3, <1>4, <1>5, <1>6 DEF Next, Terminating, Errors

\* A failed execution or PostHook is never answered as a success, for any
\* number of plugins and any of them failing (RunPostHooks).
THEOREM NoFalseSuccess == Spec => []FailureIsNeverAnswered
<1>1. ErrorKept => FailureIsNeverAnswered
  BY DEF ErrorKept, FailureIsNeverAnswered
<1> QED
  BY <1>1, ErrorInit, ErrorNext, PTL DEF Spec

\* No chain is walked past a NonRetryableError that the PostHooks handed on,
\* however often it was wrapped (HandleChat).
THEOREM FatalStops == Spec => FatalIsFinal
<1>1. ErrorKept /\ [Next]_vars => [pos' # pos /\ decided = {} => outcome # "fatal"]_pipeVars
  <2> SUFFICES ASSUME ErrorKept, [Next]_vars, pos' # pos, decided = {}
               PROVE  outcome # "fatal"
    OBVIOUS
  <2>1. ASSUME ~Fallback PROVE FALSE
    BY <2>1 DEF Next, PipelineStep, PreHook, ShortCircuit, PreHooksDone, PreHookFails, NoStream,
       PostHooksDone, Finish, ExecuteDirectly, Execute, EnterLoop, ModelAnswers, ModelCallsTools,
       ModelFails, RoundsExhausted, ToolRuns, ToolFails, RoundEnds, RunPostHook, PostHook, Leave,
       Terminating, vars, pipeVars
  <2> QED
    BY <2>1 DEF Fallback, NextAttempt, ErrorKept
<1> QED
  BY <1>1, ErrorInit, ErrorNext, PTL DEF Spec, FatalIsFinal

-----------------------------------------------------------------------------
(* Rounds *)

\* The model calls of the attempts that are over, at most.
Spent == Len(fate) * MaxRounds

\* RoundsBounded, with the model calls of the current attempt round by round.
RoundsCounted ==
    /\ Bootstraps(cfg)
    /\ loop # "off" => pc = "execute" /\ HasLoop
    /\ pc = "pre" \/ (pc = "execute" /\ loop = "off") => round = 0
    /\ round <= MaxRounds
    /\ loop = "off" => used <= Spent
    /\ loop = "model" => used <= Spent + round
    /\ loop = "tools" => round < MaxRounds /\ used <= Spent + round + 1
    /\ \A i \in 1..Len(ran) : ran[i].name \in Tools(cfg)

LEMMA SpentGrows ==
    ASSUME LoopType, NEW f, fate' = Append(fate, f)
    PROVE  Spent' = Spent + MaxRounds
<1> DEFINE n == Len(fate)
<1>1. n \in Nat /\ Len(fate') = n + 1
  BY DEF LoopType
<1>2. (n + 1) * MaxRounds = n * MaxRounds + MaxRounds
  BY <1>1, MaxRoundsPositive
<1> QED
  BY <1>1, <1>2 DEF Spent, MaxRounds

LEMMA SpentType == LoopType => Spent \in Nat /\ MaxRounds \in Nat \ {0} /\ MaxRounds' = MaxRounds
BY MaxRoundsPositive DEF LoopType, Spent, MaxRounds

LEMMA RoundsInit == Init => RoundsCounted
<1> SUFFICES ASSUME Init PROVE RoundsCounted
  OBVIOUS
<1>1. LoopType /\ Len(fate) = 0
  BY TypeInit DEF Init, PipelineInit
<1>2. Spent = 0
  BY <1>1, MaxRoundsPositive DEF Spent
<1> QED
  BY <1>2, MaxRoundsPositive DEF Init, PipelineInit, RoundsCounted

LEMMA RoundsNext == LoopType /\ RoundsCounted /\ [Next]_vars => RoundsCounted'
<1> SUFFICES ASSUME LoopType, RoundsCounted, [Next]_vars PROVE RoundsCounted'
  OBVIOUS
<1>1. /\ Spent \in Nat /\ MaxRounds \in Nat \ {0} /\ MaxRounds' = MaxRounds
      /\ used \in Nat /\ round \in Nat
      /\ fate' = fate => Spent' = Spent
      /\ \A f : fate' = Append(fate, f) => Spent' = Spent + MaxRounds
  BY SpentType, SpentGrows DEF LoopType, Spent
<1>2. /\ cfg' = cfg => Bootstraps(cfg)' /\ Tools(cfg)' = Tools(cfg)
      /\ cfg' = cfg /\ streamed' = streamed => HasLoop' = HasLoop
      /\ cfg' = cfg /\ ran' = ran => \A i \in 1..Len(ran') : ran'[i].name \in Tools(cfg)'
  BY DEF RoundsCounted, HasLoop
<1> USE DEF RoundsCounted
<1>3. ASSUME PipelineStep, UNCHANGED loopVars PROVE RoundsCounted'
  <2>1. CASE PreHook \/ ShortCircuit \/ PreHooksDone \/ PostHooksDone \/ Finish
    BY <1>1, <1>2, <1>3, <2>1 DEF PreHook, ShortCircuit, PreHooksDone, PostHooksDone, Finish,
       CallPre, loopVars
  <2>2. ASSUME NoStream \/ \E e \in Errors : PreHookFails(e) PROVE RoundsCounted'
    <3>1. /\ loop = "off" /\ loop' = loop /\ UNCHANGED <<cfg, streamed, round, used, ran>>
          /\ pc' = "refused"
      BY <1>3, <2>2 DEF NoStream, PreHookFails, CallPre, HasLoop, loopVars
    <3>2. Spent' = Spent + MaxRounds
      BY <1>1, <2>2 DEF NoStream, PreHookFails
    <3> QED
      BY <1>1, <1>2, <3>1, <3>2
  <2> QED
    BY <1>3, <2>1, <2>2 DEF PipelineStep
<1>4. ASSUME NEW e, ExecuteDirectly(e) PROVE RoundsCounted'
  <2>1. /\ loop' = loop /\ round' = round /\ cfg' = cfg /\ ran' = ran
        /\ pc = "execute" /\ pc' = "post" /\ used' \in {used, used + 1}
    BY <1>4 DEF ExecuteDirectly, Execute
  <2>2. Spent' = Spent + MaxRounds
    BY <1>1, <1>4 DEF ExecuteDirectly, Execute
  <2>3. loop = "off"
    BY <1>4 DEF ExecuteDirectly, LoopType
  <2> QED
    BY <1>1, <1>2, <2>1, <2>2, <2>3
<1>5. CASE EnterLoop
  BY <1>1, <1>2, <1>5 DEF EnterLoop, pipeVars
<1>6. CASE ModelAnswers
  BY <1>1, <1>2, <1>6 DEF ModelAnswers, MayAsk, Leave, Execute
<1>7. ASSUME NEW names \in Requested, ModelCallsTools(names) PROVE RoundsCounted'
  BY <1>1, <1>2, <1>7 DEF ModelCallsTools, MayAsk, pipeVars
<1>8. ASSUME \/ \E e \in Errors : ModelFails(e)
             \/ RoundsExhausted \/ ToolFails
      PROVE  RoundsCounted'
  BY <1>1, <1>2, <1>8 DEF ModelFails, RoundsExhausted, ToolFails, MayAsk, Leave, Execute
<1>9. CASE ToolRuns
  <2>1. Head(calls) \in Record /\ ran \in Seq(Record)
    BY <1>9 DEF ToolRuns, LoopType
  <2>2. \A i \in 1..Len(ran') : ran'[i].name \in Tools(cfg)
    BY <1>9, <2>1 DEF ToolRuns
  <2> QED
    BY <1>1, <1>2, <1>9, <2>2 DEF ToolRuns, pipeVars
<1>10. CASE RoundEnds
  BY <1>1, <1>2, <1>10 DEF RoundEnds, pipeVars
<1>11. ASSUME NEW kind, RunPostHook(kind) PROVE RoundsCounted'
  BY <1>1, <1>2, <1>11 DEF RunPostHook, PostHook
<1>12. CASE Fallback
  BY <1>1, <1>2, <1>12 DEF Fallback, NextAttempt
<1>13. CASE UNCHANGED vars
  BY <1>1, <1>2, <1>13 DEF vars
<1> QED
  BY <1>3, <1>4, <1>5, <1>6, <1>7, <1>8, <1>9, <1>10, <1>11, <1>12, <1>13 DEF Next, Terminating

\* No attempt asks the model more often than NewLoop allows, and only tools run
\* that the configuration names (Loop.Execute, Registry.Execute).
THEOREM LoopEnds == Spec => []RoundsBounded
<1>1. LoopType /\ RoundsCounted => RoundsBounded
  <2> SUFFICES ASSUME LoopType, RoundsCounted PROVE RoundsBounded
    OBVIOUS
  <2>1. used <= Spent + (IF loop = "off" THEN 0 ELSE MaxRounds)
    BY SpentType DEF LoopType, RoundsCounted
  <2>2. ASSUME NEW i \in 1..Len(ran)
        PROVE  cfg.tools /\ ran[i].name \in Builtin
                  /\ (cfg.allowed = <<>> \/ ran[i].name \in ToSet(cfg.allowed))
    <3>1. ran[i].name \in Tools(cfg) /\ ToolsStart(cfg)
      BY DEF RoundsCounted, Bootstraps
    <3> HIDE DEF Builtin
    <3> QED
      BY <3>1 DEF Tools, ToolsStart, ToolNames
  <2> QED
    BY <2>1, <2>2 DEF RoundsCounted, RoundsBounded, Spent
<1> QED
  BY <1>1, TypeInit, TypeNext, RoundsInit, RoundsNext, PTL DEF Spec

-----------------------------------------------------------------------------
(* Hooks *)

\* The hooks of this attempt: some PreHooks, then PostHooks from the last one
\* that succeeded downwards.
NestedUpTo(n) ==
    \A i \in 1..Len(events) :
        events[i] = IF i <= n THEN Pre(i) ELSE Post(executed - (i - n) + 1)

\* HooksNested and PostHooksAllOrNone, with the number of hooks that have run in
\* each phase of an attempt; the one PreHook that failed is not among the
\* executed, and the PostHooks are entered only to tell of an attempt.
HooksCounted ==
    /\ events \in Seq({"pre", "post"} \X Nat)
    /\ executed \in 0..Plugins
    /\ left \in 0..executed
    /\ \/ NestedUpTo(executed)
       \/ pc \in {"refused", "failed"} /\ outcome = "notrun" /\ NestedUpTo(Len(events))
    /\ pc \in {"pre", "execute"} => Len(events) = executed
    /\ pc = "execute" => executed = Plugins
    /\ pc = "post" =>
          /\ Len(events) = executed + (executed - left)
          /\ NestedUpTo(executed) /\ Told
    /\ pc \in {"refused", "answered", "failed"} =>
          \/ Told /\ NestedUpTo(executed) /\ Len(events) = 2 * executed
          \/ ~Told /\ NestedUpTo(Len(events))

LEMMA HooksInit == Init => HooksCounted
BY PipelineAssumption DEF PipelineAssumption, Init, PipelineInit, HooksCounted, NestedUpTo, Errors

\* The hooks are told apart by their kind and their plugin.
LEMMA HookNames ==
    ASSUME NEW i, NEW j
    PROVE  Pre(i) # Post(j) /\ (Pre(i) = Pre(j) => i = j) /\ (Post(i) = Post(j) => i = j)
BY DEF Pre, Post

\* Of nested hooks no PreHook after the executed has run.
LEMMA NoOtherPre ==
    ASSUME NEW n \in Nat, NEW es, Len(es) \in Nat,
           \A i \in 1..Len(es) : (i <= n /\ es[i] = Pre(i)) \/ \E k \in Int : es[i] = Post(k)
    PROVE  ~\E i \in 1..Len(es) : es[i] = Pre(n + 1)
<1> SUFFICES ASSUME NEW i \in 1..Len(es), es[i] = Pre(n + 1) PROVE FALSE
  OBVIOUS
<1>1. CASE i <= n /\ es[i] = Pre(i)
  <2>1. i = n + 1
    BY <1>1, HookNames
  <2> QED
    BY <1>1, <2>1
<1>2. ASSUME NEW k \in Int, es[i] = Post(k) PROVE FALSE
  BY <1>2, HookNames
<1> QED
  BY <1>1, <1>2

\* What the hooks have done does not change with the execution itself.
LEMMA ExecutedHooks ==
    ASSUME HooksCounted, NEW e \in Errors \cup {"none"}, Execute(e)
    PROVE  HooksCounted'
<1>1. UNCHANGED <<executed, events>> /\ pc = "execute" /\ pc' = "post" /\ left' = executed
  BY DEF Execute
<1>2. NestedUpTo(executed)'
  BY <1>1 DEF HooksCounted, NestedUpTo
<1>3. Told'
  BY DEF Execute, Told
<1> QED
  BY <1>1, <1>2, <1>3 DEF HooksCounted

LEMMA HooksFrame ==
    ASSUME HooksCounted, UNCHANGED <<streamed, pc, executed, left, outcome, events>>
    PROVE  HooksCounted'
<1>1. Told' = Told
  BY DEF Told, HasRun
<1> QED
  BY <1>1 DEF HooksCounted, NestedUpTo

\* The next PreHook, whether it succeeds or not.
LEMMA CalledPre ==
    ASSUME HooksCounted, CallPre
    PROVE  /\ events' \in Seq({"pre", "post"} \X Nat)
           /\ Len(events') = executed + 1
           /\ \A i \in 1..Len(events') : events'[i] = Pre(i)
<1>1. Len(events) = executed /\ executed \in Nat /\ NestedUpTo(executed)
  BY PipelineAssumption DEF HooksCounted, CallPre, PipelineAssumption
<1>2. Pre(executed + 1) \in {"pre", "post"} \X Nat
  BY <1>1 DEF Pre
<1>3. /\ events \in Seq({"pre", "post"} \X Nat)
      /\ events' = Append(events, Pre(executed + 1))
      /\ \A i \in 1..Len(events) : events[i] = Pre(i)
  BY <1>1 DEF CallPre, HooksCounted, NestedUpTo
<1> QED
  BY <1>1, <1>2, <1>3

LEMMA HooksNext == HooksCounted /\ ErrorKept /\ [Next]_vars => HooksCounted'
<1> SUFFICES ASSUME HooksCounted, ErrorKept, [Next]_vars PROVE HooksCounted'
  OBVIOUS
<1>1. ASSUME PipelineStep, UNCHANGED loopVars PROVE HooksCounted'
  <2>1. ASSUME PreHook PROVE HooksCounted'
    <3>1. /\ executed' = executed + 1 /\ executed' \in 0..Plugins
          /\ UNCHANGED <<left, pc, outcome>> /\ pc = "pre" /\ CallPre
      BY <2>1, PipelineAssumption DEF PreHook, CallPre, HooksCounted, PipelineAssumption
    <3>2. NestedUpTo(executed)'
      BY <3>1, CalledPre DEF NestedUpTo
    <3> QED
      BY <3>1, <3>2, CalledPre DEF HooksCounted
  <2>2. ASSUME NEW e \in Errors, PreHookFails(e) PROVE HooksCounted'
    <3>1. /\ UNCHANGED <<executed, left, outcome>> /\ pc = "pre" /\ pc' = "refused" /\ CallPre
      BY <2>2 DEF PreHookFails, CallPre
    <3>2. NestedUpTo(Len(events))'
      BY <3>1, CalledPre DEF NestedUpTo
    <3>3. outcome = "notrun"
      BY <3>1 DEF ErrorKept
    <3>4. executed \in Nat /\ executed + 1 \in 1..Len(events')
      BY <3>1, CalledPre, PipelineAssumption DEF HooksCounted, PipelineAssumption
    <3>5. HasRun(Pre(executed + 1))'
      BY <3>1, <3>4, CalledPre DEF HasRun, Pre
    <3>6. ~Told'
      BY <3>1, <3>3, <3>5 DEF Told, Errors
    <3> QED
      BY <3>1, <3>2, <3>3, <3>6, CalledPre DEF HooksCounted, Errors
  <2>3. ASSUME ShortCircuit PROVE HooksCounted'
    <3>1. /\ executed' = executed + 1 /\ executed' \in 0..Plugins /\ left' \in {0, executed'}
          /\ (pc' = "post" /\ left' = executed') \/ pc' = "answered"
          /\ outcome' = outcome /\ pc = "pre" /\ CallPre
      BY <2>3, PipelineAssumption DEF ShortCircuit, CallPre, HooksCounted, PipelineAssumption
    <3>2. NestedUpTo(executed)'
      BY <3>1, CalledPre DEF NestedUpTo
    <3>3. outcome = "notrun"
      BY <3>1 DEF ErrorKept
    <3>4. /\ executed' \in Nat /\ left' \in 0..executed' /\ Len(events') = executed'
          /\ pc' = "post" => Len(events') = executed' + (executed' - left')
      BY <3>1, CalledPre
    <3>5. outcome' = "notrun" /\ pc' \notin {"pre", "execute", "refused", "failed"}
      BY <3>1, <3>3
    <3>6. ~\E i \in 1..Len(events') : events'[i] = Pre(executed' + 1)
      <4>1. \A i \in 1..Len(events') : i <= executed' /\ events'[i] = Pre(i)
        BY <3>4, CalledPre, <3>1
      <4>2. Len(events') \in Nat
        BY <3>4
      <4> QED
        BY <3>4, <4>1, <4>2, NoOtherPre
    <3>7. (pc' = "post" /\ streamed') \/ (pc' = "answered" /\ ~streamed')
      BY <2>3 DEF ShortCircuit
    <3>8. pc' = "post" => Told'
      BY <3>5, <3>6, <3>7 DEF Told, HasRun, Pre
    <3>9. pc' = "answered" => ~Told'
      BY <3>5, <3>7 DEF Told, Errors
    <3>10. NestedUpTo(Len(events))'
      BY <3>1, CalledPre DEF NestedUpTo
    <3> QED
      BY <3>1, <3>2, <3>4, <3>5, <3>8, <3>9, <3>10, CalledPre DEF HooksCounted
  <2>4. ASSUME PreHooksDone \/ NoStream \/ PostHooksDone \/ Finish PROVE HooksCounted'
    <3>1. /\ UNCHANGED <<executed, left, events>>
          /\ NestedUpTo(executed)' = NestedUpTo(executed)
          /\ NestedUpTo(Len(events))' = NestedUpTo(Len(events))
          /\ outcome' = outcome => Told' = Told
      BY <2>4 DEF PreHooksDone, NoStream, PostHooksDone, Finish, NestedUpTo, Told, HasRun
    <3>2. CASE PreHooksDone
      BY <3>1, <3>2 DEF PreHooksDone, HooksCounted
    <3>3. CASE NoStream
      <4>1. pc = "execute" /\ pc' = "refused" /\ outcome' = "nostream"
        BY <3>3 DEF NoStream
      <4>2. NestedUpTo(Len(events)) /\ NestedUpTo(executed)
        BY <4>1 DEF HooksCounted
      <4>3. ~Told'
        BY <4>1 DEF Told, Errors
      <4> QED
        BY <3>1, <4>1, <4>2, <4>3 DEF HooksCounted
    <3>4. CASE PostHooksDone
      <4>1. /\ pc = "post" /\ left = 0 /\ pc' \in {"answered", "failed", "refused"}
            /\ outcome' = outcome
        BY <3>4 DEF PostHooksDone
      <4>2. Len(events) = 2 * executed /\ NestedUpTo(executed) /\ Told
        BY <4>1, PipelineAssumption DEF HooksCounted, PipelineAssumption
      <4> QED
        BY <3>1, <4>1, <4>2 DEF HooksCounted
    <3>5. CASE Finish
      BY <3>1, <3>5 DEF Finish, HooksCounted
    <3> QED
      BY <2>4, <3>2, <3>3, <3>4, <3>5
  <2> QED
    BY <1>1, <2>1, <2>2, <2>3, <2>4 DEF PipelineStep
<1>2. ASSUME NEW e \in Errors \cup {"none"},
             \/ ExecuteDirectly(e)
             \/ ModelAnswers /\ e = "none"
             \/ ModelFails(e)
             \/ (RoundsExhausted \/ ToolFails) /\ e = "plain"
      PROVE  HooksCounted'
  BY <1>2, ExecutedHooks DEF ExecuteDirectly, ModelAnswers, ModelFails, RoundsExhausted,
     ToolFails, Leave
<1>3. ASSUME EnterLoop \/ ToolRuns \/ RoundEnds \/ \E names \in Requested : ModelCallsTools(names)
      PROVE  HooksCounted'
  BY <1>3, HooksFrame DEF EnterLoop, ToolRuns, RoundEnds, ModelCallsTools, pipeVars
<1>4. ASSUME NEW kind \in PostKinds, RunPostHook(kind) PROVE HooksCounted'
  <2>1. /\ pc = "post" /\ pc' = "post" /\ left > 0 /\ left' = left - 1
        /\ executed' = executed /\ events' = Append(events, Post(left))
        /\ UNCHANGED <<streamed, outcome>>
    BY <1>4 DEF RunPostHook, PostHook
  <2>2. /\ executed \in Nat /\ left \in 1..executed
        /\ Len(events) = executed + (executed - left) /\ NestedUpTo(executed)
    BY <2>1, PipelineAssumption DEF HooksCounted, PipelineAssumption
  <2>3. Post(left) \in {"pre", "post"} \X Nat
    BY <2>2 DEF Post
  <2> DEFINE n == Len(events)
  <2>4. /\ events' \in Seq({"pre", "post"} \X Nat)
        /\ n \in Nat /\ Len(events') = n + 1 /\ events'[n + 1] = Post(left)
        /\ \A i \in 1..n : events'[i] = events[i]
    BY <2>1, <2>3 DEF HooksCounted
  <2> HIDE DEF n
  <2>5. n = executed + (executed - left)
    BY <2>2 DEF n
  <2>6. left = executed - (n + 1 - executed) + 1 /\ n + 1 > executed
    BY <2>2, <2>4, <2>5
  <2>7. Len(events') = executed + (executed - left')
    BY <2>1, <2>2, <2>4, <2>5
  <2>8. \A i \in 1..Len(events') : i \in 1..n \/ i = n + 1
    BY <2>4
  <2>9. NestedUpTo(executed)'
    <3> SUFFICES ASSUME NEW i \in 1..Len(events')
                 PROVE  events'[i] = IF i <= executed THEN Pre(i) ELSE Post(executed - (i - executed) + 1)
      BY <2>1 DEF NestedUpTo, Pre, Post
    <3>1. CASE i \in 1..n
      BY <2>2, <2>4, <3>1 DEF NestedUpTo, n
    <3>2. CASE i = n + 1
      BY <2>2, <2>4, <2>6, <3>2
    <3> QED
      BY <2>8, <3>1, <3>2
  <2>10. executed \in 0..Plugins /\ left' \in 0..executed
    BY <2>1, <2>2 DEF HooksCounted
  <2>11. Told
    BY <2>1 DEF HooksCounted
  <2>12. \A i \in 1..Len(events') :
            (i <= executed /\ events'[i] = Pre(i)) \/ \E k \in Int : events'[i] = Post(k)
    <3> SUFFICES ASSUME NEW i \in 1..Len(events')
                 PROVE  (i <= executed /\ events'[i] = Pre(i)) \/ \E k \in Int : events'[i] = Post(k)
      OBVIOUS
    <3>1. events'[i] = IF i <= executed THEN Pre(i) ELSE Post(executed - (i - executed) + 1)
      BY <2>1, <2>9 DEF NestedUpTo, Pre, Post
    <3>2. i \in Int /\ executed - (i - executed) + 1 \in Int
      BY <2>2, <2>4
    <3> QED
      BY <3>1, <3>2
  <2>13. ~HasRun(Pre(executed + 1))'
    <3>1. ~\E i \in 1..Len(events') : events'[i] = Pre(executed + 1)
      <4>1. Len(events') \in Nat
        BY <2>4
      <4> QED
        BY <2>2, <2>12, <4>1, NoOtherPre
    <3> QED
      BY <2>1, <3>1 DEF HasRun, Pre
  <2>14. Told'
    BY <2>1, <2>11, <2>13 DEF Told
  <2> QED
    BY <2>1, <2>4, <2>7, <2>9, <2>10, <2>14 DEF HooksCounted
<1>5. CASE Fallback
  BY <1>5, PipelineAssumption DEF PipelineAssumption, Fallback, NextAttempt, HooksCounted, NestedUpTo, Errors
<1>6. CASE UNCHANGED vars
  BY <1>6, HooksFrame DEF vars
<1> QED
  BY <1>1, <1>2, <1>3, <1>4, <1>5, <1>6 DEF Next, Terminating, Errors

\* The hooks of every attempt are nested, for any number of plugins (RunPreHooks,
\* RunPostHooks).
THEOREM HooksAreNested == Spec => []HooksNested
<1>1. HooksCounted => HooksNested
  <2> SUFFICES ASSUME HooksCounted PROVE HooksNested
    OBVIOUS
  <2>1. Len(events) \in Nat /\ executed \in Nat
    BY PipelineAssumption DEF HooksCounted, PipelineAssumption
  <2>2. CASE NestedUpTo(Len(events))
    <3>1. Len(events) \in 0..Len(events)
      BY <2>1
    <3> QED
      BY <2>2, <3>1 DEF HooksNested, NestedUpTo
  <2>3. CASE NestedUpTo(executed)
    <3>1. CASE executed <= Len(events)
      BY <2>1, <2>3, <3>1 DEF HooksNested, NestedUpTo
    <3>2. CASE executed > Len(events)
      <4>1. NestedUpTo(Len(events))
        BY <2>1, <2>3, <3>2 DEF NestedUpTo
      <4> QED
        BY <2>2, <4>1
    <3> QED
      BY <2>1, <3>1, <3>2
  <2> QED
    BY <2>2, <2>3 DEF HooksCounted
<1> QED
  BY <1>1, HooksInit, HooksNext, ErrorInit, ErrorNext, PTL DEF Spec

\* The PostHooks of an attempt that is over have all run or none has, for any
\* number of plugins: all if its execution came to an outcome, however the hooks
\* fail, or for a streamed short circuit; none after a PreHook that failed, a
\* short circuit that is not streamed and an attempt that got no stream
\* (handleRequestWithPlugins, handleStreamRequestWithPlugins, RunPostHooks).
THEOREM PostHooksTold == Spec => []PostHooksAllOrNone
<1>1. HooksCounted => PostHooksAllOrNone
  <2> SUFFICES ASSUME HooksCounted,
                      pc \in {"refused", "answered", "failed"},
                      NEW i \in 1..Plugins
               PROVE  HasRun(Post(i)) <=> Told /\ i <= executed
    BY DEF PostHooksAllOrNone
  <2>1. executed \in Nat /\ i \in Nat /\ i >= 1
    BY PipelineAssumption DEF HooksCounted, PipelineAssumption
  <2>2. CASE Told
    <3>1. Len(events) = 2 * executed /\ NestedUpTo(executed)
      BY <2>2 DEF HooksCounted
    <3>2. ASSUME i <= executed PROVE HasRun(Post(i))
      <4> DEFINE j == 2 * executed - i + 1
      <4>1. j \in 1..Len(events) /\ j > executed /\ executed - (j - executed) + 1 = i
        BY <2>1, <3>1, <3>2
      <4> HIDE DEF j
      <4>2. events[j] = Post(i)
        BY <2>1, <3>1, <4>1 DEF NestedUpTo
      <4> QED
        BY <4>1, <4>2 DEF HasRun
    <3>3. ASSUME HasRun(Post(i)) PROVE i <= executed
      <4>1. PICK j \in 1..Len(events) : events[j] = Post(i)
        BY <3>3 DEF HasRun
      <4>2. j > executed /\ Post(i) = Post(executed - (j - executed) + 1)
        BY <2>1, <3>1, <4>1 DEF NestedUpTo, Pre, Post
      <4> QED
        BY <2>1, <3>1, <4>2 DEF Post
    <3> QED
      BY <2>2, <3>2, <3>3
  <2>3. CASE ~Told
    <3>1. \A j \in 1..Len(events) : events[j] = Pre(j)
      BY <2>3 DEF HooksCounted, NestedUpTo
    <3> QED
      BY <2>3, <3>1 DEF HasRun, Pre, Post
  <2> QED
    BY <2>2, <2>3
<1> QED
  BY <1>1, HooksInit, HooksNext, ErrorInit, ErrorNext, PTL DEF Spec

-----------------------------------------------------------------------------
(* The chain *)

\* The names that an enabled provider of the configuration has.
Usable(n) == \E p \in ToSet(cfg.providers) :
                p.enabled /\ n = IF p.name = "" THEN p.type ELSE p.name

\* What became of the attempts at each name follows from the configuration.
FateTrue ==
    \A i \in 1..Len(fate) : /\ fate[i] = "asked" => Usable(Names[i])
                            /\ fate[i] = "absent" => ~Usable(Names[i])

\* WholeChainTried, with an entry of fate for every attempt that is over; a
\* short circuit leaves none.
ChainWalked ==
    /\ pos \in Nat \ {0}
    /\ FateTrue
    /\ pc \in {"pre", "execute"} => Len(fate) = pos - 1
    /\ pc = "refused" \/ (pc = "post" /\ ~streamed) => Len(fate) = pos
    /\ pc = "post" => executed > 0
    /\ pc = "failed" => \/ err = "fatal"
                        \/ Len(fate) = Len(Names)
                        \/ streamed /\ HasRun(Post(1))

LEMMA UsableIsRegistered == ASSUME NEW n PROVE Usable(n) <=> n \in Registered(cfg)
BY DEF Usable, Registered, RegisteredName, Enabled, ToSet

LEMMA ChainInit == Init => ChainWalked
BY DEF Init, PipelineInit, ChainWalked, FateTrue

LEMMA FateFrame ==
    ASSUME FateTrue, UNCHANGED <<cfg, fate>>
    PROVE  FateTrue'
BY DEF FateTrue, Usable, Names

LEMMA FateGrows ==
    ASSUME LoopType, FateTrue, pos \in Nat \ {0}, Len(fate) = pos - 1, cfg' = cfg,
           NEW f \in {"refused", "asked", "absent"}, fate' = Append(fate, f),
           f = "asked" => Present, f = "absent" => ~Present
    PROVE  FateTrue' /\ Len(fate') = pos
<1>1. fate \in Seq({"refused", "asked", "absent"})
  BY DEF LoopType
<1>2. /\ Len(fate') = pos /\ fate'[pos] = f
      /\ \A i \in 1..Len(fate') : i = pos \/ (i \in 1..Len(fate) /\ fate'[i] = fate[i])
  <2>1. /\ Len(fate) \in Nat /\ Len(fate') = Len(fate) + 1 /\ fate'[Len(fate) + 1] = f
        /\ \A i \in 1..Len(fate) : fate'[i] = fate[i]
    BY <1>1
  <2> DEFINE n == Len(fate)
  <2>2. n \in Nat /\ n = pos - 1
    BY <2>1
  <2> HIDE DEF n
  <2>3. n + 1 = pos /\ \A i \in 1..(n + 1) : i = pos \/ i \in 1..n
    BY <2>2
  <2> QED
    BY <2>1, <2>3 DEF n
<1>3. Present <=> Usable(Names[pos])
  BY UsableIsRegistered DEF Present
<1>4. Names' = Names /\ \A n : Usable(n)' = Usable(n)
  BY DEF Names, Usable
<1> QED
  BY <1>2, <1>3, <1>4 DEF FateTrue

\* All ways of ending the execution ask the provider or find that there is none.
LEMMA ExecutedFate ==
    ASSUME LoopType, HooksCounted, ChainWalked, NEW e, Execute(e)
    PROVE  ChainWalked'
<1>1. /\ pc = "execute" /\ pc' = "post" /\ UNCHANGED <<cfg, pos, executed>>
      /\ fate' = Append(fate, IF Present THEN "asked" ELSE "absent")
  BY DEF Execute
<1>2. executed > 0
  BY <1>1, PipelineAssumption, ToolLoopAssumption
  DEF HooksCounted, PipelineAssumption, ToolLoopAssumption
<1>3. FateTrue' /\ Len(fate') = pos
  BY <1>1, FateGrows DEF ChainWalked
<1> QED
  BY <1>1, <1>2, <1>3 DEF ChainWalked

\* After the last PostHook the first plugin's has run.
LEMMA FirstPostHook ==
    ASSUME HooksCounted, pc = "post", left = 0, executed > 0
    PROVE  HasRun(Post(1))
<1>1. executed \in Nat /\ Len(events) = 2 * executed /\ NestedUpTo(executed)
  BY PipelineAssumption DEF HooksCounted, PipelineAssumption
<1> DEFINE j == 2 * executed
<1>2. j \in 1..Len(events) /\ j > executed /\ executed - (j - executed) + 1 = 1
  BY <1>1
<1> HIDE DEF j
<1>3. events[j] = Post(1)
  BY <1>1, <1>2 DEF NestedUpTo
<1> QED
  BY <1>2, <1>3 DEF HasRun

LEMMA ChainNext == LoopType /\ HooksCounted /\ ChainWalked /\ [Next]_vars => ChainWalked'
<1> SUFFICES ASSUME LoopType, HooksCounted, ChainWalked, [Next]_vars PROVE ChainWalked'
  OBVIOUS
<1>1. CASE PipelineStep
  <2>1. CASE PreHook \/ PreHooksDone
    BY <2>1, FateFrame DEF PreHook, PreHooksDone, CallPre, ChainWalked
  <2>2. CASE ShortCircuit
    <3>1. pc = "pre" /\ executed' > 0 /\ pc' = (IF streamed THEN "post" ELSE "answered")
      BY <2>2, PipelineAssumption DEF ShortCircuit, CallPre, HooksCounted, PipelineAssumption
    <3> QED
      BY <2>2, <3>1, FateFrame DEF ShortCircuit, ChainWalked
  <2>3. ASSUME NEW e \in Errors, PreHookFails(e) PROVE ChainWalked'
    BY <2>3, FateGrows DEF PreHookFails, CallPre, ChainWalked
  <2>4. CASE NoStream
    BY <2>4, FateGrows DEF NoStream, ChainWalked
  <2>5. CASE PostHooksDone
    <3>1. /\ pc = "post" /\ left = 0 /\ UNCHANGED <<cfg, streamed, pos, events, fate>>
          /\ pc' \in {"answered", "refused", "failed"}
          /\ pc' = "refused" => ~streamed
          /\ pc' = "failed" => streamed
      BY <2>5 DEF PostHooksDone
    <3>2. HasRun(Post(1))'
      BY <3>1, FirstPostHook DEF ChainWalked, HasRun, Post
    <3> QED
      BY <3>1, <3>2, FateFrame DEF ChainWalked
  <2>6. CASE Finish
    BY <2>6, FateFrame DEF Finish, ChainWalked, Names
  <2> QED
    BY <1>1, <2>1, <2>2, <2>3, <2>4, <2>5, <2>6 DEF PipelineStep
<1>2. ASSUME NEW e \in Errors \cup {"none"},
             \/ ExecuteDirectly(e)
             \/ ModelAnswers /\ e = "none"
             \/ ModelFails(e)
             \/ (RoundsExhausted \/ ToolFails) /\ e = "plain"
      PROVE  ChainWalked'
  BY <1>2, ExecutedFate DEF ExecuteDirectly, ModelAnswers, ModelFails, RoundsExhausted,
     ToolFails, Leave
<1>3. ASSUME \/ EnterLoop \/ ToolRuns \/ RoundEnds \/ \E names \in Requested : ModelCallsTools(names)
             \/ UNCHANGED vars
      PROVE  ChainWalked'
  <2>1. UNCHANGED <<cfg, streamed, pc, pos, executed, err, events, fate>>
    BY <1>3 DEF EnterLoop, ToolRuns, RoundEnds, ModelCallsTools, pipeVars, vars
  <2> QED
    BY <2>1, FateFrame DEF ChainWalked, HasRun, Names
<1>4. ASSUME NEW kind \in PostKinds, RunPostHook(kind) PROVE ChainWalked'
  BY <1>4, FateFrame DEF RunPostHook, PostHook, ChainWalked
<1>5. CASE Fallback
  BY <1>5, FateFrame DEF Fallback, NextAttempt, ChainWalked
<1> QED
  BY <1>1, <1>2, <1>3, <1>4, <1>5 DEF Next, Terminating, Errors

\* A provider that is disabled or unknown never keeps a request from another:
\* for every configuration with which the process starts, a request that fails
\* for want of an answer had asked every name of its chain (HandleChat,
\* getQueue, MustGet).
THEOREM EveryNameHasItsTurn == Spec => []WholeChainTried
<1>1. ChainWalked => WholeChainTried
  BY DEF ChainWalked, WholeChainTried, FateTrue, Usable
<1> QED
  BY <1>1, TypeInit, TypeNext, ErrorInit, ErrorNext, HooksInit, HooksNext, ChainInit, ChainNext,
     PTL DEF Spec

-----------------------------------------------------------------------------
(* The conversation *)

Message == [role : {"user"}] \cup [role : {"assistant"}, calls : Seq(Record)]
           \cup [role : {"tool"}, call : Record]

AllServed ==
    \A i \in 1..Len(messages) : Turn(i) => \A k \in 1..Len(messages[i].calls) : Served(i, k)

NothingElse ==
    \A i \in 2..Len(messages) : Turn(i) \/
        /\ \E j \in 1..(i - 1) : Turn(j) /\ i - j <= Len(messages[j].calls)
        /\ \E r \in 1..Len(ran) : messages[i] = Result(ran[r])

NothingMissing == \A r \in 1..Len(ran) : \E i \in 2..Len(messages) : messages[i] = Result(ran[r])

\* The calls that are not run yet are the last ones of some message, so that the
\* next result is that of a call.
Pending ==
    \E j \in 1..Len(messages) :
        Turn(j) /\ j + Len(messages[j].calls) = Len(messages) + Len(calls)

\* ConversationComplete, with the place of the calls that are not run yet.
Conversation ==
    /\ messages \in Seq(Message)
    /\ Len(messages) >= 1 /\ messages[1] = Ask
    /\ AllServed
    /\ NothingElse
    /\ NothingMissing
    /\ calls = <<>> \/ Pending
    /\ loop = "model" \/ pc = "pre" \/ (pc = "execute" /\ loop = "off") => calls = <<>>

LEMMA ConversationInit == Init => Conversation
<1> SUFFICES ASSUME Init PROVE Conversation
  OBVIOUS
<1>1. messages = <<Ask>> /\ calls = <<>> /\ ran = <<>>
  BY DEF Init
<1>2. Ask \in Message /\ Ask.role # "assistant"
  BY DEF Ask, Message
<1> QED
  BY <1>1, <1>2 DEF Conversation, AllServed, NothingElse, NothingMissing, Turn

LEMMA ConversationFrame ==
    ASSUME Conversation, UNCHANGED <<messages, calls, ran>>,
           loop' = "model" \/ pc' = "pre" \/ (pc' = "execute" /\ loop' = "off") => calls = <<>>
    PROVE  Conversation'
BY DEF Conversation, AllServed, NothingElse, NothingMissing, Pending, Turn, Served

LEMMA TurnHasCalls ==
    ASSUME messages \in Seq(Message), NEW i \in 1..Len(messages), Turn(i)
    PROVE  messages[i].calls \in Seq(Record) /\ Len(messages[i].calls) \in Nat
<1>1. messages[i] \in Message
  OBVIOUS
<1> QED
  BY <1>1 DEF Turn, Message

\* The conversation with one message more.
LEMMA Extended ==
    ASSUME Conversation, NEW m \in Message, messages' = Append(messages, m)
    PROVE  /\ messages' \in Seq(Message) /\ Len(messages) \in Nat
           /\ Len(messages') = Len(messages) + 1 /\ messages'[Len(messages) + 1] = m
           /\ \A i \in 1..Len(messages) : messages'[i] = messages[i] /\ Turn(i)' = Turn(i)
           /\ \A i \in 1..Len(messages') : i \in 1..Len(messages) \/ i = Len(messages) + 1
<1>1. messages \in Seq(Message)
  BY DEF Conversation
<1>2. /\ messages' \in Seq(Message) /\ Len(messages) \in Nat
      /\ Len(messages') = Len(messages) + 1 /\ messages'[Len(messages) + 1] = m
      /\ \A i \in 1..Len(messages) : messages'[i] = messages[i]
  BY <1>1
<1> QED
  BY <1>2 DEF Turn

LEMMA CallsAdded ==
    ASSUME LoopType, RoundsCounted, Conversation,
           NEW names \in Requested, ModelCallsTools(names)
    PROVE  Conversation'
<1>0. PICK n \in Nat : n = Len(messages)
  BY DEF Conversation
<1> DEFINE m == Asked(calls')
<1>1. /\ calls = <<>> /\ calls' \in Seq(Record) /\ ran' = ran /\ messages' = Append(messages, m)
      /\ loop' = "tools" /\ pc' = "execute"
  BY NewCalls DEF ModelCallsTools, MayAsk, Conversation, pipeVars, RoundsCounted
<1>2. m \in Message /\ m.role = "assistant" /\ m.calls = calls'
  BY <1>1 DEF Asked, Message
<1> HIDE DEF m
<1>3. /\ messages' \in Seq(Message) /\ n \in Nat /\ n >= 1
      /\ Len(messages') = n + 1 /\ messages'[n + 1] = m
      /\ \A i \in 1..n : messages'[i] = messages[i] /\ Turn(i)' = Turn(i)
      /\ \A i \in 1..Len(messages') : i \in 1..n \/ i = n + 1
  BY <1>0, <1>1, <1>2, Extended DEF Conversation
<1>4. Turn(n + 1)' /\ messages'[n + 1].calls = calls' /\ Len(calls') \in Nat
  BY <1>1, <1>2, <1>3 DEF Turn
<1>5. AllServed'
  <2> SUFFICES ASSUME NEW i \in 1..Len(messages'), Turn(i)', NEW k \in 1..Len(messages'[i].calls)
               PROVE  Served(i, k)'
    BY DEF AllServed
  <2>1. CASE i \in 1..n
    <3>1. Turn(i) /\ messages'[i] = messages[i] /\ i \in 1..Len(messages)
      BY <1>0, <1>3, <2>1
    <3>2. Len(messages[i].calls) \in Nat /\ k \in 1..Len(messages[i].calls)
      BY <3>1, TurnHasCalls DEF Conversation
    <3>3. Served(i, k)
      BY <3>1, <3>2 DEF Conversation, AllServed
    <3>4. i + k <= n /\ messages[i + k] = Result(messages[i].calls[k])
      BY <1>0, <1>1, <1>3, <3>1, <3>2, <3>3 DEF Served
    <3>5. i + k - (n + 1) <= 0 /\ messages'[i + k] = messages[i + k]
      BY <1>3, <3>1, <3>2, <3>4
    <3> QED
      BY <1>3, <3>1, <3>4, <3>5 DEF Served, Result
  <2>2. CASE i = n + 1
    <3>1. k \in 1..Len(calls') /\ i + k - (n + 1) = k
      BY <1>3, <1>4, <2>2
    <3> QED
      BY <1>3, <1>4, <2>2, <3>1 DEF Served
  <2> QED
    BY <1>3, <2>1, <2>2
<1>6. NothingElse'
  <2> SUFFICES ASSUME NEW i \in 2..Len(messages'), ~Turn(i)'
               PROVE  /\ \E j \in 1..(i - 1) : Turn(j)' /\ i - j <= Len(messages'[j].calls)
                      /\ \E r \in 1..Len(ran') : messages'[i] = Result(ran'[r])
    BY DEF NothingElse, Result
  <2>1. i \in 2..n /\ ~Turn(i)
    BY <1>3, <1>4
  <2>2. /\ \E j \in 1..(i - 1) : Turn(j) /\ i - j <= Len(messages[j].calls)
        /\ \E r \in 1..Len(ran) : messages[i] = Result(ran[r])
    BY <1>0, <2>1 DEF Conversation, NothingElse
  <2>3. \A j \in 1..(i - 1) : j \in 1..n
    BY <1>3, <2>1
  <2> QED
    BY <1>1, <1>3, <2>1, <2>2, <2>3
<1>7. NothingMissing'
  <2> SUFFICES ASSUME NEW r \in 1..Len(ran')
               PROVE  \E i \in 2..Len(messages') : messages'[i] = Result(ran'[r])
    BY DEF NothingMissing, Result
  <2>1. PICK i \in 2..n : messages[i] = Result(ran[r])
    BY <1>0, <1>1 DEF Conversation, NothingMissing
  <2>2. i \in 2..Len(messages') /\ messages'[i] = Result(ran'[r])
    BY <1>1, <1>3, <2>1
  <2> QED
    BY <2>2
<1>8. Pending'
  <2>1. n + 1 \in 1..Len(messages')
    BY <1>3
  <2> QED
    BY <1>3, <1>4, <2>1 DEF Pending
<1>9. messages'[1] = Ask' /\ Len(messages') >= 1
  BY <1>3 DEF Conversation, Ask
<1> QED
  BY <1>1, <1>3, <1>5, <1>6, <1>7, <1>8, <1>9 DEF Conversation

LEMMA ResultAdded ==
    ASSUME LoopType, RoundsCounted, Conversation, ToolRuns
    PROVE  Conversation'
<1>0. PICK n \in Nat : n = Len(messages)
  BY DEF Conversation
<1> DEFINE c == Head(calls)
           m == Result(c)
<1>1. /\ loop' = "tools" /\ pc' = "execute" /\ calls # <<>> /\ calls \in Seq(Record)
      /\ ran \in Seq(Record) /\ ran' = Append(ran, c)
      /\ messages' = Append(messages, m) /\ calls' = Tail(calls)
  BY DEF ToolRuns, pipeVars, RoundsCounted, LoopType
<1>2. /\ c \in Record /\ calls[1] = c /\ Len(calls) \in Nat /\ Len(calls') = Len(calls) - 1
      /\ Len(calls) >= 1
      /\ \A k \in 1..Len(calls') : calls'[k] = calls[k + 1]
  BY <1>1
<1>3. /\ Len(ran) \in Nat /\ Len(ran') = Len(ran) + 1 /\ ran'[Len(ran) + 1] = c
      /\ \A r \in 1..Len(ran) : ran'[r] = ran[r]
  BY <1>1, <1>2
<1>4. m \in Message /\ m.role # "assistant"
  BY <1>2 DEF Result, Message
<1> HIDE DEF c, m
<1>5. /\ messages' \in Seq(Message) /\ n \in Nat /\ n >= 1
      /\ Len(messages') = n + 1 /\ messages'[n + 1] = m
      /\ \A i \in 1..n : messages'[i] = messages[i] /\ Turn(i)' = Turn(i)
      /\ \A i \in 1..Len(messages') : i \in 1..n \/ i = n + 1
  BY <1>0, <1>1, <1>4, Extended DEF Conversation
<1>6. ~Turn(n + 1)'
  BY <1>4, <1>5 DEF Turn
<1>7. PICK t \in 1..n : Turn(t) /\ t + Len(messages[t].calls) = n + Len(calls)
  BY <1>0, <1>1 DEF Conversation, Pending
<1>8. Len(messages[t].calls) \in Nat
  BY <1>7, TurnHasCalls DEF Conversation
<1>9. AllServed'
  <2> SUFFICES ASSUME NEW i \in 1..Len(messages'), Turn(i)', NEW k \in 1..Len(messages'[i].calls)
               PROVE  Served(i, k)'
    BY DEF AllServed
  <2>1. Turn(i) /\ messages'[i] = messages[i] /\ i \in 1..Len(messages) /\ i \in 1..n
    BY <1>0, <1>5, <1>6
  <2>2. Len(messages[i].calls) \in Nat /\ k \in 1..Len(messages[i].calls)
    BY <2>1, TurnHasCalls DEF Conversation
  <2>3. Served(i, k)
    BY <2>1, <2>2 DEF Conversation, AllServed
  <2>4. CASE i + k <= n
    <3>1. messages[i + k] = Result(messages[i].calls[k])
      BY <1>0, <1>5, <2>1, <2>2, <2>3, <2>4 DEF Served
    <3>2. i + k - (n + 1) <= 0 /\ messages'[i + k] = messages[i + k]
      BY <1>5, <2>1, <2>2, <2>4
    <3> QED
      BY <1>5, <2>1, <3>1, <3>2 DEF Served, Result
  <2>5. CASE i + k > n
    <3> DEFINE w == i + k - n
    <3>1. w \in Nat /\ w >= 1 /\ w <= Len(calls) /\ calls[w] = messages[i].calls[k]
      BY <1>0, <1>5, <2>1, <2>2, <2>3, <2>5 DEF Served
    <3>2. CASE w = 1
      <4>1. i + k = n + 1 /\ i + k - (n + 1) <= 0
        <5>1. i \in Nat /\ k \in Nat /\ i + k - n = 1
          BY <2>1, <2>2, <3>2
        <5> QED
          BY <5>1
      <4>2. messages'[i + k] = Result(messages'[i].calls[k])
        BY <1>2, <1>5, <2>1, <3>1, <3>2, <4>1 DEF m
      <4> QED
        BY <1>5, <4>1, <4>2 DEF Served, Result
    <3>3. CASE w > 1
      <4>1. i + k - (n + 1) = w - 1 /\ w - 1 \in 1..Len(calls') /\ (w - 1) + 1 = w
        BY <1>2, <1>5, <2>1, <2>2, <3>1, <3>3
      <4> HIDE DEF w
      <4>2. calls'[w - 1] = messages'[i].calls[k]
        BY <1>2, <2>1, <3>1, <4>1
      <4> QED
        BY <1>5, <4>1, <4>2 DEF Served
    <3> QED
      BY <3>1, <3>2, <3>3
  <2> QED
    BY <1>5, <2>1, <2>2, <2>4, <2>5
<1>10. NothingElse'
  <2> SUFFICES ASSUME NEW i \in 2..Len(messages'), ~Turn(i)'
               PROVE  /\ \E j \in 1..(i - 1) : Turn(j)' /\ i - j <= Len(messages'[j].calls)
                      /\ \E r \in 1..Len(ran') : messages'[i] = Result(ran'[r])
    BY DEF NothingElse, Result
  <2>1. CASE i \in 2..n
    <3>1. /\ \E j \in 1..(i - 1) : Turn(j) /\ i - j <= Len(messages[j].calls)
          /\ \E r \in 1..Len(ran) : messages[i] = Result(ran[r])
      BY <1>0, <1>5, <2>1 DEF Conversation, NothingElse
    <3>2. \A j \in 1..(i - 1) : j \in 1..n
      BY <1>5, <2>1
    <3>3. \A r \in 1..Len(ran) : r \in 1..Len(ran')
      BY <1>3
    <3> QED
      BY <1>3, <1>5, <2>1, <3>1, <3>2, <3>3
  <2>2. CASE i = n + 1
    <3>1. t \in 1..(i - 1) /\ i - t <= Len(messages[t].calls)
      BY <1>2, <1>5, <1>7, <1>8, <2>2
    <3>2. Len(ran) + 1 \in 1..Len(ran') /\ messages'[i] = Result(ran'[Len(ran) + 1])
      BY <1>3, <1>5, <2>2 DEF m
    <3> QED
      BY <1>5, <1>7, <3>1, <3>2
  <2> QED
    BY <1>5, <2>1, <2>2
<1>11. NothingMissing'
  <2> SUFFICES ASSUME NEW r \in 1..Len(ran')
               PROVE  \E i \in 2..Len(messages') : messages'[i] = Result(ran'[r])
    BY DEF NothingMissing, Result
  <2>1. CASE r \in 1..Len(ran)
    <3>1. PICK i \in 2..n : messages[i] = Result(ran[r])
      BY <1>0, <2>1 DEF Conversation, NothingMissing
    <3>2. i \in 2..Len(messages') /\ messages'[i] = Result(ran'[r])
      BY <1>3, <1>5, <2>1, <3>1
    <3> QED
      BY <3>2
  <2>2. CASE r = Len(ran) + 1
    <3>1. n + 1 \in 2..Len(messages') /\ messages'[n + 1] = Result(ran'[r])
      BY <1>3, <1>5, <2>2 DEF m
    <3> QED
      BY <3>1
  <2> QED
    BY <1>3, <2>1, <2>2
<1>12. Pending'
  <2>1. t \in 1..Len(messages') /\ Turn(t)' /\ messages'[t] = messages[t]
    BY <1>5, <1>7
  <2>2. t + Len(messages'[t].calls) = Len(messages') + Len(calls')
    BY <1>2, <1>5, <1>7, <1>8, <2>1
  <2> QED
    BY <2>1, <2>2 DEF Pending
<1>13. messages'[1] = Ask' /\ Len(messages') >= 1
  BY <1>0, <1>5 DEF Conversation, Ask
<1> QED
  BY <1>1, <1>5, <1>9, <1>10, <1>11, <1>12, <1>13 DEF Conversation

LEMMA ConversationNext == LoopType /\ RoundsCounted /\ Conversation /\ [Next]_vars => Conversation'
<1> SUFFICES ASSUME LoopType, RoundsCounted, Conversation, [Next]_vars PROVE Conversation'
  OBVIOUS
<1>1. ASSUME PipelineStep, UNCHANGED loopVars PROVE Conversation'
  <2>1. /\ UNCHANGED <<messages, calls, ran, loop>>
        /\ pc' \in {"pre", "execute"} => pc = "pre"
        /\ loop # "model"
    BY <1>1 DEF PipelineStep, PreHook, ShortCircuit, PreHooksDone, PreHookFails, CallPre, NoStream,
       PostHooksDone, Finish, loopVars, RoundsCounted, HasLoop
  <2> QED
    BY <2>1, ConversationFrame DEF Conversation
<1>2. ASSUME NEW e \in Errors \cup {"none"},
             \/ ExecuteDirectly(e)
             \/ ModelAnswers /\ e = "none"
             \/ ModelFails(e)
             \/ (RoundsExhausted \/ ToolFails) /\ e = "plain"
      PROVE  Conversation'
  <2>1. UNCHANGED <<messages, calls, ran>> /\ pc' = "post" /\ (loop' = loop \/ loop' = "off")
    BY <1>2 DEF ExecuteDirectly, ModelAnswers, ModelFails, RoundsExhausted, ToolFails, Leave, Execute
  <2> QED
    BY <2>1, ConversationFrame DEF Conversation
<1>3. CASE EnterLoop
  BY <1>3, ConversationFrame DEF EnterLoop, pipeVars, Conversation
<1>4. CASE RoundEnds
  BY <1>4, ConversationFrame DEF RoundEnds, pipeVars
<1>5. ASSUME NEW names \in Requested, ModelCallsTools(names) PROVE Conversation'
  BY <1>5, CallsAdded
<1>6. CASE ToolRuns
  BY <1>6, ResultAdded
<1>7. ASSUME NEW kind \in PostKinds, RunPostHook(kind) PROVE Conversation'
  BY <1>7, ConversationFrame DEF RunPostHook, PostHook, Conversation
<1>8. CASE Fallback
  <2>1. messages' = <<Ask>> /\ calls' = <<>> /\ ran' = <<>>
    BY <1>8 DEF Fallback
  <2>2. Ask \in Message /\ Ask.role # "assistant"
    BY DEF Ask, Message
  <2> QED
    BY <2>1, <2>2 DEF Conversation, AllServed, NothingElse, NothingMissing, Turn
<1>9. CASE UNCHANGED vars
  BY <1>9, ConversationFrame DEF vars, Conversation
<1> QED
  BY <1>1, <1>2, <1>3, <1>4, <1>5, <1>6, <1>7, <1>8, <1>9 DEF Next, Terminating, Errors

\* No model ever sees a conversation with a call of a tool that is not followed
\* by its result, for any number of rounds, calls and attempts (Loop.Execute,
\* CloneRequest).
THEOREM ConversationStaysComplete == Spec => []ConversationComplete
<1>1. Conversation => ConversationComplete
  BY DEF Conversation, ConversationComplete, AllServed, NothingElse, NothingMissing
<1> QED
  BY <1>1, TypeInit, TypeNext, RoundsInit, RoundsNext, ConversationInit, ConversationNext,
     PTL DEF Spec

=============================================================================
