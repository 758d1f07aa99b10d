------------------------------ MODULE Routing ------------------------------
(***************************************************************************)
(* From the configuration to the providers and tools a request can reach:  *)
(* Bootstrap (transport/http/server/bootstrap.go), the two registries and  *)
(* the chain of providers (core/fallback.go).  All of it is computed       *)
(* before the first request and only read afterwards.                      *)
(*                                                                         *)
(* A configuration is a record of                                          *)
(*   providers   the sequence of [name, type, enabled, fallbacks]          *)
(*   default     gateway.default_provider                                  *)
(*   tools       whether tools are enabled                                 *)
(*   allowed     the sequence of allowed_tools                             *)
(***************************************************************************)
EXTENDS Naturals, Sequences, SequencesExt

Builtin == {"current_time", "echo"}

-----------------------------------------------------------------------------
(* Providers *)

Enabled(cfg) == {i \in DOMAIN cfg.providers : cfg.providers[i].enabled}

\* Both kinds of provider take their type for a name if they are given none.
RegisteredName(p) == IF p.name = "" THEN p.type ELSE p.name

\* Disabled providers are registered, and given a queue, like the others.
BugRegistered(cfg) == {RegisteredName(p) : p \in ToSet(cfg.providers)}

\* buildProviderRegistry: the names that Get and MustGet find; bootstrapQueues
\* makes a queue for each of them and for no other.
Registered(cfg) == {RegisteredName(cfg.providers[i]) : i \in Enabled(cfg)}

\* buildProvider knows two types, and Register refuses a name it has.
ProvidersStart(cfg) ==
    LET ps == cfg.providers
    IN  /\ \A i \in Enabled(cfg) : ps[i].type \in {"mock", "openai"}
        /\ \A i, j \in Enabled(cfg) : RegisteredName(ps[i]) = RegisteredName(ps[j]) => i = j

\* buildProviderFallbacks: from the providers as they are configured, disabled
\* or not; of two entries with one name the last that has fallbacks counts.
Fallbacks(cfg, name) ==
    LET has == {i \in DOMAIN cfg.providers :
                   cfg.providers[i].name = name /\ cfg.providers[i].fallbacks # <<>>}
    IN IF has = {} THEN <<>> ELSE cfg.providers[Max(has)].fallbacks

\* resolveProviderChain: the names in the order in which they are tried, which
\* nothing has compared with the registered ones.
Chain(cfg, name) ==
    <<name>> \o SelectSeq(Fallbacks(cfg, name), LAMBDA f : f \notin {"", name})

-----------------------------------------------------------------------------
(* Tools *)

\* RegisterBuiltinTools: all of them if none is named.
ToolNames(cfg) == IF cfg.allowed = <<>> THEN <<"current_time", "echo">> ELSE cfg.allowed

\* registerBuiltinTool knows two tools, and Register refuses a name it has.
ToolsStart(cfg) ==
    cfg.tools => /\ ToSet(ToolNames(cfg)) \subseteq Builtin
                 /\ IsInjective(ToolNames(cfg))

\* buildToolRegistry; prepareRequest gives its Definitions to every request.
Tools(cfg) == IF cfg.tools THEN ToSet(ToolNames(cfg)) ELSE {}

\* Bootstrap fails with the first error, and the process with it.
Bootstraps(cfg) == ProvidersStart(cfg) /\ ToolsStart(cfg)

=============================================================================
