----------------------------- MODULE MCToolLoop -----------------------------
(* Small instances of ToolLoop for TLC. *)
EXTENDS ToolLoop

CONSTANT Cases   \* the names of the configurations of a run

Provider(name, type, enabled, fallbacks) ==
    [name |-> name, type |-> type, enabled |-> enabled, fallbacks |-> fallbacks]

\* The default provider has two fallbacks, of which one is itself again.
Chained == [
    providers |-> <<Provider("", "mock", TRUE, <<>>),
                    Provider("a", "openai", TRUE, <<"a", "mock">>)>>,
    default |-> "a", tools |-> TRUE, allowed |-> <<"echo">>]

\* The default provider is disabled, and one of its fallbacks is unknown.
Disabled == [
    providers |-> <<Provider("a", "mock", FALSE, <<"nobody", "b">>),
                    Provider("b", "openai", TRUE, <<"a">>)>>,
    default |-> "a", tools |-> FALSE, allowed |-> <<>>]

\* One provider with all tools.
Single == [
    providers |-> <<Provider("a", "mock", TRUE, <<>>)>>,
    default |-> "a", tools |-> TRUE, allowed |-> <<>>]

\* Configurations with which the process does not start.
Twice == [Single EXCEPT !.providers = @ \o @]
Unknown == [Single EXCEPT !.providers[1].type = "other"]
NoTool == [Single EXCEPT !.allowed = <<"echo", "other">>]

SomeConfigs ==
    LET config == [chained |-> Chained, disabled |-> Disabled, single |-> Single,
                   twice |-> Twice, unknown |-> Unknown, notool |-> NoTool]
    IN {config[c] : c \in Cases}

\* A limit below one, which NewLoop replaces by four.
Unlimited == -1

=============================================================================
