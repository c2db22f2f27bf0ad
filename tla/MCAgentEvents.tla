---------------------------- MODULE MCAgentEvents ----------------------------
(* An instance of AgentEvents for TLC: two listeners of `foo`, one of which *)
(* is registered for errors too, and one of errors only.                    *)
EXTENDS AgentEvents, TLC

MCTypes == {"foo", "error"}
MCListeners == ("foo" :> <<"log", "audit">>) @@ ("error" :> <<"audit">>)

==============================================================================
