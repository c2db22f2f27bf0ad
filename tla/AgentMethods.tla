---------------------------- MODULE AgentMethods ----------------------------
(***************************************************************************)
(* How a method of an agent is found, checked and run, here or at another  *)
(* agent: a plugin of remote-client sends the call to the routers of       *)
(* remote-server, which hand it to an agent of theirs.  Schemas come from  *)
(* the plugins and are merged apart from the methods.                      *)
(***************************************************************************)
EXTENDS Naturals, Sequences, FiniteSetsExt

CONSTANTS
    Local, Remote,  \* agents: [plugins, overrides, authorized, validates]
    Exposed,        \* the methods that the remote router exposes
    ApiKey,         \* the key that the server asks for
    Calls           \* [method, args, token, result, returns]

(* A plugin has an id, a set of methods and a set of methods that it has a
   schema for; the plugin "client" sends what it is asked to the server.
   Arguments, and what is returned, are the sets of the schemas that they fit. *)

(* What a method does is to return a value or nothing, or to throw. *)
MethodsAssumption == \A c \in Calls : c.result \in {"value", "nothing", "throws"}

VARIABLES
    call,       \* the call, if one was made
    stage,      \* where it is; what the server answered
    ran,        \* what was run for it: [at, by, method, args]
    outcome     \* what the caller got

vars == <<call, stage, ran, outcome>>

NoCall == [method |-> "none"]

TypeOK ==
    /\ call \in Calls \union {NoCall}
    /\ stage \in {"idle", "run", "sent", "done", "200", "empty", "400", "401", "404", "500"}
    /\ outcome \in {"none", "value", "nothing", "Method not available", "ValidationError",
                    "PluginReturnTypeError", "error"}

Init == call = NoCall /\ stage = "idle" /\ ran = {} /\ outcome = "none"

-----------------------------------------------------------------------------
(* Agent *)

\* Overrides are installed whether they are authorized or not.
ProviderOrOverride(agent, m) ==
    LET those == {n \in DOMAIN agent.plugins : m \in agent.plugins[n].methods}
    IN IF m \in agent.overrides THEN "override"
       ELSE IF m \notin agent.authorized \/ those = {} THEN "nobody"
       ELSE agent.plugins[Max(those)].id
(* The override, or the last plugin that has the method, if it is authorized *)
Provider(agent, m) ==
    LET those == {n \in DOMAIN agent.plugins : m \in agent.plugins[n].methods}
    IN IF m \notin agent.authorized THEN "nobody"
       ELSE IF m \in agent.overrides THEN "override"
       ELSE IF those = {} THEN "nobody"
       ELSE agent.plugins[Max(those)].id

(* The schema of the last plugin that has one, whoever runs the method *)
Schema(agent, m) ==
    LET those == {n \in DOMAIN agent.plugins : m \in agent.plugins[n].schema}
    IN IF those = {} THEN "none" ELSE agent.plugins[Max(those)].id

(* validateArguments and validateReturnType *)
Fits(agent, m, data) == ~agent.validates \/ Schema(agent, m) = "none" \/ Schema(agent, m) \in data

(* What execute does up to running the method: the error that it throws, if any *)
Refusal(agent, m, args) ==
    IF Provider(agent, m) = "nobody" THEN "Method not available"
    ELSE IF ~Fits(agent, m, args) THEN "ValidationError" ELSE "none"

RunBy(at, agent) ==
    ran' = ran \union {[at |-> at, by |-> Provider(agent, call.method)]}

\* What the method returns is not validated.
ReturnedUnchecked(agent) == IF call.result = "throws" THEN "error" ELSE call.result
(* What execute does with what the method returned *)
Returned(agent) ==
    IF call.result = "throws" THEN "error"
    ELSE IF ~Fits(agent, call.method, call.returns) THEN "PluginReturnTypeError" ELSE call.result

End(with) == stage' = "done" /\ outcome' = with

(* The caller's agent refuses the method, or hands it to its plugin. *)
Execute(c) ==
    /\ stage = "idle"
    /\ call' = c /\ UNCHANGED ran
    /\ LET refusal == Refusal(Local, c.method, c.args)
       IN IF refusal # "none" THEN End(refusal)
          ELSE /\ stage' = IF Provider(Local, c.method) = "client" THEN "sent" ELSE "run"
               /\ UNCHANGED outcome

RunHere ==
    /\ stage = "run"
    /\ RunBy("local", Local) /\ End(Returned(Local))
    /\ UNCHANGED call

-----------------------------------------------------------------------------
(* The server and the client *)

Answer(status) == stage' = status /\ UNCHANGED <<call, outcome>>

(* apiKeyAuth lets every bearer of a token in when it has no key. *)
LetIn == call.token # "" /\ ApiKey \in {"", call.token}

(* The status that the router answers a run with; `nothing` is an empty body. *)
AnswerTo(result) == CASE result = "value" -> "200" [] result = "nothing" -> "empty" [] OTHER -> "500"

\* The router hands every path to the agent.
ServeAny ==
    /\ stage = "sent"
    /\ IF ~LetIn THEN Answer("401") /\ UNCHANGED ran
       ELSE LET refusal == Refusal(Remote, call.method, call.args)
            IN IF refusal # "none"
               THEN Answer(IF refusal = "ValidationError" THEN "400" ELSE "500") /\ UNCHANGED ran
               ELSE RunBy("remote", Remote) /\ Answer(AnswerTo(Returned(Remote)))
(* AgentRouter: a route for each method that is exposed *)
Serve ==
    /\ stage = "sent"
    /\ IF ~LetIn THEN Answer("401") /\ UNCHANGED ran
       ELSE IF call.method \notin Exposed THEN Answer("404") /\ UNCHANGED ran
       ELSE LET refusal == Refusal(Remote, call.method, call.args)
            IN IF refusal # "none"
               THEN Answer(IF refusal = "ValidationError" THEN "400" ELSE "500") /\ UNCHANGED ran
               ELSE RunBy("remote", Remote) /\ Answer(AnswerTo(Returned(Remote)))

(* Bodies that are no JSON, and statuses from 400, become errors; whatever is
   lost on the way makes fetch throw. *)
Receive ==
    /\ stage \in {"200", "empty", "400", "401", "404", "500"}
    /\ End(IF stage = "200" THEN Returned(Local) ELSE "error")
    /\ UNCHANGED <<call, ran>>

Lose ==
    /\ stage \notin {"idle", "run", "done"}
    /\ End("error") /\ UNCHANGED <<call, ran>>

Next == (\E c \in Calls : Execute(c)) \/ RunHere \/ Serve \/ Receive \/ Lose

Spec == Init /\ [][Next]_vars

-----------------------------------------------------------------------------
(* What ran was authorized at each agent it went through, exposed by the server,
   asked with its key, and given arguments that fit the schemas there. *)
RanWasAllowed ==
    \A r \in ran :
        /\ call.method \in Local.authorized /\ Fits(Local, call.method, call.args)
        /\ r.at = "remote" =>
              /\ call.method \in Exposed \cap Remote.authorized
              /\ ApiKey \in {"", call.token}
              /\ Fits(Remote, call.method, call.args)

(* A caller who gets a value got what one run returned, which fits the schema of
   the caller's agent and of the one that ran the method. *)
CallersKnow ==
    outcome \in {"value", "nothing"} =>
        /\ \E run \in ran : ran = {run}
        /\ call.result = outcome
        /\ \A agent \in {IF r.at = "local" THEN Local ELSE Remote : r \in ran} \union {Local} :
              Fits(agent, call.method, call.returns)

(* A method runs only as it was allowed, and its caller knows what it did. *)
MethodsRunAsAsked == RanWasAllowed /\ CallersKnow

=============================================================================
