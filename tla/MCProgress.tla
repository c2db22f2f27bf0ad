------------------------------ MODULE MCProgress ------------------------------
(***************************************************************************)
(* What an agent must bring to an end: emits, sends, requests to its       *)
(* message handler, recipient updates that a mediator is asked for, and    *)
(* deletions of identifiers.  The instances are small enough for liveness, *)
(* and their safety is checked with it.  They share nothing that changes,  *)
(* so a behaviour is one of the chosen component, with its own fairness.   *)
(***************************************************************************)
EXTENDS MessageHandling, TLC

VARIABLES
    chosen,
    eventQueue, promises, emits,
    dids, keys, secrets, generated, tasks, faults, acknowledged,
    stack, outcome, delivered, announced, handled,
    policies, mediations, recipientDids, task, log, arrivals, throws

(* Listeners that may await emits. *)
Bus == INSTANCE AgentEvents WITH
    Types <- {"foo", "error"}, ErrorType <- "error",
    Listeners <- ("foo" :> <<"audit">>) @@ ("error" :> <<"audit", "pager">>),
    AwaitInside <- TRUE, MaxEmits <- 2, MaxFailures <- 2

(* Without faults and without keys that several identifiers share: identifiers with
   aliases, which are created or imported again, and identifiers whose keys are made
   and removed, and services added and removed. *)
Ids == INSTANCE Identifiers WITH
    Callers <- {"t1", "t2"}, Aliases <- {"a1"}, Services <- {"s1"}, None <- "none",
    Operations <- {"create", "getOrCreate", "import", "delete"},
    Exclusive <- TRUE, MaxKeys <- 2, MaxListed <- 1, MaxFaults <- 0
Keyed == INSTANCE Identifiers WITH
    Callers <- {"t1", "t2"}, Aliases <- {}, Services <- {"s1"}, None <- "none",
    Operations <- {"create", "createKey", "removeKey", "addService", "removeService", "delete"},
    Exclusive <- TRUE, MaxKeys <- 2, MaxListed <- 1, MaxFaults <- 0

Endpoint(to, routing) == [endpoint |-> to, keys |-> routing]

(* Mediators that are named by routing keys, by endpoints, and behind another. *)
Send == INSTANCE SendMessage WITH
    Calls <- {"c1"}, DIDs <- {"bob", "carol", "m1", "m2"}, Recipients <- {"bob", "carol"},
    Url <- "url", Transports <- <<"http">>,
    Services <- ("carol" :> <<Endpoint("url", <<"m1", "m2">>), Endpoint("url", <<>>)>>)
             @@ ("bob" :> <<Endpoint("m1", <<"m2">>), Endpoint("m2", <<>>)>>)
             @@ ("m1" :> <<Endpoint("url", <<>>), Endpoint("m2", <<>>)>>)
             @@ ("m2" :> <<Endpoint("url", <<>>)>>)

Sent(id, form, sort, route) == [id |-> id, form |-> form, sort |-> sort, returnRoute |-> route]

(* The chain of the agents in the repository, and a message of each sort. *)
AgentChain == <<"url", "didcomm", "ping", "jwt", "w3c", "sdr">>
Posted == {Sent(1, "packed", "ping", TRUE), Sent(2, "packed", "vc", FALSE), Sent(3, "url", "vp", FALSE),
           Sent(4, "jwt", "sdr", FALSE), Sent(5, "packed", "pong", FALSE), Sent(6, "packed", "other", TRUE),
           Sent(7, "noise", "other", FALSE), Sent(8, "jwt", "vc", FALSE), Sent(9, "sealed", "vp", FALSE),
           Sent(10, "json", "vc", FALSE)}

To(action, did) == [action |-> action, recipient |-> did]
NotRegistered == [d \in {"alice", "bob"} |-> "none"]

(* Two messages at a time, with updates of the same DIDs, at a store that is a
   map or a database. *)
UpdatesOfDids == {{To("add", "alice"), To("remove", "alice")}, {To("add", "alice"), To("remove", "bob")},
                  {To("remove", "alice"), To("other", "bob")}, {To("add", "bob")}}
BeforeBob == ("alice" :> 1) @@ ("bob" :> 2)
Recipients == INSTANCE RecipientUpdates WITH
    DIDs <- {"alice", "bob"}, NONE <- "none",
    Registered <- {NotRegistered, [NotRegistered EXCEPT !.alice = "bob"]},
    UpdateSets <- UpdatesOfDids, Paged <- FALSE, PageSize <- 1, Place <- BeforeBob,
    Workers <- {"w1", "w2"}, MaxArrivals <- 2, MaxFaults <- 1, faults <- throws
PagedRecipients == INSTANCE RecipientUpdates WITH
    DIDs <- {"alice", "bob"}, NONE <- "none",
    Registered <- {[d \in {"alice", "bob"} |-> "bob"]},
    UpdateSets <- {{To("remove", "alice")}, {To("add", "alice"), To("remove", "bob")}}, Paged <- TRUE, PageSize <- 1, Place <- BeforeBob,
    Workers <- {"w1", "w2"}, MaxArrivals <- 2, MaxFaults <- 1, faults <- throws

ASSUME Recipients!UpdatesAssumption /\ PagedRecipients!UpdatesAssumption
ASSUME HandlingAssumption /\ Send!SendingAssumption /\ Send!EndpointsLeadOut

busVars == <<eventQueue, promises, emits>>
idsVars == <<dids, keys, secrets, generated, tasks, faults, acknowledged>>
sendVars == <<stack, outcome, delivered, announced, handled>>
recipientVars == <<policies, mediations, recipientDids, task, log, arrivals, throws>>
progressVars == <<chosen, busVars, idsVars, sendVars, vars, recipientVars>>

ProgressInit ==
    /\ chosen \in {"bus", "ids", "keyed ids", "send", "handling", "recipients", "paged recipients"}
    /\ Bus!Init /\ Ids!Init /\ Send!Init /\ Init
    /\ IF chosen = "paged recipients" THEN PagedRecipients!Init ELSE Recipients!Init
    /\ chosen \notin {"recipients", "paged recipients"} => recipientDids = NotRegistered

Others(one) ==
    /\ chosen = one /\ UNCHANGED chosen
    /\ IF one = "bus" THEN TRUE ELSE UNCHANGED busVars
    /\ IF one \in {"ids", "keyed ids"} THEN TRUE ELSE UNCHANGED idsVars
    /\ IF one = "send" THEN TRUE ELSE UNCHANGED sendVars
    /\ IF one = "handling" THEN TRUE ELSE UNCHANGED vars
    /\ IF one \in {"recipients", "paged recipients"} THEN TRUE ELSE UNCHANGED recipientVars

ProgressNext ==
    \/ Others("bus") /\ Bus!Next
    \/ Others("ids") /\ Ids!Next
    \/ Others("keyed ids") /\ Keyed!Next
    \/ Others("send") /\ Send!Next
    \/ Others("handling") /\ Next
    \/ Others("recipients") /\ Recipients!Next
    \/ Others("paged recipients") /\ PagedRecipients!Next

(* The fairness of each component (see there), for the component chosen; one
   message is posted in a behaviour. *)
ProgressFairness ==
    /\ WF_progressVars(Others("bus") /\ \E e \in Bus!Emits : Bus!Continue(e))
    /\ WF_progressVars(Others("bus") /\ \E p \in Bus!Calls : Bus!ListenerEnds(p))
    /\ WF_progressVars(Others("bus") /\ \E p \in Bus!Calls : Bus!Resume(p))
    /\ WF_progressVars(Others("bus") /\ \E p \in Bus!Calls : Bus!RunCatch(p))
    /\ \A t \in {"t1", "t2"}, one \in {"ids", "keyed ids"} : WF_progressVars(Others(one) /\ Ids!Step(t))
    /\ \A d \in {1, 2}, one \in {"ids", "keyed ids"} :
          SF_progressVars(Others(one) /\ \E t \in {"t1", "t2"} : Ids!BeginDelete(t, d))
    /\ WF_progressVars(Others("send") /\ Send!Step("c1"))
    /\ WF_progressVars(Others("handling") /\ \E r \in Raws : Work(r))
    /\ \A w \in {"w1", "w2"} :
          /\ WF_progressVars(Others("recipients") /\ Recipients!Handle(w))
          /\ WF_progressVars(Others("paged recipients") /\ PagedRecipients!Handle(w))

ProgressSpec == ProgressInit /\ [][ProgressNext]_progressVars /\ ProgressFairness

-----------------------------------------------------------------------------
(* Every component is in the states that its module describes. *)
ProgressTypeOK == Send!TypeOK /\ TypeOK /\ Recipients!TypeOK

(* Every emit ends, unless listeners that await emits wait for themselves. *)
EveryEmitEnds == Bus!EveryEmitEnds

(* Key store and KMS agree but for what a running call creates or deletes, an
   identifier is created under an alias only while none has it, and what the DID
   manager acknowledged stays. *)
IdentifiersAreSound == Ids!IdentifiersAreSound

(* An identifier whose deletion an application keeps asking for goes. *)
DeletionCompletes == Ids!DeletionCompletes

(* Each mediator on a message's way can open its envelope and knows the next,
   and a send that is announced or returned was accepted by a service; what a
   mediator reports of recipients was so while it handled the message, but for
   what a database's pages leave out when rows go meanwhile. *)
ExchangesAreSound ==
    /\ Send!SendingIsSound
    /\ IF chosen = "paged recipients" THEN PagedRecipients!ReportsAreTrue ELSE Recipients!ReportsAreTrue

(* Every send ends, whatever transports and inner sends do, and so does every
   request to the message handler and every recipient update. *)
MessagesAreDone ==
    (chosen = "send" => Send!EverySendEnds) /\ EveryRequestEnds /\ Recipients!EveryUpdateEnds

=============================================================================
