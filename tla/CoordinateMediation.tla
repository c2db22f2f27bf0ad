------------------------- MODULE CoordinateMediation -------------------------
(***************************************************************************)
(* Versions 2 and 3 of the coordinate-mediation protocol, mediator and     *)
(* recipient roles (coordinate-mediation-message-handler.ts and            *)
(* coordinate-mediation-v3-message-handler.ts), on top of the mediation    *)
(* manager; recipient updates and queries are in RecipientUpdates.  A      *)
(* request that a recipient has sent may reach the mediator any number of  *)
(* times; its answer is the reply of the HTTP call.  Every awaited call of *)
(* the mediator's handlers is an action of its own.                        *)
(***************************************************************************)
EXTENDS MediationManager, Filters, TLC

CONSTANTS
  Mediator,         \* the DID of the mediator whose stores are modelled
  Others,           \* other mediators, of which only the messages are seen
  DefaultGrantAll,  \* isMediateDefaultGrantAll
  Workers,          \* bound: handler invocations running at the mediator
  MaxRequests,      \* bound: mediation requests that recipients send
  MaxArrivals,      \* bound: messages that reach the mediator
  MaxChanges,       \* bound: interventions of the mediator's operator
  MaxGrants,        \* bound: answers of other mediators
  MaxFaults         \* bound: failed saves and repeated answers

ASSUME MediatorAssumption ==
  /\ DefaultGrantAll \in BOOLEAN
  /\ Mediator \notin Others /\ NONE \notin Others \union {Mediator}

ASSUME BoundsAssumption ==
  {MaxRequests, MaxArrivals, MaxChanges, MaxGrants, MaxFaults} \subseteq Nat

VARIABLES
  requests,     \* mediate-requests in the data stores of their senders
  task,         \* task[w]: the handler invocation that worker w runs
  answers,      \* grants and denials on their way to recipients
  trackedV2,    \* DIDs with a v2 grant in the mediator's data store
  services,     \* services[d]: the DIDComm services of managed DID d, in order
  policyLog,    \* history: every <<requester, policy>> ever in force
  recorded,     \* history: every <<requester, response>> ever recorded
  granted,      \* history: every grant ever sent
  arrivals,     \* messages that have reached the mediator
  changes,      \* interventions of the operator so far
  grants,       \* answers of other mediators so far
  faults        \* faults so far

local == <<requests, answers, services>>
counters == <<arrivals, changes, grants, faults>>
vars == <<managerVars, requests, task, answers, trackedV2, services,
          policyLog, recorded, granted, counters>>

Mediators == {Mediator} \union Others
Idle == [type |-> "idle"]
Request == [id : 1 .. MaxRequests, from : DIDs, to : Mediators, version : {2, 3}]
\* `routing` is the first routing_did of a grant, if it names any.
Answer == [kind : {"grant", "deny"}, from : Mediators, to : DIDs,
           thid : 1 .. MaxRequests, version : {2, 3}, routing : Mediators \union {NONE}]
\* `serviceEndpoint` is a string, or the array of objects a grant leads to.
Service == [id : {"configured", "didcomm-mediator"}, form : {"string", "objects"},
            uri : Mediators]
RequestTask == [type : {"request"}, request : Request,
                stage : {"policy", "default", "save", "track", "reply"},
                policy : Policies \union {NONE}, status : Responses \union {NONE}]

TypeOK ==
  /\ ManagerTypeOK
  /\ requests \subseteq Request
  /\ task \in [Workers -> {Idle} \union RequestTask]
  /\ answers \subseteq Answer
  /\ trackedV2 \subseteq DIDs
  /\ services \in [DIDs -> Seq(Service)]
  /\ policyLog \subseteq DIDs \X (Policies \union {NONE})
  /\ recorded \subseteq DIDs \X Responses
  /\ granted \subseteq Answer
  /\ arrivals \in 0 .. MaxArrivals
  /\ changes \in 0 .. MaxChanges
  /\ grants \in 0 .. MaxGrants
  /\ faults \in 0 .. MaxFaults

\* A managed DID may come with a service configured for the mediator.
Init ==
  /\ ManagerInit
  /\ requests = {}
  /\ task = [w \in Workers |-> Idle]
  /\ answers = {}
  /\ trackedV2 = {}
  /\ services \in [DIDs -> {<<>>, <<[id |-> "configured", form |-> "string",
                                     uri |-> Mediator]>>}]
  /\ policyLog = DIDs \X {NONE}
  /\ recorded = {}
  /\ granted = {}
  /\ arrivals = 0 /\ changes = 0 /\ grants = 0 /\ faults = 0

Fault ==
  /\ faults < MaxFaults
  /\ faults' = faults + 1
  /\ UNCHANGED <<arrivals, changes, grants>>

\* A worker takes up a message.
Arrive(w, invocation) ==
  /\ task[w] = Idle
  /\ arrivals < MaxArrivals
  /\ arrivals' = arrivals + 1
  /\ task' = [task EXCEPT ![w] = invocation]
  /\ UNCHANGED <<changes, grants, faults>>

------------------------------------------------------------------------------
(* The operator of the mediator changes policies, and withdraws what was   *)
(* recorded for a requester, while handlers run.                           *)

Intervene(d) ==
  /\ changes < MaxChanges
  /\ changes' = changes + 1
  /\ \/ \E policy \in Policies : SaveMediationPolicy(d, policy) /\ UNCHANGED mediations
     \/ RemoveMediationPolicy(d) /\ UNCHANGED mediations
     \/ RemoveMediation(d) /\ UNCHANGED policies
  /\ policyLog' = policyLog \union {<<d, policies'[d]>>}
  /\ UNCHANGED <<recipientDids, local, task, trackedV2, recorded, granted, arrivals, grants, faults>>

------------------------------------------------------------------------------
(* A recipient saves the request it sends (createMediateRequestMessage).   *)

SendRequest(d, m, version) ==
  /\ Cardinality(requests) < MaxRequests
  /\ requests' = requests \union
       {[id |-> Cardinality(requests) + 1, from |-> d, to |-> m, version |-> version]}
  /\ UNCHANGED <<managerVars, task, answers, trackedV2, services, policyLog,
                 recorded, granted, counters>>

------------------------------------------------------------------------------
(* The mediator.                                                           *)

\* Version 2 grants every request; version 3 asks the mediation manager.
ReceiveRequest(w, r) ==
  /\ r.to = Mediator
  /\ Arrive(w, [type |-> "request", request |-> r, policy |-> NONE,
                stage |-> IF r.version = 3 THEN "policy" ELSE "track",
                status |-> IF r.version = 3 THEN NONE ELSE "GRANTED"])
  /\ UNCHANGED <<managerVars, local, trackedV2, policyLog, recorded, granted>>

AtStage(w, stage) == task[w].type = "request" /\ task[w].stage = stage

ReadPolicy(w) ==
  /\ AtStage(w, "policy")
  /\ task' = [task EXCEPT ![w].stage = "default",
                          ![w].policy = policies[task[w].request.from]]
  /\ UNCHANGED <<managerVars, local, trackedV2, policyLog, recorded, granted, counters>>

\* Mutant: the test for DENY is copied into the branch that denies by default.
DecisionIgnoresDefault(policy) == IF policy = "DENY" THEN "DENIED" ELSE "GRANTED"

\* Mutant: the policy itself is recorded.
DecisionIsPolicy(policy) == policy

\* grantOrDenyMediation
Decision(policy) ==
  IF DefaultGrantAll THEN (IF policy = "DENY" THEN "DENIED" ELSE "GRANTED")
                     ELSE (IF policy = "ALLOW" THEN "GRANTED" ELSE "DENIED")

Decide(w) ==
  /\ AtStage(w, "default")
  /\ task' = [task EXCEPT ![w].stage = "save", ![w].status = Decision(task[w].policy)]
  /\ UNCHANGED <<managerVars, local, trackedV2, policyLog, recorded, granted, counters>>

\* Mutant: the answer is made although the save has thrown.
RecordStatusCatches(w) ==
  LET d == task[w].request.from IN
  /\ AtStage(w, "save")
  /\ task' = [task EXCEPT ![w].stage = "track"]
  /\ \/ /\ SaveMediation(d, task[w].status)
        /\ recorded' = recorded \union {<<d, task[w].status>>}
        /\ UNCHANGED counters
     \/ Fault /\ UNCHANGED <<mediations, recorded>>
  /\ UNCHANGED <<policies, recipientDids, local, trackedV2, policyLog, granted>>

\* The status is recorded before the answer is made; when that throws there is
\* no answer.
RecordStatus(w) ==
  LET d == task[w].request.from IN
  /\ AtStage(w, "save")
  /\ \/ /\ SaveMediation(d, task[w].status)
        /\ recorded' = recorded \union {<<d, task[w].status>>}
        /\ task' = [task EXCEPT ![w].stage = "track"]
        /\ UNCHANGED counters
     \/ /\ Fault
        /\ task' = [task EXCEPT ![w] = Idle]
        /\ UNCHANGED <<mediations, recorded>>
  /\ UNCHANGED <<policies, recipientDids, local, trackedV2, policyLog, granted>>

\* The answer is attached to the message first and saved second: when the save
\* throws, the answer is sent all the same.  Only v2 grants are read again.
TrackAnswer(w) ==
  /\ AtStage(w, "track")
  /\ \/ /\ trackedV2' = IF task[w].request.version = 2
                        THEN trackedV2 \union {task[w].request.from} ELSE trackedV2
        /\ UNCHANGED counters
     \/ Fault /\ UNCHANGED trackedV2
  /\ task' = [task EXCEPT ![w].stage = "reply"]
  /\ UNCHANGED <<managerVars, local, policyLog, recorded, granted>>

\* An answer is on its way; a grant is logged.
Sends(answer) ==
  /\ answers' = answers \union {answer}
  /\ granted' = granted \union {a \in {answer} : a.kind = "grant"}

\* The handler returns and the messaging router sends the answer; a grant names
\* the mediator itself.
Reply(w) ==
  LET r == task[w].request
      granting == task[w].status = "GRANTED" IN
  /\ AtStage(w, "reply")
  /\ Sends([kind |-> IF granting THEN "grant" ELSE "deny", from |-> r.to, to |-> r.from,
            thid |-> r.id, version |-> r.version, routing |-> IF granting THEN r.to ELSE NONE])
  /\ task' = [task EXCEPT ![w] = Idle]
  /\ UNCHANGED <<managerVars, requests, services, trackedV2, policyLog,
                 recorded, counters>>

------------------------------------------------------------------------------
(* Other mediators answer as this one does, or without having been asked,  *)
(* and name whom they like as the place to send messages to.  Recipients   *)
(* handle the answers of both versions alike.                              *)

OtherMediatorAnswers(answer) ==
  /\ grants < MaxGrants
  /\ grants' = grants + 1
  /\ answer.from \in Others /\ answer.version = 3
  /\ answer.kind = "deny" => answer.routing = NONE
  /\ Sends(answer)
  /\ UNCHANGED <<managerVars, requests, task, trackedV2, services, policyLog,
                 recorded, arrivals, changes, faults>>

------------------------------------------------------------------------------
(* The recipient.  An answer is handled at most once, unless it is         *)
(* repeated, which counts as a fault; it may also never arrive.            *)

Consume(answer) ==
  \/ answers' = answers \ {answer} /\ UNCHANGED counters
  \/ answers' = answers /\ Fault

\* Mutant: who was asked is not compared.
RequestedOfAnybody(answer) ==
  \E r \in requests : r.id = answer.thid /\ r.from = answer.to

\* prevRequestMsg: the stored request the answer refers to by its thread id.
Requested(answer) ==
  \E r \in requests : /\ r.id = answer.thid
                      /\ r.from = answer.to
                      /\ r.to = answer.from

\* A grant without a routing_did is refused; the one that it names is not compared
\* with the sender.  The stores of did-manager and data-store-json append the service.
HandleGrant(answer) ==
  /\ answer.kind = "grant"
  /\ Consume(answer)
  /\ services' =
       IF answer.routing # NONE /\ Requested(answer)
       THEN [services EXCEPT ![answer.to] =
               Append(@, [id |-> "didcomm-mediator", form |-> "objects",
                          uri |-> answer.routing])]
       ELSE services
  /\ UNCHANGED <<managerVars, requests, task, trackedV2, policyLog, recorded, granted>>

\* The first service whose endpoint is, or whose array holds, the string `from`.
Endpoint(service, from) == service.form = "string" /\ service.uri = from

\* didManagerRemoveService removes every service that has the id of that one.
HandleDeny(answer) ==
  LET own == services[answer.to]
      found == {i \in DOMAIN own : Endpoint(own[i], answer.from)} IN
  /\ answer.kind = "deny"
  /\ Consume(answer)
  /\ IF found = {}
     THEN UNCHANGED services
     ELSE \E i \in found :
            /\ \A j \in found : i <= j
            /\ services' = [services EXCEPT ![answer.to] =
                              Without(@, {s \in Service : s.id = own[i].id})]
  /\ UNCHANGED <<managerVars, requests, task, trackedV2, policyLog, recorded, granted>>

------------------------------------------------------------------------------

Coordinating(w) ==
  \/ \E r \in requests : ReceiveRequest(w, r)
  \/ ReadPolicy(w)
  \/ Decide(w)
  \/ RecordStatus(w)
  \/ TrackAnswer(w)
  \/ Reply(w)

Next ==
  \/ \E d \in DIDs : Intervene(d)
  \/ \E d \in DIDs, m \in Mediators, version \in {2, 3} : SendRequest(d, m, version)
  \/ \E w \in Workers : Coordinating(w)
  \/ \E answer \in Answer : OtherMediatorAnswers(answer)
  \/ \E answer \in answers : HandleGrant(answer)
  \/ \E answer \in answers : HandleDeny(answer)

Spec == Init /\ [][Next]_vars

\* Workers are told apart by nothing, and DIDs by what is recorded for them only.
Symmetry == Permutations(Workers) \union Permutations(DIDs)

------------------------------------------------------------------------------
(* Properties                                                              *)

(***************************************************************************)
(* A DID document lists a place for its messages only when a mediator that *)
(* its owner had asked named that place in its answer to that request: a   *)
(* grant that nobody requested, that answers the request of another DID or *)
(* that comes from another mediator changes nothing.  The place named may  *)
(* be any other mediator.                                                  *)
(***************************************************************************)
ServicesWereRequested ==
  \A d \in DIDs : \A i \in DOMAIN services[d] :
    services[d][i].id = "didcomm-mediator" =>
      \E r \in requests, answer \in granted :
        /\ r.from = d /\ answer.to = d
        /\ answer.thid = r.id /\ answer.from = r.to
        /\ answer.routing = services[d][i].uri

(***************************************************************************)
(* A version 3 requester is never told anything that the mediator has not  *)
(* recorded first, whichever saves fail.                                   *)
(***************************************************************************)
AnswersWereRecorded ==
  \A answer \in answers :
    answer.from = Mediator /\ answer.version = 3 =>
      <<answer.to, IF answer.kind = "grant" THEN "GRANTED" ELSE "DENIED">> \in recorded

(***************************************************************************)
(* A recorded response agrees with the default or with a policy that was   *)
(* in force for that requester at some time, whatever changes while the    *)
(* request is handled.                                                     *)
(***************************************************************************)
ResponsesFollowPolicy ==
  \A d \in DIDs :
    /\ <<d, "GRANTED">> \in recorded => DefaultGrantAll \/ <<d, "ALLOW">> \in policyLog
    /\ <<d, "DENIED">> \in recorded => ~DefaultGrantAll \/ <<d, "DENY">> \in policyLog

(***************************************************************************)
(* What a requester is told was recorded, and what is recorded follows a   *)
(* policy.                                                                 *)
(***************************************************************************)
AnswersAreLawful == AnswersWereRecorded /\ ResponsesFollowPolicy

(***************************************************************************)
(* What the recipient's handler says it does on a denial, `Delete service  *)
(* if it exists`: after a denial the document does not list its sender.    *)
(***************************************************************************)
DenialRemovesService ==
  [][\A answer \in answers :
       HandleDeny(answer) =>
         \A i \in DOMAIN services'[answer.to] :
           services'[answer.to][i].uri # answer.from]_vars

==============================================================================
