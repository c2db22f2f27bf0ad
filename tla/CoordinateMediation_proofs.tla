---------------------- MODULE CoordinateMediation_proofs ----------------------
(***************************************************************************)
(* Proofs about CoordinateMediation, for every set of DIDs, mediators and  *)
(* workers, both defaults and every bound, and about RecipientUpdates, the *)
(* other half of version 3, for every set of updates; and about KvStore,   *)
(* in which the mediator registers all this, for every set of keys and any *)
(* page size.                                                              *)
(***************************************************************************)
EXTENDS DataAnswers, CoordinateMediation, Filters_proofs, FiniteSetTheorems, TLAPS

------------------------------------------------------------------------------
(* Types                                                                   *)

\* The recipients' requests are finitely many, so that they can be numbered.
Typed == TypeOK /\ IsFiniteSet(requests)

\* What a task is when it is at some stage.
LEMMA TaskAtStage ==
  ASSUME TypeOK, NEW w \in Workers, NEW stage, AtStage(w, stage)
  PROVE  task[w] \in RequestTask /\ task[w].stage = stage
  BY DEF TypeOK, AtStage, Idle, RequestTask

LEMMA DecisionType == \A policy : Decision(policy) \in Responses
  BY DEF Decision, Responses

LEMMA FaultType == TypeOK /\ Fault => faults' \in 0 .. MaxFaults /\ UNCHANGED <<arrivals, changes, grants>>
  BY BoundsAssumption DEF TypeOK, Fault, BoundsAssumption

LEMMA InitTyped == Init => Typed
<1> SUFFICES ASSUME Init PROVE Typed
  OBVIOUS
<1>1. services \in [DIDs -> Seq(Service)]
  <2> DEFINE configured == [id |-> "configured", form |-> "string", uri |-> Mediator]
  <2>1. configured \in Service
    BY DEF Service, Mediators
  <2>2. services \in [DIDs -> {<<>>, <<configured>>}]
    BY DEF Init
  <2> HIDE DEF configured
  <2>3. <<>> \in Seq(Service) /\ <<configured>> \in Seq(Service)
    BY <2>1
  <2>4. QED BY <2>2, <2>3
<1>2. IsFiniteSet(requests)
  BY FS_EmptySet DEF Init
<1>3. task \in [Workers -> {Idle} \union RequestTask]
  BY DEF Init
<1>4. ManagerTypeOK
  BY DEF Init, ManagerInit, ManagerTypeOK
<1>5. QED
  BY <1>1, <1>2, <1>3, <1>4, BoundsAssumption DEF Init, TypeOK, Typed, BoundsAssumption

\* A request that is sent gets a number of its own.
LEMMA SendRequestTyped ==
  ASSUME Typed, NEW d \in DIDs, NEW m \in Mediators, NEW version \in {2, 3},
         SendRequest(d, m, version)
  PROVE  Typed'
<1>1. Cardinality(requests) \in Nat
  BY FS_CardinalityType DEF Typed
<1>2. Cardinality(requests) + 1 \in 1 .. MaxRequests
  BY <1>1, BoundsAssumption DEF SendRequest, BoundsAssumption
<1>3. requests' \subseteq Request
  BY <1>2 DEF Typed, TypeOK, SendRequest, Request
<1>4. IsFiniteSet(requests')
  BY FS_AddElement DEF Typed, SendRequest
<1>5. QED
  BY <1>3, <1>4 DEF Typed, TypeOK, ManagerTypeOK, SendRequest, managerVars, counters

LEMMA InterveneTyped ==
  ASSUME Typed, NEW d \in DIDs, Intervene(d)
  PROVE  Typed'
<1>1. policies' \in [DIDs -> Policies \union {NONE}]
  BY DEF Typed, TypeOK, ManagerTypeOK, Intervene, SaveMediationPolicy, RemoveMediationPolicy
<1>2. mediations' \in [DIDs -> Responses \union {NONE}]
  BY DEF Typed, TypeOK, ManagerTypeOK, Intervene, RemoveMediation
<1>3. changes' \in 0 .. MaxChanges
  BY BoundsAssumption DEF Typed, TypeOK, Intervene, BoundsAssumption
<1>4. QED
  BY <1>1, <1>2, <1>3 DEF Typed, TypeOK, ManagerTypeOK, Intervene, local

LEMMA ReceiveRequestTyped ==
  ASSUME Typed, NEW w \in Workers, NEW r \in requests, ReceiveRequest(w, r)
  PROVE  Typed'
<1>1. r \in Request
  BY DEF Typed, TypeOK
<1> DEFINE t == [type |-> "request", request |-> r, policy |-> NONE,
                 stage |-> IF r.version = 3 THEN "policy" ELSE "track",
                 status |-> IF r.version = 3 THEN NONE ELSE "GRANTED"]
<1>2. t \in RequestTask
  BY <1>1 DEF RequestTask, Responses
<1>3. task' = [task EXCEPT ![w] = t] /\ arrivals' \in 0 .. MaxArrivals
  BY BoundsAssumption DEF ReceiveRequest, Arrive, Typed, TypeOK, BoundsAssumption
<1> HIDE DEF t
<1>4. QED
  BY <1>2, <1>3 DEF Typed, TypeOK, ManagerTypeOK, ReceiveRequest, Arrive, managerVars, local

LEMMA ReadPolicyTyped ==
  ASSUME Typed, NEW w \in Workers, ReadPolicy(w)
  PROVE  Typed'
<1>1. task[w] \in RequestTask
  BY TaskAtStage DEF ReadPolicy, Typed
<1>2. policies[task[w].request.from] \in Policies \union {NONE}
  BY <1>1 DEF Typed, TypeOK, ManagerTypeOK, RequestTask, Request
<1>3. task' \in [Workers -> {Idle} \union RequestTask]
  BY <1>1, <1>2 DEF Typed, TypeOK, ReadPolicy, RequestTask
<1>4. QED
  BY <1>3 DEF Typed, TypeOK, ManagerTypeOK, ReadPolicy, managerVars, local, counters

LEMMA DecideTyped ==
  ASSUME Typed, NEW w \in Workers, Decide(w)
  PROVE  Typed'
<1>1. task[w] \in RequestTask
  BY TaskAtStage DEF Decide, Typed
<1>2. task' \in [Workers -> {Idle} \union RequestTask]
  BY <1>1, DecisionType DEF Typed, TypeOK, Decide, RequestTask
<1>3. QED
  BY <1>2 DEF Typed, TypeOK, ManagerTypeOK, Decide, managerVars, local, counters

LEMMA RecordStatusTyped ==
  ASSUME Typed, NEW w \in Workers, RecordStatus(w), task[w].status \in Responses
  PROVE  Typed'
<1>1. task[w] \in RequestTask
  BY TaskAtStage DEF RecordStatus, Typed
<1>2. task[w].request.from \in DIDs
  BY <1>1 DEF RequestTask, Request
<1>3. task' \in [Workers -> {Idle} \union RequestTask]
  BY <1>1 DEF Typed, TypeOK, RecordStatus, RequestTask
<1>4. mediations' \in [DIDs -> Responses \union {NONE}] /\ recorded' \subseteq DIDs \X Responses
  BY <1>2 DEF Typed, TypeOK, ManagerTypeOK, RecordStatus, SaveMediation
<1>5. /\ faults' \in 0 .. MaxFaults
      /\ UNCHANGED <<arrivals, changes, grants>>
  BY FaultType DEF Typed, TypeOK, RecordStatus, counters
<1>6. QED
  BY <1>3, <1>4, <1>5 DEF Typed, TypeOK, ManagerTypeOK, RecordStatus, local

LEMMA TrackAnswerTyped ==
  ASSUME Typed, NEW w \in Workers, TrackAnswer(w)
  PROVE  Typed'
<1>1. task[w] \in RequestTask
  BY TaskAtStage DEF TrackAnswer, Typed
<1>2. task' \in [Workers -> {Idle} \union RequestTask]
  BY <1>1 DEF Typed, TypeOK, TrackAnswer, RequestTask
<1>3. trackedV2' \subseteq DIDs
  BY <1>1 DEF Typed, TypeOK, TrackAnswer, RequestTask, Request
<1>4. /\ faults' \in 0 .. MaxFaults
      /\ UNCHANGED <<arrivals, changes, grants>>
  BY FaultType DEF Typed, TypeOK, TrackAnswer, counters
<1>5. QED
  BY <1>2, <1>3, <1>4 DEF Typed, TypeOK, ManagerTypeOK, TrackAnswer, managerVars, local

\* The answer that Reply sends.
Replied(t) ==
  [kind |-> IF t.status = "GRANTED" THEN "grant" ELSE "deny", from |-> t.request.to,
   to |-> t.request.from, thid |-> t.request.id, version |-> t.request.version,
   routing |-> IF t.status = "GRANTED" THEN t.request.to ELSE NONE]

LEMMA ReplyTyped ==
  ASSUME Typed, NEW w \in Workers, Reply(w)
  PROVE  Typed' /\ answers' = answers \union {Replied(task[w])} /\ Replied(task[w]) \in Answer
<1>1. task[w] \in RequestTask
  BY TaskAtStage DEF Reply, Typed
<1>2. Replied(task[w]) \in Answer
  BY <1>1 DEF RequestTask, Request, Answer, Replied
<1>3. Sends(Replied(task[w]))
  BY DEF Reply, Replied
<1>4. answers' = answers \union {Replied(task[w])} /\ granted' \subseteq granted \union {Replied(task[w])}
  BY <1>3 DEF Sends
<1>5. task' \in [Workers -> {Idle} \union RequestTask]
  BY DEF Typed, TypeOK, Reply
<1>6. UNCHANGED <<managerVars, requests, services, trackedV2, policyLog, recorded, counters>>
  BY DEF Reply
<1>7. QED
  BY <1>2, <1>4, <1>5, <1>6 DEF Typed, TypeOK, ManagerTypeOK, managerVars, counters

LEMMA OtherMediatorAnswersTyped ==
  ASSUME Typed, NEW answer \in Answer, OtherMediatorAnswers(answer)
  PROVE  Typed'
<1>1. grants' \in 0 .. MaxGrants
  BY BoundsAssumption DEF Typed, TypeOK, OtherMediatorAnswers, BoundsAssumption
<1>2. answers' \subseteq Answer /\ granted' \subseteq Answer
  BY DEF Typed, TypeOK, OtherMediatorAnswers, Sends
<1>3. QED
  BY <1>1, <1>2 DEF Typed, TypeOK, ManagerTypeOK, OtherMediatorAnswers, managerVars

LEMMA ConsumeType ==
  ASSUME TypeOK, NEW answer, Consume(answer)
  PROVE  /\ answers' \subseteq answers
         /\ faults' \in 0 .. MaxFaults
         /\ UNCHANGED <<arrivals, changes, grants>>
<1>1. CASE UNCHANGED counters
  BY <1>1 DEF Consume, TypeOK, counters, Fault
<1>2. CASE Fault
  BY <1>2, FaultType DEF Consume
<1>3. QED BY <1>1, <1>2 DEF Consume

\* The services that an answer may add to, or leave of, what its recipient has.
Mediated(answer) == [id |-> "didcomm-mediator", form |-> "objects", uri |-> answer.routing]

\* An answer that adds one names a place and was asked for.
Adds(answer) == answer.kind = "grant" /\ answer.routing # NONE /\ Requested(answer)

LEMMA HandleGrantServices ==
  ASSUME TypeOK, NEW answer \in answers, HandleGrant(answer)
  PROVE  /\ services' \in [DIDs -> Seq(Service)]
         /\ \A d \in DIDs : \A i \in DOMAIN services'[d] :
              \/ i \in DOMAIN services[d] /\ services'[d][i] = services[d][i]
              \/ d = answer.to /\ services'[d][i] = Mediated(answer) /\ Adds(answer)
<1>1. answer \in Answer
  BY DEF TypeOK
<1>3. CASE Adds(answer)
  <2>0. Mediated(answer) \in Service
    BY <1>1, <1>3 DEF Adds, Answer, Service, Mediated
  <2>1. services' = [services EXCEPT ![answer.to] = Append(@, Mediated(answer))]
    BY <1>3 DEF HandleGrant, Mediated, Adds
  <2>2. answer.to \in DIDs /\ services[answer.to] \in Seq(Service)
    BY <1>1 DEF Answer, TypeOK
  <2>3. Append(services[answer.to], Mediated(answer)) \in Seq(Service)
    BY <2>0, <2>2
  <2>4. \A i \in DOMAIN Append(services[answer.to], Mediated(answer)) :
          \/ /\ i \in DOMAIN services[answer.to]
             /\ Append(services[answer.to], Mediated(answer))[i] = services[answer.to][i]
          \/ Append(services[answer.to], Mediated(answer))[i] = Mediated(answer)
    BY <2>0, <2>2
  <2>5. QED BY <1>3, <2>1, <2>2, <2>3, <2>4 DEF TypeOK
<1>4. CASE ~Adds(answer)
  BY <1>4 DEF HandleGrant, Adds, TypeOK
<1>5. QED BY <1>3, <1>4

LEMMA HandleDenyServices ==
  ASSUME TypeOK, NEW answer \in answers, HandleDeny(answer)
  PROVE  /\ services' \in [DIDs -> Seq(Service)]
         /\ \A d \in DIDs : Elements(services'[d]) \subseteq Elements(services[d])
<1>1. answer.to \in DIDs /\ services[answer.to] \in Seq(Service)
  BY DEF TypeOK, Answer
<1>2. CASE UNCHANGED services
  BY <1>2 DEF TypeOK
<1>3. CASE ~UNCHANGED services
  <2>1. PICK gone : services' = [services EXCEPT ![answer.to] = Without(@, gone)]
    BY <1>3 DEF HandleDeny
  <2>2. /\ Without(services[answer.to], gone) \in Seq(Service)
        /\ Elements(Without(services[answer.to], gone)) \subseteq Elements(services[answer.to])
    BY <1>1, WithoutElements
  <2>3. QED BY <1>1, <2>1, <2>2 DEF TypeOK
<1>4. QED BY <1>2, <1>3

LEMMA HandleAnswerTyped ==
  ASSUME Typed, NEW answer \in answers, HandleGrant(answer) \/ HandleDeny(answer)
  PROVE  Typed'
<1>1. services' \in [DIDs -> Seq(Service)]
  BY HandleGrantServices, HandleDenyServices DEF Typed
<1>2. /\ answers' \subseteq Answer
      /\ faults' \in 0 .. MaxFaults
      /\ UNCHANGED <<arrivals, changes, grants>>
  BY ConsumeType DEF HandleGrant, HandleDeny, Typed, TypeOK
<1>3. UNCHANGED <<managerVars, requests, task, trackedV2, policyLog, recorded, granted>>
  BY DEF HandleGrant, HandleDeny
<1>4. QED
  BY <1>1, <1>2, <1>3 DEF Typed, TypeOK, ManagerTypeOK, managerVars

------------------------------------------------------------------------------
(* The inductive invariant                                                 *)

\* A status agrees with the default or with a policy that was in force.
Follows(d, status, log) ==
  /\ status = "GRANTED" => DefaultGrantAll \/ <<d, "ALLOW">> \in log
  /\ status = "DENIED" => ~DefaultGrantAll \/ <<d, "DENY">> \in log

PoliciesAreLogged == \A d \in DIDs : <<d, policies[d]>> \in policyLog

\* What a task knows when it is at some stage of version 3; version 2 grants.
Sound(t) ==
  /\ t.request \in requests /\ t.request.to = Mediator
  /\ t.stage \in {"policy", "default", "save"} => t.request.version = 3
  /\ t.stage = "default" => <<t.request.from, t.policy>> \in policyLog
  /\ t.stage = "save" => t.status \in Responses /\ Follows(t.request.from, t.status, policyLog)
  /\ t.stage \in {"track", "reply"} =>
       /\ t.status \in Responses
       /\ t.request.version = 3 => <<t.request.from, t.status>> \in recorded

TasksAreSound == \A w \in Workers : task[w] # Idle => Sound(task[w])

RecordedFollow == \A r \in recorded : Follows(r[1], r[2], policyLog)

\* A grant that is on its way was sent.
GrantsAreLogged == \A answer \in answers : answer.kind = "grant" => answer \in granted

IInv ==
  /\ Typed
  /\ GrantsAreLogged
  /\ PoliciesAreLogged
  /\ TasksAreSound
  /\ RecordedFollow
  /\ ServicesWereRequested
  /\ AnswersWereRecorded

\* The decision on a request follows the policy that was read for it.
LEMMA DecisionFollows ==
  ASSUME NEW d, NEW policy \in Policies \union {NONE}, <<d, policy>> \in policyLog
  PROVE  Follows(d, Decision(policy), policyLog)
  BY NoneAssumption, MediatorAssumption
     DEF Follows, Decision, Policies, MediatorAssumption, NoneAssumption

\* Requests, policies, recorded responses and grants are only added.
LEMMA HistoriesGrow ==
  Next => /\ requests \subseteq requests'
          /\ policyLog \subseteq policyLog'
          /\ recorded \subseteq recorded'
          /\ granted \subseteq granted'
<1> SUFFICES ASSUME Next PROVE /\ requests \subseteq requests'
                               /\ policyLog \subseteq policyLog'
                               /\ recorded \subseteq recorded'
                               /\ granted \subseteq granted'
  OBVIOUS
<1>1. ASSUME NEW d \in DIDs, Intervene(d) PROVE /\ requests \subseteq requests'
                                               /\ policyLog \subseteq policyLog'
                                               /\ recorded \subseteq recorded'
                                               /\ granted \subseteq granted'
  BY <1>1 DEF Intervene, local
<1>2. ASSUME NEW w \in Workers, Coordinating(w)
      PROVE  /\ requests \subseteq requests'
             /\ policyLog \subseteq policyLog'
             /\ recorded \subseteq recorded'
             /\ granted \subseteq granted'
  <2>1. CASE Reply(w)
    BY <2>1 DEF Reply, Sends
  <2>2. CASE ~Reply(w)
    BY <1>2, <2>2 DEF Coordinating, ReceiveRequest, ReadPolicy, Decide, RecordStatus, TrackAnswer, local, Arrive
  <2>3. QED BY <2>1, <2>2
<1>3. QED
  BY <1>1, <1>2 DEF Next, SendRequest, OtherMediatorAnswers, Sends, HandleGrant, HandleDeny

LEMMA InitIInv == Init => IInv
<1> SUFFICES ASSUME Init PROVE IInv
  OBVIOUS
<1>1. GrantsAreLogged /\ PoliciesAreLogged /\ RecordedFollow /\ AnswersWereRecorded
  BY DEF Init, ManagerInit, GrantsAreLogged, PoliciesAreLogged, RecordedFollow, AnswersWereRecorded
<1>2. TasksAreSound
  BY DEF Init, TasksAreSound
<1>3. ServicesWereRequested
  <2> DEFINE configured == [id |-> "configured", form |-> "string", uri |-> Mediator]
  <2>1. \A d \in DIDs : services[d] = <<>> \/ services[d] = <<configured>>
    BY DEF Init
  <2>2. configured.id # "didcomm-mediator"
    OBVIOUS
  <2> HIDE DEF configured
  <2>3. QED BY <2>1, <2>2 DEF ServicesWereRequested
<1>4. QED BY <1>1, <1>2, <1>3, InitTyped DEF IInv

LEMMA TypedStep == IInv /\ [Next]_vars => Typed'
<1> SUFFICES ASSUME IInv, [Next]_vars PROVE Typed'
  OBVIOUS
<1>1. ASSUME NEW w \in Workers, Coordinating(w) PROVE Typed'
  <2>1. ASSUME RecordStatus(w) PROVE task[w].status \in Responses
    <3>1. task[w] # Idle /\ task[w].stage = "save"
      BY <2>1 DEF RecordStatus, AtStage, Idle
    <3>2. QED BY <3>1 DEF IInv, TasksAreSound, Sound
  <2>2. QED
    BY <1>1, <2>1, ReceiveRequestTyped, ReadPolicyTyped, DecideTyped, RecordStatusTyped,
       TrackAnswerTyped, ReplyTyped DEF Coordinating, IInv
<1>2. CASE UNCHANGED vars
  BY <1>2 DEF vars, IInv, Typed, TypeOK, ManagerTypeOK, managerVars, counters
<1>3. ASSUME NEW answer \in answers, HandleGrant(answer) \/ HandleDeny(answer) PROVE Typed'
  BY <1>3, HandleAnswerTyped DEF IInv
<1>4. ASSUME NEW d \in DIDs, Intervene(d) PROVE Typed'
  BY <1>4, InterveneTyped DEF IInv
<1>5. ASSUME NEW answer \in Answer, OtherMediatorAnswers(answer) PROVE Typed'
  BY <1>5, OtherMediatorAnswersTyped DEF IInv
<1>6. ASSUME NEW d \in DIDs, NEW m \in Mediators, NEW version \in {2, 3}, SendRequest(d, m, version)
      PROVE  Typed'
  BY <1>6, SendRequestTyped DEF IInv
<1>7. QED
  BY <1>1, <1>2, <1>3, <1>4, <1>5, <1>6 DEF Next

\* A worker's task is sound after every step of its own.
LEMMA OwnStepSound ==
  ASSUME IInv, NEW w \in Workers, Coordinating(w), task'[w] # Idle
  PROVE  Sound(task[w])'
<1> USE DEF IInv
<1>0. /\ requests \subseteq requests'
      /\ policyLog \subseteq policyLog'
      /\ recorded \subseteq recorded'
  BY HistoriesGrow DEF Next
<1>1. ASSUME NEW r \in requests, ReceiveRequest(w, r) PROVE Sound(task[w])'
  <2>1. r.version \in {2, 3}
    BY DEF Typed, TypeOK, Request
  <2>2. task'[w] = [type |-> "request", request |-> r, policy |-> NONE,
                    stage |-> IF r.version = 3 THEN "policy" ELSE "track",
                    status |-> IF r.version = 3 THEN NONE ELSE "GRANTED"]
    BY <1>1 DEF ReceiveRequest, Arrive, Typed, TypeOK
  <2>3. QED
    BY <1>0, <1>1, <2>1, <2>2 DEF Sound, ReceiveRequest, Responses
<1>2. ASSUME NEW stage, AtStage(w, stage)
      PROVE  task[w] \in RequestTask /\ task[w].stage = stage /\ Sound(task[w])
  BY <1>2, TaskAtStage DEF Typed, TasksAreSound, Idle, RequestTask
<1>3. ASSUME ReadPolicy(w) PROVE Sound(task[w])'
  <2>1. task'[w] = [task[w] EXCEPT !.stage = "default", !.policy = policies[task[w].request.from]]
    BY <1>3 DEF ReadPolicy, Typed, TypeOK
  <2>2. task[w] \in RequestTask /\ task[w].stage = "policy" /\ Sound(task[w])
    BY <1>2, <1>3 DEF ReadPolicy
  <2>3. <<task[w].request.from, policies[task[w].request.from]>> \in policyLog
    BY <2>2 DEF PoliciesAreLogged, RequestTask, Request
  <2>4. QED
    BY <1>0, <2>1, <2>2, <2>3 DEF Sound, RequestTask
<1>4. ASSUME Decide(w) PROVE Sound(task[w])'
  <2>1. task'[w] = [task[w] EXCEPT !.stage = "save", !.status = Decision(task[w].policy)]
    BY <1>4 DEF Decide, Typed, TypeOK
  <2>2. task[w] \in RequestTask /\ task[w].stage = "default" /\ Sound(task[w])
    BY <1>2, <1>4 DEF Decide
  <2>3. Follows(task[w].request.from, Decision(task[w].policy), policyLog)
    BY <2>2, DecisionFollows DEF Sound, RequestTask
  <2>4. Follows(task[w].request.from, Decision(task[w].policy), policyLog')
    BY <1>0, <1>4, <2>3 DEF Follows, Decide
  <2>5. QED
    BY <1>0, <2>1, <2>2, <2>4, DecisionType DEF Sound, RequestTask
<1>5. ASSUME RecordStatus(w) PROVE Sound(task[w])'
  <2>1. task'[w] = [task[w] EXCEPT !.stage = "track"] /\ <<task[w].request.from, task[w].status>> \in recorded'
    BY <1>5 DEF RecordStatus, Typed, TypeOK
  <2>2. task[w] \in RequestTask /\ task[w].stage = "save" /\ Sound(task[w])
    BY <1>2, <1>5 DEF RecordStatus
  <2>3. QED
    BY <1>0, <2>1, <2>2 DEF Sound, RequestTask
<1>6. ASSUME TrackAnswer(w) PROVE Sound(task[w])'
  <2>1. task'[w] = [task[w] EXCEPT !.stage = "reply"]
    BY <1>6 DEF TrackAnswer, Typed, TypeOK
  <2>2. task[w] \in RequestTask /\ task[w].stage = "track" /\ Sound(task[w])
    BY <1>2, <1>6 DEF TrackAnswer
  <2>3. QED
    BY <1>0, <2>1, <2>2 DEF Sound, RequestTask
<1>7. ASSUME Reply(w) PROVE FALSE
  BY <1>7 DEF Reply, Typed, TypeOK
<1>8. QED
  BY <1>1, <1>3, <1>4, <1>5, <1>6, <1>7 DEF Coordinating

LEMMA TasksStep == IInv /\ Next => TasksAreSound'
<1> SUFFICES ASSUME IInv, Next, NEW w \in Workers, task'[w] # Idle PROVE Sound(task[w])'
  BY DEF TasksAreSound
<1>1. CASE Coordinating(w)
  BY <1>1, OwnStepSound
<1>2. CASE ~Coordinating(w)
  <2>1. task'[w] = task[w]
    <3>1. ASSUME NEW v \in Workers, Coordinating(v) PROVE task'[w] = task[w]
      <4>1. v # w
        BY <1>2, <3>1
      <4>2. QED
        BY <3>1, <4>1 DEF Coordinating, ReceiveRequest, Arrive, ReadPolicy, Decide, RecordStatus,
              TrackAnswer, Reply, IInv, Typed, TypeOK
    <3>2. QED
      BY <3>1 DEF Next, Intervene, SendRequest, OtherMediatorAnswers, HandleGrant, HandleDeny
  <2>2. Sound(task[w])
    BY <2>1 DEF IInv, TasksAreSound
  <2>3. QED
    BY <2>1, <2>2, HistoriesGrow DEF Sound, Follows
<1>3. QED BY <1>1, <1>2

\* Only the operator changes policies, and each change is logged.
LEMMA PoliciesStep == IInv /\ Next => PoliciesAreLogged'
<1> SUFFICES ASSUME IInv, Next PROVE PoliciesAreLogged'
  OBVIOUS
<1>1. ASSUME NEW d \in DIDs, Intervene(d) PROVE PoliciesAreLogged'
  <2>1. <<d, policies'[d]>> \in policyLog' /\ policyLog \subseteq policyLog'
    BY <1>1 DEF Intervene
  <2>2. \A e \in DIDs \ {d} : policies'[e] = policies[e]
    BY <1>1 DEF Intervene, SaveMediationPolicy, RemoveMediationPolicy, IInv, Typed, TypeOK,
                ManagerTypeOK
  <2>3. QED
    BY <2>1, <2>2 DEF IInv, PoliciesAreLogged
<1>2. CASE UNCHANGED <<policies, policyLog>>
  BY <1>2 DEF IInv, PoliciesAreLogged
<1>3. ASSUME NEW w \in Workers, Coordinating(w) PROVE UNCHANGED <<policies, policyLog>>
  BY <1>3 DEF Coordinating, ReceiveRequest, ReadPolicy, Decide, RecordStatus, TrackAnswer, Reply,
              managerVars
<1>4. QED
  BY <1>1, <1>2, <1>3 DEF Next, SendRequest, OtherMediatorAnswers, HandleGrant, HandleDeny, managerVars

\* Only RecordStatus records, and what it records follows.
LEMMA RecordedStep == IInv /\ Next => RecordedFollow'
<1> SUFFICES ASSUME IInv, Next, NEW r \in recorded' PROVE Follows(r[1], r[2], policyLog')
  BY DEF RecordedFollow
<1>1. CASE r \in recorded
  <2>1. Follows(r[1], r[2], policyLog)
    BY <1>1 DEF IInv, RecordedFollow
  <2>2. QED BY <2>1, HistoriesGrow DEF Follows
<1>2. CASE r \notin recorded
  <2>1. PICK w \in Workers : RecordStatus(w)
    <3>1. ASSUME NEW w \in Workers, Coordinating(w) PROVE RecordStatus(w)
      BY <1>2, <3>1 DEF Coordinating, ReceiveRequest, ReadPolicy, Decide, TrackAnswer, Reply
    <3>2. QED
      BY <1>2, <3>1 DEF Next, Intervene, SendRequest, OtherMediatorAnswers, HandleGrant, HandleDeny
  <2>2. r = <<task[w].request.from, task[w].status>> /\ UNCHANGED policyLog
    BY <1>2, <2>1 DEF RecordStatus
  <2>3. task[w] # Idle /\ task[w].stage = "save"
    BY <2>1 DEF RecordStatus, AtStage, Idle
  <2>4. Follows(task[w].request.from, task[w].status, policyLog)
    BY <2>3 DEF IInv, TasksAreSound, Sound
  <2>5. QED BY <2>2, <2>4
<1>3. QED BY <1>1, <1>2

\* A grant is logged when it is sent, and stays logged.
LEMMA GrantsStep == IInv /\ Next => GrantsAreLogged'
<1> SUFFICES ASSUME IInv, Next, NEW answer \in answers', answer.kind = "grant"
             PROVE  answer \in granted'
  BY DEF GrantsAreLogged
<1>1. CASE answer \in answers
  BY <1>1, HistoriesGrow DEF IInv, GrantsAreLogged
<1>2. ASSUME NEW other, Sends(other), answer \notin answers PROVE answer \in granted'
  BY <1>2 DEF Sends
<1>3. ASSUME NEW w \in Workers, Coordinating(w), ~Reply(w) PROVE answers' = answers
  BY <1>3 DEF Coordinating, ReceiveRequest, ReadPolicy, Decide, RecordStatus, TrackAnswer, local
<1>4. ASSUME NEW other, HandleGrant(other) \/ HandleDeny(other) PROVE answers' \subseteq answers
  BY <1>4 DEF HandleGrant, HandleDeny, Consume
<1>5. ASSUME NEW w \in Workers, Reply(w) PROVE \E other : Sends(other)
  BY <1>5 DEF Reply
<1>6. ASSUME NEW other, OtherMediatorAnswers(other) PROVE Sends(other)
  BY <1>6 DEF OtherMediatorAnswers
<1>7. QED
  BY <1>1, <1>2, <1>3, <1>4, <1>5, <1>6 DEF Next, Intervene, SendRequest, local

\* What lets a document of d list a service that names `uri`.
AskedAndNamed(d, uri) ==
  \E r \in requests, answer \in granted :
    /\ r.from = d /\ answer.to = d
    /\ answer.thid = r.id /\ answer.from = r.to
    /\ answer.routing = uri

\* A service is added by a grant that was asked for, and requests and grants stay.
LEMMA ServicesStep == IInv /\ Next => ServicesWereRequested'
<1> SUFFICES ASSUME IInv, Next, NEW d \in DIDs, NEW i \in DOMAIN services'[d],
                    services'[d][i].id = "didcomm-mediator", NEW uri, uri = services'[d][i].uri
             PROVE  AskedAndNamed(d, uri)'
  BY DEF ServicesWereRequested, AskedAndNamed
<1>1. CASE services'[d][i] \in Elements(services[d])
  <2>1. AskedAndNamed(d, uri)
    BY <1>1 DEF IInv, ServicesWereRequested, AskedAndNamed, Elements
  <2>2. QED BY <2>1, HistoriesGrow DEF AskedAndNamed
<1>2. ASSUME NEW answer \in answers, HandleDeny(answer) PROVE services'[d][i] \in Elements(services[d])
  <2>1. Elements(services'[d]) \subseteq Elements(services[d])
    BY <1>2, HandleDenyServices DEF IInv, Typed
  <2>2. QED BY <2>1 DEF Elements
<1>3. ASSUME NEW answer \in answers, HandleGrant(answer)
      PROVE  \/ services'[d][i] \in Elements(services[d])
             \/ d = answer.to /\ services'[d][i] = Mediated(answer) /\ Adds(answer)
  BY <1>3, HandleGrantServices DEF IInv, Typed, Elements
<1>4. CASE UNCHANGED services
  BY <1>1, <1>4 DEF Elements
<1>5. ASSUME NEW w \in Workers, Coordinating(w) PROVE UNCHANGED services
  BY <1>5 DEF Coordinating, ReceiveRequest, ReadPolicy, Decide, RecordStatus, TrackAnswer, Reply, local
<1>6. ASSUME NEW answer \in answers, d = answer.to, services'[d][i] = Mediated(answer), Adds(answer)
      PROVE  AskedAndNamed(d, uri)'
  <2>1. answer \in granted
    BY <1>6 DEF IInv, GrantsAreLogged, Adds
  <2>2. PICK r \in requests : r.id = answer.thid /\ r.from = answer.to /\ r.to = answer.from
    BY <1>6 DEF Adds, Requested
  <2>3. uri = answer.routing
    BY <1>6 DEF Mediated
  <2>4. r \in requests' /\ answer \in granted'
    BY <2>1, <2>2, HistoriesGrow
  <2>5. QED BY <1>6, <2>2, <2>3, <2>4 DEF AskedAndNamed
<1>7. QED
  BY <1>1, <1>2, <1>3, <1>4, <1>5, <1>6
     DEF Next, Intervene, SendRequest, OtherMediatorAnswers, local

\* The mediator answers with the status that it recorded; others answer for
\* themselves.
LEMMA AnswersStep == IInv /\ Next => AnswersWereRecorded'
<1> SUFFICES ASSUME IInv, Next, NEW answer \in answers', answer.from = Mediator, answer.version = 3
             PROVE  <<answer.to, IF answer.kind = "grant" THEN "GRANTED" ELSE "DENIED">> \in recorded'
  BY DEF AnswersWereRecorded
<1>1. CASE answer \in answers
  BY <1>1, HistoriesGrow DEF IInv, AnswersWereRecorded
<1>2. CASE answer \notin answers
  <2>1. PICK w \in Workers : Reply(w)
    <3>1. ASSUME NEW w \in Workers, Coordinating(w) PROVE Reply(w)
      BY <1>2, <3>1 DEF Coordinating, ReceiveRequest, ReadPolicy, Decide, RecordStatus, TrackAnswer, local
    <3>2. ASSUME NEW other, HandleGrant(other) \/ HandleDeny(other) PROVE answers' \subseteq answers
      BY <3>2 DEF HandleGrant, HandleDeny, Consume
    <3>3. ASSUME NEW other, OtherMediatorAnswers(other) PROVE answer = other /\ other.from # Mediator
      BY <1>2, <3>3, MediatorAssumption DEF OtherMediatorAnswers, Sends, MediatorAssumption
    <3>4. QED
      BY <1>2, <3>1, <3>2, <3>3 DEF Next, Intervene, SendRequest, local
  <2>2. answer = Replied(task[w]) /\ UNCHANGED recorded
    BY <1>2, <2>1, ReplyTyped DEF IInv, Reply
  <2>3. task[w] # Idle /\ task[w].stage = "reply"
    BY <2>1 DEF Reply, AtStage, Idle
  <2>4. Sound(task[w])
    BY <2>3 DEF IInv, TasksAreSound
  <2>5. QED
    BY <2>2, <2>3, <2>4 DEF Sound, Replied, Responses
<1>3. QED BY <1>1, <1>2

\* The invariant is inductive.
LEMMA IInvStep == IInv /\ [Next]_vars => IInv'
<1> SUFFICES ASSUME IInv, [Next]_vars PROVE IInv'
  OBVIOUS
<1>1. CASE Next
  BY <1>1, TypedStep, GrantsStep, PoliciesStep, TasksStep, RecordedStep, ServicesStep, AnswersStep DEF IInv
<1>2. CASE UNCHANGED vars
  <2>1. UNCHANGED <<managerVars, requests, task, answers, services, policyLog, recorded, granted>>
    BY <1>2 DEF vars
  <2>2. GrantsAreLogged' /\ PoliciesAreLogged' /\ TasksAreSound' /\ RecordedFollow'
    BY <2>1 DEF IInv, GrantsAreLogged, PoliciesAreLogged, TasksAreSound, Sound, RecordedFollow, managerVars
  <2>3. ServicesWereRequested' /\ AnswersWereRecorded'
    BY <2>1 DEF IInv, ServicesWereRequested, AnswersWereRecorded
  <2>4. QED BY <2>2, <2>3, TypedStep DEF IInv
<1>3. QED BY <1>1, <1>2

LEMMA Invariance == Spec => []IInv
  BY InitIInv, IInvStep, PTL DEF Spec

------------------------------------------------------------------------------
(* Theorems                                                                *)

(***************************************************************************)
(* Type correctness of the mediator and the recipients.                    *)
(***************************************************************************)
THEOREM TypeCorrect == Spec => []TypeOK
<1>1. IInv => TypeOK
  BY DEF IInv, Typed
<1>2. QED BY <1>1, Invariance, PTL

(***************************************************************************)
(* A document lists a place for its messages only if a mediator that its   *)
(* owner had asked named that place in a grant that answers the request,   *)
(* whatever grants and denials arrive, from whom, naming whom, and how     *)
(* often.  That the place is a mediator its owner asked is not true.       *)
(***************************************************************************)
THEOREM OnlyRequestedServices == Spec => []ServicesWereRequested
<1>1. IInv => ServicesWereRequested
  BY DEF IInv
<1>2. QED BY <1>1, Invariance, PTL

(***************************************************************************)
(* Every version 3 answer was recorded first, and every recorded response  *)
(* follows the default or a policy that was in force, for any number of    *)
(* handlers, interventions of the operator and failing saves.              *)
(***************************************************************************)
THEOREM LawfulAnswers == Spec => []AnswersAreLawful
<1>1. ASSUME RecordedFollow PROVE ResponsesFollowPolicy
  <2> SUFFICES ASSUME NEW d \in DIDs
               PROVE  /\ <<d, "GRANTED">> \in recorded => DefaultGrantAll \/ <<d, "ALLOW">> \in policyLog
                      /\ <<d, "DENIED">> \in recorded => ~DefaultGrantAll \/ <<d, "DENY">> \in policyLog
    BY DEF ResponsesFollowPolicy
  <2>1. \A status : <<d, status>> \in recorded => Follows(d, status, policyLog)
    BY <1>1 DEF RecordedFollow
  <2>2. QED BY <2>1 DEF Follows
<1>2. IInv => AnswersAreLawful
  BY <1>1 DEF IInv, AnswersAreLawful
<1>3. QED BY <1>2, Invariance, PTL

------------------------------------------------------------------------------
(* The pages of a database (typeorm/index.ts): what a page holds.          *)

Under(S, k) == {j \in S : j < k}
Rank(S, k) == Cardinality(Under(S, k))
First(S, n) == {k \in S : Rank(S, k) < n}

LEMMA RanksRise ==
  ASSUME NEW S \in SUBSET Nat, IsFiniteSet(S), NEW k \in S, NEW l \in S, k < l
  PROVE  Rank(S, k) < Rank(S, l)
<1>0. \A j \in S : j < k => j < l
  OBVIOUS
<1>1. Under(S, l) \subseteq S /\ Under(S, k) \union {k} \subseteq Under(S, l)
  BY <1>0 DEF Under
<1>2. IsFiniteSet(Under(S, l)) /\ IsFiniteSet(Under(S, k))
  BY <1>1, FS_Subset
<1>3. Cardinality(Under(S, k) \union {k}) = Cardinality(Under(S, k)) + 1
  <2>1. k \notin Under(S, k)
    BY DEF Under
  <2>2. QED BY <1>2, <2>1, FS_AddElement
<1>4. /\ Cardinality(Under(S, k) \union {k}) <= Cardinality(Under(S, l))
      /\ Cardinality(Under(S, k)) \in Nat /\ Cardinality(Under(S, l)) \in Nat
  BY <1>1, <1>2, FS_Subset, FS_CardinalityType
<1>5. QED BY <1>3, <1>4 DEF Rank

LEMMA RankIsNat ==
  ASSUME NEW S \in SUBSET Nat, IsFiniteSet(S), NEW k
  PROVE  Rank(S, k) \in Nat
<1>1. IsFiniteSet(Under(S, k))
  BY FS_Subset DEF Under
<1>2. QED BY <1>1, FS_CardinalityType DEF Rank

\* The ranks below one that an entry has are all taken, by the entries below the
\* first one that has reached it.
LEMMA FirstsUnder ==
  ASSUME NEW S \in SUBSET Nat, IsFiniteSet(S), NEW d \in S, NEW n \in Nat, n <= Rank(S, d)
  PROVE  \E m \in S : Rank(S, m) >= n /\ First(S, n) = Under(S, m)
<1> DEFINE T == {k \in S : Rank(S, k) >= n}
<1>1. T # {} /\ T \in SUBSET Nat
  <2>1. d \in T
    BY RankIsNat
  <2>2. QED BY <2>1
<1>2. PICK m \in T : \A k \in T : m <= k
  BY <1>1, Least
<1>3. ASSUME NEW k \in S PROVE Rank(S, k) < n <=> k < m
  <2>1. Rank(S, k) \in Nat /\ Rank(S, m) \in Nat /\ k \in Nat /\ m \in Nat
    BY RankIsNat
  <2>2. k < m => Rank(S, k) < n
    BY <1>2, <2>1
  <2>3. m < k => Rank(S, m) < Rank(S, k)
    BY RanksRise, <1>2
  <2>4. QED BY <2>1, <2>2, <2>3, <1>2
<1>4. First(S, n) = Under(S, m)
  BY <1>3 DEF First, Under
<1>5. QED BY <1>2, <1>4

LEMMA AllRanksAreTaken ==
  ASSUME NEW S \in SUBSET Nat, IsFiniteSet(S), NEW d \in S, NEW n \in Nat, n <= Rank(S, d)
  PROVE  Cardinality(First(S, n)) = n
<1> DEFINE T == {i \in Nat : i <= Rank(S, d) /\ Cardinality(First(S, i)) # i}
<1>1. SUFFICES ASSUME T # {} PROVE FALSE
  BY RankIsNat
<1>2. PICK i \in T : \A j \in T : i <= j
  <2>1. T \in SUBSET Nat
    OBVIOUS
  <2>2. QED BY <1>1, <2>1, Least
<1>3. Rank(S, d) \in Nat
  BY RankIsNat
<1>4. i # 0
  <2>1. First(S, 0) = {}
    BY RankIsNat DEF First
  <2>2. QED BY <2>1, FS_EmptySet
<1>5. i - 1 \in Nat /\ i - 1 < i /\ i - 1 <= Rank(S, d) /\ i <= Rank(S, d)
  BY <1>2, <1>3, <1>4
<1>6. Cardinality(First(S, i - 1)) = i - 1
  BY <1>2, <1>5
<1>7. PICK m \in S : Rank(S, m) >= i - 1 /\ First(S, i - 1) = Under(S, m)
  BY <1>5, FirstsUnder
<1>8. Rank(S, m) = i - 1
  BY <1>6, <1>7 DEF Rank
<1>9. First(S, i) = First(S, i - 1) \union {m}
  <2>1. ASSUME NEW k \in S PROVE Rank(S, k) < i <=> (Rank(S, k) < i - 1 \/ k = m)
    <3>1. Rank(S, k) \in Nat /\ k \in Nat /\ m \in Nat
      BY RankIsNat
    <3>2. k < m => Rank(S, k) < Rank(S, m)
      BY RanksRise
    <3>3. m < k => Rank(S, m) < Rank(S, k)
      BY RanksRise
    <3>4. CASE k = m
      BY <3>4, <1>8, <1>5
    <3>5. CASE k < m
      BY <3>5, <3>1, <3>2, <1>8, <1>5
    <3>6. CASE m < k
      BY <3>6, <3>1, <3>3, <1>8, <1>5
    <3>7. QED BY <3>1, <3>4, <3>5, <3>6
  <2>2. QED BY <2>1 DEF First
<1>10. m \notin First(S, i - 1) /\ IsFiniteSet(First(S, i - 1))
  <2>1. m \notin First(S, i - 1)
    BY <1>7, <1>8 DEF First
  <2>2. QED BY <2>1, FS_Subset DEF First
<1>11. Cardinality(First(S, i)) = i
  BY <1>5, <1>6, <1>9, <1>10, FS_AddElement
<1>12. QED BY <1>2, <1>11

\* A page that an entry lies behind is full.
LEMMA PagesBeforeAreFull ==
  ASSUME PageSize \in Nat \ {0}, NEW S \in SUBSET Nat, IsFiniteSet(S), NEW offset \in Nat,
         NEW d \in S, Rank(S, d) >= offset + PageSize
  PROVE  Cardinality({k \in S : Rank(S, k) \in offset .. offset + PageSize - 1}) = PageSize
<1>1. PageSize \in Nat /\ PageSize > 0
  OBVIOUS
<1>2. offset \in Nat /\ offset + PageSize \in Nat /\ offset <= Rank(S, d) /\ offset + PageSize <= Rank(S, d)
  BY <1>1, RankIsNat
<1>3. Cardinality(First(S, offset)) = offset /\ Cardinality(First(S, offset + PageSize)) = offset + PageSize
  BY <1>1, <1>2, AllRanksAreTaken
<1>4. IsFiniteSet(First(S, offset)) /\ IsFiniteSet(First(S, offset + PageSize))
  BY FS_Subset DEF First
<1>5. \A k \in S : Rank(S, k) \in Nat
  BY <1>1, RankIsNat
<1> DEFINE InPage(k) == Rank(S, k) \in offset .. offset + PageSize - 1
<1>6. \A k \in S : /\ Rank(S, k) < offset => Rank(S, k) < offset + PageSize
                   /\ InPage(k) <=> Rank(S, k) < offset + PageSize /\ ~(Rank(S, k) < offset)
  BY <1>1, <1>2, <1>5
<1> HIDE DEF InPage
<1>7. /\ First(S, offset) \subseteq First(S, offset + PageSize)
      /\ {k \in S : InPage(k)} = First(S, offset + PageSize) \ First(S, offset)
  BY <1>6 DEF First
<1>8. Cardinality(First(S, offset + PageSize) \ First(S, offset))
        = Cardinality(First(S, offset + PageSize)) - Cardinality(First(S, offset + PageSize) \intersect First(S, offset))
  BY <1>4, FS_Difference
<1>9. First(S, offset + PageSize) \intersect First(S, offset) = First(S, offset)
  BY <1>7
<1>10. PICK all, before : /\ all = Cardinality(First(S, offset + PageSize)) /\ before = Cardinality(First(S, offset))
                          /\ Cardinality(First(S, offset + PageSize) \ First(S, offset)) = all - before
  BY <1>8, <1>9, Zenon
<1>11. all = offset + PageSize /\ before = offset
  BY <1>3, <1>10, Zenon
<1>12. all - before = PageSize
  BY <1>1, <1>2, <1>11
<1>13. Cardinality({k \in S : InPage(k)}) = PageSize
  BY <1>7, <1>10, <1>12, Zenon
<1>14. QED BY <1>13 DEF InPage

\* Entries that come in put the others further behind.
LEMMA RanksStayBehind ==
  ASSUME NEW S \in SUBSET Nat, NEW T \in SUBSET Nat, S \subseteq T, IsFiniteSet(T), NEW k
  PROVE  Rank(S, k) <= Rank(T, k) /\ Rank(S, k) \in Nat /\ Rank(T, k) \in Nat
<1>1. Under(S, k) \subseteq Under(T, k) /\ IsFiniteSet(Under(T, k))
  BY FS_Subset DEF Under
<1>2. QED BY <1>1, FS_Subset, FS_CardinalityType DEF Rank

------------------------------------------------------------------------------
(* Recipient updates, which have a specification of their own              *)

CONSTANTS Registered, UpdateSets, Paged, Place
VARIABLES updating, log, messages, throws

Updates == INSTANCE RecipientUpdates WITH
  task <- updating, arrivals <- messages, faults <- throws

Registry == [DIDs -> DIDs \union {NONE}]

UpdateTask ==
  [type : {"update"}, from : DIDs, since : Nat \ {0}, todo : SUBSET Updates!Update,
   done : SUBSET (Updates!Update \X Updates!Results)]
QueryTask ==
  {t \in [type : {"query"}, from : DIDs, since : Nat \ {0}, todo : SUBSET DIDs, done : SUBSET DIDs,
          offset : Nat] : Paged => t.todo \in {{}, DIDs}}

\* The log ends in what is registered, and no message arrived after its end.
LogIsKept ==
  /\ log \in Seq(Registry) /\ log # <<>> /\ log[Len(log)] = recipientDids
  /\ \A w \in Workers : updating[w] # Updates!Idle => updating[w].since <= Len(log)

UpdatesTyped ==
  /\ ManagerTypeOK
  /\ updating \in [Workers -> {Updates!Idle} \union UpdateTask \union QueryTask]
  /\ messages \in 0 .. MaxArrivals /\ throws \in 0 .. MaxFaults

\* A DID that a query is still going to come to: its row has not moved into a
\* page that was read.
RowsBefore(registry, d) == {e \in DIDs : registry[e] # NONE /\ Place[e] < Place[d]}
Ahead(todo, offset, registry, d) ==
  IF Paged THEN todo # {} /\ Cardinality(RowsBefore(registry, d)) >= offset ELSE d \in todo

\* What a query may leave out.
Missed(t, d) ==
  \/ \E i \in t.since .. Len(log) : log[i][d] # t.from
  \/ Paged /\ \E e \in DIDs : Place[e] < Place[d] /\ Updates!Removed(t, e)

\* What is reported of a message, and what is still to be read for it.
IsTrue(t) ==
  /\ t.type = "update" => \A r \in t.done :
      /\ r[1].action = "add" /\ r[2] = "success" => Updates!Held(t, r[1].recipient, t.from)
      /\ r[1].action = "remove" /\ r[2] = "success" => Updates!Removed(t, r[1].recipient)
      /\ r[2] = "no_change" => Updates!Held(t, r[1].recipient, NONE)
  /\ t.type = "query" =>
      /\ \A d \in t.done : Updates!Held(t, d, t.from)
      /\ \A d \in DIDs \ t.done : Missed(t, d) \/ Ahead(t.todo, t.offset, recipientDids, d)

UpdatesInv ==
  /\ UpdatesTyped
  /\ LogIsKept
  /\ \A w \in Workers : updating[w] # Updates!Idle => IsTrue(updating[w])

LEMMA RowsAreFinite ==
  ASSUME Updates!UpdatesAssumption, NEW registry, NEW d
  PROVE  IsFiniteSet(RowsBefore(registry, d)) /\ Cardinality(RowsBefore(registry, d)) \in Nat
<1>1. IsFiniteSet(DIDs)
  BY DEF Updates!UpdatesAssumption, Updates!IsFiniteSet, IsFiniteSet
<1>2. IsFiniteSet(RowsBefore(registry, d))
  BY <1>1, FS_Subset DEF RowsBefore
<1>3. QED BY <1>2, FS_CardinalityType

\* A registry that changes keeps what was true, and removes what it passes over.
LEMMA TrueStays ==
  ASSUME Updates!UpdatesAssumption, log \in Seq(Registry), Len(log) \in Nat \ {0}, log[Len(log)] = recipientDids,
         recipientDids' \in Registry, UNCHANGED <<recipientDids, log>> \/ log' = Append(log, recipientDids'),
         NEW t \in UpdateTask \union QueryTask, t.since <= Len(log), IsTrue(t)
  PROVE  IsTrue(t)'
<1>1. t.since \in Nat \ {0}
  BY DEF UpdateTask, QueryTask
<1>0. Len(log') \in Nat /\ Len(log) <= Len(log') /\ \A i \in 1 .. Len(log) : log'[i] = log[i]
  OBVIOUS
<1>2. ASSUME NEW d, NEW by, Updates!Held(t, d, by) PROVE Updates!Held(t, d, by)'
  BY <1>0, <1>1, <1>2 DEF Updates!Held
<1>3. ASSUME NEW d, Updates!Removed(t, d) PROVE Updates!Removed(t, d)'
  <2>1. PICK i \in t.since + 1 .. Len(log) : log[i - 1][d] # NONE /\ log[i][d] = NONE
    BY <1>3 DEF Updates!Removed
  <2>2. /\ i \in t.since + 1 .. Len(log') /\ i \in 1 .. Len(log) /\ i - 1 \in 1 .. Len(log)
    BY <1>0, <1>1
  <2>3. QED BY <1>0, <2>1, <2>2 DEF Updates!Removed
<1>4. ASSUME NEW d, NEW i \in t.since .. Len(log), log[i][d] # t.from
      PROVE  \E j \in t.since .. Len(log') : log'[j][d] # t.from
  BY <1>0, <1>1, <1>4
<1>5. ASSUME t.type = "update", NEW r \in t.done
      PROVE  /\ r[1].action = "add" /\ r[2] = "success" => Updates!Held(t, r[1].recipient, t.from)'
             /\ r[1].action = "remove" /\ r[2] = "success" => Updates!Removed(t, r[1].recipient)'
             /\ r[2] = "no_change" => Updates!Held(t, r[1].recipient, NONE)'
  BY <1>2, <1>3, <1>5 DEF IsTrue
<1>6. ASSUME t.type = "query", NEW d \in DIDs \ t.done
      PROVE  Missed(t, d)' \/ Ahead(t.todo, t.offset, recipientDids', d)
  <2>1. CASE Missed(t, d)
    BY <1>3, <1>4, <2>1 DEF Missed
  <2>2. CASE Ahead(t.todo, t.offset, recipientDids, d) /\ (UNCHANGED recipientDids \/ ~Paged)
    BY <2>2 DEF Ahead
  <2>3. CASE Ahead(t.todo, t.offset, recipientDids, d) /\ log' = Append(log, recipientDids') /\ Paged
    <3>1. CASE \E e \in DIDs : Place[e] < Place[d] /\ recipientDids[e] # NONE /\ recipientDids'[e] = NONE
      <4>1. PICK e \in DIDs : Place[e] < Place[d] /\ recipientDids[e] # NONE /\ recipientDids'[e] = NONE
        BY <3>1
      <4>2. (Len(log) + 1) - 1 = Len(log) /\ Len(log) + 1 \in t.since + 1 .. Len(log')
        BY <1>1, <2>3
      <4>3. log'[Len(log)] = recipientDids /\ log'[Len(log) + 1] = recipientDids'
        BY <1>0, <2>3
      <4>4. Updates!Removed(t, e)'
        BY <4>1, <4>2, <4>3 DEF Updates!Removed
      <4>5. QED BY <2>3, <4>1, <4>4 DEF Missed
    <3>2. CASE ~\E e \in DIDs : Place[e] < Place[d] /\ recipientDids[e] # NONE /\ recipientDids'[e] = NONE
      <4>1. RowsBefore(recipientDids, d) \subseteq RowsBefore(recipientDids', d)
        BY <3>2 DEF RowsBefore
      <4>2. PICK before, now : /\ before = Cardinality(RowsBefore(recipientDids, d)) /\ before \in Nat
                               /\ now = Cardinality(RowsBefore(recipientDids', d)) /\ now \in Nat
        BY RowsAreFinite
      <4>3. before <= now
        BY <4>1, <4>2, RowsAreFinite, FS_Subset
      <4>4. t.offset \in Nat /\ t.todo # {} /\ before >= t.offset
        BY <1>6, <2>3, <4>2 DEF Ahead, UpdateTask, QueryTask
      <4>5. now >= t.offset
        BY <4>2, <4>3, <4>4
      <4>6. QED BY <2>3, <4>2, <4>4, <4>5 DEF Ahead
    <3>3. QED BY <3>1, <3>2
  <2>4. QED BY <1>6, <2>1, <2>2, <2>3 DEF IsTrue
<1>7. ASSUME t.type = "query", NEW d \in t.done PROVE Updates!Held(t, d, t.from)'
  BY <1>2, <1>7 DEF IsTrue
<1>8. QED BY <1>5, <1>6, <1>7 DEF IsTrue

\* A worker gets on with a message of which what is reported is true.
LEMMA ReportsStay ==
  ASSUME Updates!UpdatesAssumption, UpdatesInv, NEW w \in Workers, NEW t \in {Updates!Idle} \union UpdateTask \union QueryTask,
         updating' = [updating EXCEPT ![w] = t],
         t # Updates!Idle => t.since <= Len(log) /\ IsTrue(t)',
         ManagerTypeOK', messages' \in 0 .. MaxArrivals, throws' \in 0 .. MaxFaults,
         \/ UNCHANGED <<recipientDids, log>>
         \/ log' = Append(log, recipientDids')
  PROVE  UpdatesInv'
<1>1. log \in Seq(Registry) /\ Len(log) \in Nat \ {0} /\ recipientDids' \in Registry
  BY DEF UpdatesInv, LogIsKept, ManagerTypeOK, Registry
<1>2. /\ log' \in Seq(Registry) /\ log' # <<>> /\ Len(log') \in Nat /\ Len(log) <= Len(log')
      /\ \A i \in 1 .. Len(log) : log'[i] = log[i]
      /\ log'[Len(log')] = recipientDids'
  <2>1. CASE UNCHANGED <<recipientDids, log>>
    BY <1>1, <2>1 DEF UpdatesInv, LogIsKept
  <2>2. CASE log' = Append(log, recipientDids')
    BY <1>1, <2>2
  <2>3. QED BY <2>1, <2>2
<1>3. UpdatesTyped'
  BY DEF UpdatesInv, UpdatesTyped
<1>4. ASSUME NEW v \in Workers, updating'[v] # Updates!Idle
      PROVE  \E u : u = updating'[v] /\ u.since <= Len(log') /\ IsTrue(u)'
  <2>1. CASE v = w
    <3>1. updating'[v] = t /\ t # Updates!Idle
      BY <1>4, <2>1 DEF UpdatesInv, UpdatesTyped
    <3>2. t.since \in Nat
      BY <3>1 DEF UpdateTask, QueryTask
    <3>3. t.since <= Len(log')
      BY <1>1, <1>2, <3>1, <3>2
    <3>4. QED BY <3>1, <3>3
  <2>2. CASE v # w
    <3>1. PICK u \in UpdateTask \union QueryTask : u = updating[v] /\ updating'[v] = u
      BY <1>4, <2>2 DEF UpdatesInv, UpdatesTyped
    <3>2. u.since \in Nat /\ u.since <= Len(log) /\ u = updating[v]
      BY <1>4, <3>1 DEF UpdatesInv, LogIsKept, UpdateTask, QueryTask
    <3>3. IsTrue(u)
      BY <1>4, <2>2, <3>1 DEF UpdatesInv, UpdatesTyped
    <3>4. IsTrue(u)'
      BY <1>1, <3>2, <3>3, TrueStays DEF UpdatesInv, LogIsKept
    <3>5. QED BY <1>1, <1>2, <3>1, <3>2, <3>4
  <2>3. QED BY <2>1, <2>2
<1>5. LogIsKept'
  BY <1>2, <1>4 DEF LogIsKept
<1>6. \A v \in Workers : updating'[v] # Updates!Idle => IsTrue(updating[v])'
  <2>1. SUFFICES ASSUME NEW v \in Workers, updating'[v] # Updates!Idle PROVE IsTrue(updating[v])'
    OBVIOUS
  <2>2. PICK u : u = updating'[v] /\ IsTrue(u)'
    BY <1>4, <2>1
  <2>3. QED BY <2>2 DEF IsTrue, Ahead, RowsBefore, Missed, Updates!Held, Updates!Removed
<1>7. QED BY <1>3, <1>5, <1>6 DEF UpdatesInv

LEMMA UpdatesInitInv ==
  ASSUME Updates!UpdatesAssumption, Updates!Init
  PROVE  UpdatesInv
<1>1. ManagerTypeOK
  BY DEF Updates!Init, Updates!UpdatesAssumption, ManagerTypeOK
<1>2. UpdatesTyped
  BY <1>1, BoundsAssumption DEF Updates!Init, UpdatesTyped, BoundsAssumption
<1>3. log = <<recipientDids>> /\ recipientDids \in Registry /\ \A w \in Workers : updating[w] = Updates!Idle
  BY <1>1 DEF Updates!Init, ManagerTypeOK, Registry
<1>4. LogIsKept
  BY <1>3 DEF LogIsKept
<1>5. QED BY <1>2, <1>3, <1>4 DEF UpdatesInv

LEMMA ArriveStep ==
  ASSUME Updates!UpdatesAssumption, UpdatesInv, NEW w \in Workers, NEW t \in UpdateTask \union QueryTask,
         Updates!Arrive(w, t), t.since = Len(log), t.done = {},
         t.type = "query" => t.todo = DIDs /\ t.offset = 0
  PROVE  UpdatesInv'
<1>1. /\ ManagerTypeOK' /\ throws' \in 0 .. MaxFaults /\ UNCHANGED <<recipientDids, log>>
      /\ updating' = [updating EXCEPT ![w] = t]
  BY DEF Updates!Arrive, Updates!managerVars, UpdatesInv, UpdatesTyped, ManagerTypeOK
<1>2. messages' \in 0 .. MaxArrivals
  BY BoundsAssumption DEF Updates!Arrive, UpdatesInv, UpdatesTyped, BoundsAssumption
<1>2a. ASSUME t.type = "query", NEW d \in DIDs PROVE Ahead(t.todo, t.offset, recipientDids', d)
  BY <1>2a, RowsAreFinite DEF Ahead
<1>3. Len(log) \in Nat /\ IsTrue(t)' /\ t.since <= Len(log)
  BY <1>1, <1>2a DEF UpdatesInv, LogIsKept, IsTrue
<1>4. QED BY <1>1, <1>2, <1>3, ReportsStay

\* What an update reports is so when it has taken effect.
LEMMA ApplyStep ==
  ASSUME Updates!UpdatesAssumption, UpdatesInv, NEW w \in Workers, NEW u \in Updates!Update,
         Updates!ApplyUpdate(w, u)
  PROVE  UpdatesInv'
<1>1. PICK t \in UpdateTask : t = updating[w] /\ u \in t.todo
  BY DEF Updates!ApplyUpdate, UpdatesInv, UpdatesTyped, Updates!Idle, QueryTask
<1>2. /\ log \in Seq(Registry) /\ Len(log) \in Nat \ {0} /\ log[Len(log)] = recipientDids
      /\ recipientDids \in Registry /\ t.since \in Nat \ {0} /\ t.since <= Len(log) /\ t.from \in DIDs
      /\ u.recipient \in DIDs
  BY <1>1 DEF UpdatesInv, UpdatesTyped, ManagerTypeOK, LogIsKept, Registry, UpdateTask, Updates!Idle, Updates!Update
<1>3. IsTrue(t)
  BY <1>1 DEF UpdatesInv, UpdateTask, QueryTask, Updates!Idle
<1>4. ASSUME NEW result \in Updates!Results, Updates!Finished(w, u, result)
      PROVE  \E s \in UpdateTask :
               /\ updating' = [updating EXCEPT ![w] = s] /\ s.since = t.since /\ s.from = t.from
               /\ s.done = t.done \union {<<u, result>>}
  <2>0. PICK done \in SUBSET (Updates!Update \X Updates!Results) : done = t.done \union {<<u, result>>}
    <3>1. t.done \subseteq Updates!Update \X Updates!Results
      BY DEF UpdateTask
    <3>2. <<u, result>> \in Updates!Update \X Updates!Results
      OBVIOUS
    <3>3. QED BY <3>1, <3>2
  <2>1. PICK s : s = [t EXCEPT !.todo = @ \ {u}, !.done = done]
    OBVIOUS
  <2>2. s \in UpdateTask /\ s.since = t.since /\ s.from = t.from /\ s.done = t.done \union {<<u, result>>}
    BY <2>0, <2>1 DEF UpdateTask
  <2>3. updating' = [updating EXCEPT ![w] = s]
    BY <1>1, <1>4, <2>0, <2>1 DEF Updates!Finished
  <2>4. QED BY <2>2, <2>3
<1>5. /\ UNCHANGED <<policies, mediations>> /\ messages' \in 0 .. MaxArrivals
      /\ throws' \in 0 .. MaxFaults
  BY BoundsAssumption DEF Updates!ApplyUpdate, UpdatesInv, UpdatesTyped, BoundsAssumption
<1>6. CASE /\ Updates!Apply(t.from, u)
           /\ log' = IF recipientDids' = recipientDids THEN log ELSE Append(log, recipientDids')
           /\ Updates!Finished(w, u, Updates!Result(u))
  <2>1. recipientDids' \in Registry
    BY <1>2, <1>6 DEF Updates!Apply, Updates!AddRecipientDid, Updates!RemoveRecipientDid, Registry, Updates!Update
  <2>2. /\ UNCHANGED <<recipientDids, log>> \/ log' = Append(log, recipientDids')
        /\ Len(log') \in Nat /\ Len(log) <= Len(log') /\ \A i \in 1 .. Len(log) : log'[i] = log[i]
        /\ log'[Len(log')] = recipientDids'
    BY <1>2, <1>6, <2>1
  <2>3. PICK result \in Updates!Results : result = Updates!Result(u)
    BY DEF Updates!Result, Updates!Results, Updates!Update
  <2>4. PICK s \in UpdateTask :
          /\ updating' = [updating EXCEPT ![w] = s] /\ s.since = t.since /\ s.from = t.from
          /\ s.done = t.done \union {<<u, result>>}
    BY <1>4, <1>6, <2>3
  <2>5. u.action = "add" /\ result = "success" => \E i \in t.since .. Len(log') : log'[i][u.recipient] = t.from
    <3>1. ASSUME u.action = "add" PROVE log'[Len(log')][u.recipient] = t.from
      BY <1>2, <1>6, <2>2, <3>1 DEF Updates!Apply, Updates!AddRecipientDid, Registry
    <3>2. Len(log') \in t.since .. Len(log')
      BY <1>2, <2>2
    <3>3. QED BY <3>1, <3>2
  <2>6. u.action = "remove" /\ result = "success" =>
          \E i \in t.since + 1 .. Len(log') : log'[i - 1][u.recipient] # NONE /\ log'[i][u.recipient] = NONE
    <3>1. ASSUME u.action = "remove", result = "success"
          PROVE  log[Len(log)][u.recipient] # NONE /\ recipientDids'[u.recipient] = NONE
      BY <1>2, <1>6, <2>3, <3>1 DEF Updates!Apply, Updates!RemoveRecipientDid, Updates!Result,
                                    Updates!IsMediationGranted, Registry
    <3>2. ASSUME u.action = "remove", result = "success"
          PROVE  /\ Len(log) + 1 \in t.since + 1 .. Len(log')
                 /\ log'[(Len(log) + 1) - 1][u.recipient] # NONE /\ log'[Len(log) + 1][u.recipient] = NONE
      <4>1. recipientDids' # recipientDids
        BY <1>2, <3>1, <3>2
      <4>2. log' = Append(log, recipientDids') /\ Len(log') = Len(log) + 1
        BY <1>2, <1>6, <2>1, <4>1
      <4>3. (Len(log) + 1) - 1 = Len(log) /\ Len(log) + 1 \in t.since + 1 .. Len(log')
        BY <1>2, <4>2
      <4>4. log'[Len(log)] = log[Len(log)] /\ log'[Len(log) + 1] = recipientDids'
        BY <1>2, <2>2, <4>2
      <4>5. QED BY <3>1, <3>2, <4>3, <4>4
    <3>3. QED BY <3>2
  <2>7. result = "no_change" => \E i \in t.since .. Len(log') : log'[i][u.recipient] = NONE
    <3>1. ASSUME result = "no_change" PROVE log'[Len(log)][u.recipient] = NONE
      <4>1. recipientDids[u.recipient] = NONE
        BY <2>3, <3>1 DEF Updates!Result, Updates!IsMediationGranted, Updates!Update
      <4>2. QED BY <1>2, <2>2, <4>1
    <3>2. Len(log) \in t.since .. Len(log')
      BY <1>2, <2>2
    <3>3. QED BY <3>1, <3>2
  <2>8. IsTrue(s)'
    <3>1. IsTrue(t)'
      BY <1>2, <1>3, <2>1, <2>2, TrueStays
    <3>2. s.type = "update" /\ t.type = "update"
      BY DEF UpdateTask
    <3>3. ASSUME NEW r \in s.done
          PROVE  /\ r[1].action = "add" /\ r[2] = "success" => Updates!Held(s, r[1].recipient, s.from)'
                 /\ r[1].action = "remove" /\ r[2] = "success" => Updates!Removed(s, r[1].recipient)'
                 /\ r[2] = "no_change" => Updates!Held(s, r[1].recipient, NONE)'
      <4>1. CASE r \in t.done
        BY <2>4, <3>1, <3>2, <4>1 DEF IsTrue, Updates!Held, Updates!Removed
      <4>2. CASE r = <<u, result>>
        BY <2>4, <2>5, <2>6, <2>7, <4>2 DEF Updates!Held, Updates!Removed
      <4>3. QED BY <2>4, <4>1, <4>2
    <3>4. QED BY <3>2, <3>3 DEF IsTrue
  <2>9. ManagerTypeOK'
    BY <1>5, <2>1 DEF UpdatesInv, UpdatesTyped, ManagerTypeOK, Registry
  <2>10. s # Updates!Idle => s.since <= Len(log) /\ IsTrue(s)'
    BY <1>2, <2>4, <2>8
  <2>11. QED BY <1>5, <2>2, <2>4, <2>9, <2>10, ReportsStay
<1>7. CASE Updates!Finished(w, u, "server_error") /\ UNCHANGED <<recipientDids, log>>
  <2>1. PICK result \in Updates!Results : result = "server_error"
    BY DEF Updates!Results
  <2>2. PICK s \in UpdateTask :
          /\ updating' = [updating EXCEPT ![w] = s] /\ s.since = t.since /\ s.from = t.from
          /\ s.done = t.done \union {<<u, result>>}
    BY <1>4, <1>7, <2>1
  <2>3. IsTrue(s)'
    <3>1. s.type = "update" /\ t.type = "update"
      BY DEF UpdateTask
    <3>2. QED BY <1>3, <1>7, <2>1, <2>2, <3>1 DEF IsTrue, Updates!Held, Updates!Removed
  <2>4. ManagerTypeOK'
    BY <1>5, <1>7 DEF UpdatesInv, UpdatesTyped, ManagerTypeOK
  <2>5. s # Updates!Idle => s.since <= Len(log) /\ IsTrue(s)'
    BY <1>2, <2>2, <2>3
  <2>6. UNCHANGED <<recipientDids, log>> \/ log' = Append(log, recipientDids')
    BY <1>7
  <2>7. QED BY <1>5, <2>2, <2>4, <2>5, <2>6, ReportsStay
<1>8. QED BY <1>1, <1>6, <1>7 DEF Updates!ApplyUpdate

\* A query that reads an entry, or a page, gets on with what it has found.
GetsOn(w, t, found, left, next) ==
  /\ t = updating[w] /\ UNCHANGED <<policies, mediations, recipientDids, log, messages, throws>>
  /\ found \subseteq DIDs /\ left \subseteq DIDs /\ next \in Nat /\ (Paged => left \in {{}, DIDs})
  /\ updating' = [updating EXCEPT ![w] = [type |-> "query", from |-> t.from, since |-> t.since,
                                          todo |-> left, done |-> t.done \union found, offset |-> next]]
  /\ \A d \in found : recipientDids[d] = t.from
  /\ \A d \in DIDs \ found :
       recipientDids[d] = t.from /\ Ahead(t.todo, t.offset, recipientDids, d) => Ahead(left, next, recipientDids, d)

LEMMA QueryStep ==
  ASSUME Updates!UpdatesAssumption, UpdatesInv, NEW w \in Workers, NEW t \in QueryTask,
         NEW found, NEW left, NEW next, GetsOn(w, t, found, left, next)
  PROVE  UpdatesInv'
<1> USE DEF GetsOn
<1>1. PICK s : s = [type |-> "query", from |-> t.from, since |-> t.since,
                    todo |-> left, done |-> t.done \union found, offset |-> next]
  OBVIOUS
<1>2. /\ s \in QueryTask /\ s.since = t.since /\ s.from = t.from /\ s.done = t.done \union found
      /\ s.todo = left /\ s.offset = next /\ s.type = "query"
  BY <1>1 DEF QueryTask
<1>3. t # Updates!Idle /\ t.type = "query" /\ t.since \in Nat \ {0}
  BY DEF QueryTask, Updates!Idle
<1>4. Len(log) \in Nat \ {0} /\ log[Len(log)] = recipientDids /\ t.since <= Len(log) /\ IsTrue(t)
  BY <1>3 DEF UpdatesInv, LogIsKept
<1>5. Len(log) \in t.since .. Len(log)
  BY <1>3, <1>4
<1>6. ASSUME NEW d \in s.done PROVE Updates!Held(s, d, s.from)'
  <2>1. CASE d \in t.done
    BY <1>2, <1>3, <1>4, <2>1 DEF IsTrue, Updates!Held
  <2>2. CASE d \in found
    BY <1>2, <1>4, <1>5, <2>2 DEF Updates!Held
  <2>3. QED BY <1>2, <1>6, <2>1, <2>2
<1>7. ASSUME NEW d \in DIDs \ s.done PROVE Missed(s, d)' \/ Ahead(s.todo, s.offset, recipientDids', d)
  <2>1. d \in DIDs \ t.done /\ d \notin found
    BY <1>2, <1>7
  <2>2. CASE Missed(t, d)
    BY <1>2, <2>2 DEF Missed, Updates!Removed
  <2>3. CASE recipientDids[d] # t.from
    BY <1>2, <1>4, <1>5, <2>3 DEF Missed
  <2>4. CASE Ahead(t.todo, t.offset, recipientDids, d) /\ recipientDids[d] = t.from
    <3>1. Ahead(left, next, recipientDids, d)
      BY <2>1, <2>4
    <3>2. QED BY <1>2, <3>1
  <2>5. QED BY <1>3, <1>4, <2>1, <2>2, <2>3, <2>4 DEF IsTrue
<1>8. IsTrue(s)'
  BY <1>2, <1>6, <1>7 DEF IsTrue
<1>9. updating' = [updating EXCEPT ![w] = s]
  BY <1>1
<1>10. ManagerTypeOK' /\ messages' \in 0 .. MaxArrivals /\ throws' \in 0 .. MaxFaults
  BY DEF UpdatesInv, UpdatesTyped, ManagerTypeOK
<1>11. QED BY <1>2, <1>4, <1>8, <1>9, <1>10, ReportsStay

LEMMA QueryTaskIs ==
  ASSUME NEW t \in QueryTask
  PROVE  /\ t = [type |-> "query", from |-> t.from, since |-> t.since, todo |-> t.todo,
                 done |-> t.done, offset |-> t.offset]
         /\ t.from \in DIDs /\ t.todo \subseteq DIDs /\ t.done \subseteq DIDs /\ t.offset \in Nat
         /\ Paged => t.todo \in {{}, DIDs}
  BY DEF QueryTask

\* What a read changes of the message that it is done for.
LEMMA GotOn ==
  ASSUME NEW t \in QueryTask, NEW left, NEW done, NEW next
  PROVE  /\ [t EXCEPT !.todo = left, !.done = done]
              = [type |-> "query", from |-> t.from, since |-> t.since, todo |-> left, done |-> done, offset |-> t.offset]
         /\ [t EXCEPT !.offset = next, !.done = done, !.todo = left]
              = [type |-> "query", from |-> t.from, since |-> t.since, todo |-> left, done |-> done, offset |-> next]
<1> DEFINE Q(todo, seen, offset) ==
      [type |-> "query", from |-> t.from, since |-> t.since, todo |-> todo, done |-> seen, offset |-> offset]
<1>1. t = Q(t.todo, t.done, t.offset)
  BY QueryTaskIs
<1>2. \A todo, seen, offset :
        /\ [Q(todo, seen, offset) EXCEPT !.todo = left] = Q(left, seen, offset)
        /\ [Q(todo, seen, offset) EXCEPT !.done = done] = Q(todo, done, offset)
        /\ [Q(todo, seen, offset) EXCEPT !.offset = next] = Q(todo, seen, next)
  OBVIOUS
<1> HIDE DEF Q
<1>3. [t EXCEPT !.todo = left, !.done = done] = Q(left, done, t.offset)
  <2>1. [t EXCEPT !.todo = left] = Q(left, t.done, t.offset)
    BY <1>1, <1>2
  <2>2. [Q(left, t.done, t.offset) EXCEPT !.done = done] = Q(left, done, t.offset)
    BY <1>2
  <2>3. QED BY <2>1, <2>2, Zenon
<1>4. [t EXCEPT !.offset = next, !.done = done, !.todo = left] = Q(left, done, next)
  <2>1. [t EXCEPT !.offset = next] = Q(t.todo, t.done, next)
    BY <1>1, <1>2
  <2>2. [Q(t.todo, t.done, next) EXCEPT !.done = done] = Q(t.todo, done, next)
    BY <1>2
  <2>3. [Q(t.todo, done, next) EXCEPT !.todo = left] = Q(left, done, next)
    BY <1>2
  <2>4. QED BY <2>1, <2>2, <2>3, Zenon
<1>5. QED BY <1>3, <1>4 DEF Q

\* An entry of a map is the requester's or not.
LEMMA ReadStep ==
  ASSUME Updates!UpdatesAssumption, UpdatesInv, NEW w \in Workers, NEW d \in DIDs, Updates!ReadRecipientDid(w, d)
  PROVE  UpdatesInv'
<1>1. PICK t \in QueryTask : t = updating[w]
  BY DEF Updates!ReadRecipientDid, UpdatesInv, UpdatesTyped, Updates!Idle, UpdateTask
<1>2. PICK found \in SUBSET DIDs : found = {e \in {d} : recipientDids[e] = t.from}
  OBVIOUS
<1>3. PICK left \in SUBSET DIDs : left = t.todo \ {d}
  BY DEF QueryTask
<1>4. UNCHANGED <<policies, mediations, recipientDids, log, messages, throws>> /\ ~Paged
  BY DEF Updates!ReadRecipientDid, Updates!managerVars
<1>5. PICK done : done = t.done \union found
  OBVIOUS
<1>6. updating' = [updating EXCEPT ![w] = [t EXCEPT !.todo = left, !.done = done]]
  <2>1. done = IF Updates!Listed(w, d) THEN t.done \union {d} ELSE t.done
    BY <1>1, <1>2, <1>5 DEF Updates!Listed, Updates!RegisteredBy
  <2>2. QED BY <1>1, <1>3, <2>1 DEF Updates!ReadRecipientDid
<1>7. [t EXCEPT !.todo = left, !.done = done]
        = [type |-> "query", from |-> t.from, since |-> t.since, todo |-> left, done |-> done, offset |-> t.offset]
  BY GotOn
<1>8. ASSUME NEW e \in DIDs \ found, recipientDids[e] = t.from, Ahead(t.todo, t.offset, recipientDids, e)
      PROVE  Ahead(left, t.offset, recipientDids, e)
  BY <1>2, <1>3, <1>4, <1>8 DEF Ahead
<1>9. \A e \in found : recipientDids[e] = t.from
  BY <1>2
<1>10. t.offset \in Nat
  BY QueryTaskIs
<1>11. updating' = [updating EXCEPT ![w] = [type |-> "query", from |-> t.from, since |-> t.since,
                                            todo |-> left, done |-> done, offset |-> t.offset]]
  BY <1>6, <1>7
<1>12. GetsOn(w, t, found, left, t.offset)
  BY <1>1, <1>4, <1>5, <1>8, <1>9, <1>10, <1>11 DEF GetsOn
<1>13. QED BY <1>12, QueryStep

\* Rows and the places they have are equally many.
LEMMA PlacesCount ==
  ASSUME Updates!UpdatesAssumption, NEW S \in SUBSET DIDs
  PROVE  /\ {Place[e] : e \in S} \subseteq Nat /\ IsFiniteSet({Place[e] : e \in S})
         /\ Cardinality({Place[e] : e \in S}) = Cardinality(S)
<1>1. IsFiniteSet(S)
  BY FS_Subset, ZenonT(40) DEF Updates!UpdatesAssumption, Updates!IsFiniteSet, IsFiniteSet
<1>2. Place \in [DIDs -> Nat] /\ \A d, e \in DIDs : Place[d] = Place[e] => d = e
  BY DEF Updates!UpdatesAssumption
<1>3. ExistsBijection(S, {Place[e] : e \in S})
  <2> DEFINE f == [e \in S |-> Place[e]]
  <2>1. f \in Bijection(S, {Place[e] : e \in S})
    BY <1>2 DEF Bijection, Injection, Surjection, IsInjective
  <2>2. QED BY <2>1 DEF ExistsBijection
<1>4. QED BY <1>1, <1>2, <1>3, FS_Bijection

LEMMA UpdatesCount ==
  \A S : Updates!Cardinality(S) = Cardinality(S)
BY DEF Updates!Cardinality, Cardinality

\* A page that a row lies behind is full.
LEMMA RowsBehindFullPages ==
  ASSUME Updates!UpdatesAssumption, NEW offset \in Nat, NEW d \in Updates!Stored,
         Cardinality(RowsBefore(recipientDids, d)) >= offset + PageSize
  PROVE  Updates!Cardinality(Updates!Page(offset)) = PageSize
<1>1. PICK stored \in SUBSET DIDs : stored = Updates!Stored /\ d \in stored
  BY DEF Updates!Stored
<1>2. PICK places : places = {Place[e] : e \in stored} /\ places \subseteq Nat /\ IsFiniteSet(places)
  BY PlacesCount
<1>3. Place \in [DIDs -> Nat] /\ (\A e, f \in DIDs : Place[e] = Place[f] => e = f) /\ PageSize \in Nat \ {0}
  BY DEF Updates!UpdatesAssumption
<1>4. ASSUME NEW e \in stored
      PROVE  /\ Rank(places, Place[e]) = Updates!Rank(e)
             /\ Rank(places, Place[e]) = Cardinality(RowsBefore(recipientDids, e))
  <2>1. PICK rows \in SUBSET DIDs : rows = {f \in stored : Place[f] < Place[e]}
    OBVIOUS
  <2>2. Under(places, Place[e]) = {Place[f] : f \in rows}
    BY <1>2, <2>1 DEF Under
  <2>3. Rank(places, Place[e]) = Cardinality(rows)
    BY <2>2, PlacesCount DEF Rank
  <2>4. rows = RowsBefore(recipientDids, e)
    BY <1>1, <2>1 DEF RowsBefore, Updates!Stored, Updates!IsMediationGranted
  <2>5. Updates!Rank(e) = Cardinality(rows)
    BY <1>1, <2>1, UpdatesCount DEF Updates!Rank
  <2>6. QED BY <2>3, <2>4, <2>5
<1>5. Place[d] \in places /\ Rank(places, Place[d]) >= offset + PageSize
  BY <1>1, <1>2, <1>4
<1>6. PICK page \in SUBSET DIDs : page = Updates!Page(offset)
  BY DEF Updates!Page, Updates!Stored
<1>7. {p \in places : Rank(places, p) \in offset .. offset + PageSize - 1} = {Place[e] : e \in page}
  <2>1. page = {e \in stored : Rank(places, Place[e]) \in offset .. offset + PageSize - 1}
    BY <1>1, <1>4, <1>6 DEF Updates!Page
  <2>2. QED BY <1>2, <2>1
<1>8. Cardinality({p \in places : Rank(places, p) \in offset .. offset + PageSize - 1}) = PageSize
  BY <1>2, <1>3, <1>5, PagesBeforeAreFull
<1>9. Cardinality(page) = PageSize
  BY <1>7, <1>8, PlacesCount
<1>10. QED BY <1>6, <1>9, UpdatesCount

\* A page holds the rows that it stands before; those behind it wait for the next.
LEMMA PageStep ==
  ASSUME Updates!UpdatesAssumption, UpdatesInv, NEW w \in Workers, Updates!ReadPage(w)
  PROVE  UpdatesInv'
<1>0. updating[w].type = "query" /\ updating[w].todo # {}
  BY DEF Updates!ReadPage
<1>1. PICK t \in QueryTask : t = updating[w] /\ t.todo # {}
  BY <1>0 DEF UpdatesInv, UpdatesTyped, Updates!Idle, UpdateTask
<1>2. t.from \in DIDs /\ t.todo = DIDs /\ t.offset \in Nat /\ Paged /\ PageSize \in Nat
  BY <1>1, QueryTaskIs DEF Updates!ReadPage, Updates!UpdatesAssumption
<1>3. PICK found \in SUBSET DIDs : found = {d \in Updates!Page(t.offset) : recipientDids[d] = t.from}
  BY DEF Updates!Page, Updates!Stored
<1>4. PICK left \in SUBSET DIDs :
        left = IF Updates!Cardinality(Updates!Page(t.offset)) = PageSize THEN t.todo ELSE {}
  BY <1>2
<1>5. UNCHANGED <<policies, mediations, recipientDids, log, messages, throws>>
  BY DEF Updates!ReadPage, Updates!managerVars
<1>5a. PICK done : done = t.done \union found
  OBVIOUS
<1>5b. PICK next \in Nat : next = t.offset + PageSize
  BY <1>2
<1>6. done = t.done \union found /\ next = t.offset + PageSize /\ next \in Nat
  BY <1>5a, <1>5b
<1>7. updating' = [updating EXCEPT ![w] = [t EXCEPT !.offset = next, !.done = done, !.todo = left]]
  <2>1. done = t.done \union {d \in Updates!Page(t.offset) : Updates!Listed(w, d)}
    BY <1>1, <1>3, <1>6 DEF Updates!Listed, Updates!RegisteredBy
  <2>2. QED BY <1>1, <1>4, <1>6, <2>1 DEF Updates!ReadPage
<1>8. [t EXCEPT !.offset = next, !.done = done, !.todo = left]
        = [type |-> "query", from |-> t.from, since |-> t.since, todo |-> left, done |-> done, offset |-> next]
  <2>1. PICK s : s = [t EXCEPT !.offset = next, !.done = done, !.todo = left]
    OBVIOUS
  <2>2. s = [type |-> "query", from |-> t.from, since |-> t.since, todo |-> left, done |-> done, offset |-> next]
    BY <2>1, GotOn
  <2>3. QED BY <2>1, <2>2, Zenon
<1>9. ASSUME NEW d \in DIDs \ found, recipientDids[d] = t.from, Ahead(t.todo, t.offset, recipientDids, d)
      PROVE  Ahead(left, next, recipientDids, d)
  <2>1. PICK rank \in Nat : rank = Cardinality(RowsBefore(recipientDids, d)) /\ rank >= t.offset
    BY <1>2, <1>9, RowsAreFinite DEF Ahead
  <2>2. d \in Updates!Stored
    BY <1>2, <1>9, NoneAssumption DEF Updates!Stored, Updates!IsMediationGranted, NoneAssumption
  <2>3. Updates!Rank(d) = rank
    BY <2>1, UpdatesCount DEF Updates!Rank, RowsBefore, Updates!Stored, Updates!IsMediationGranted
  <2>4. d \notin Updates!Page(t.offset)
    BY <1>3, <1>9
  <2>5. rank >= next
    BY <1>2, <1>6, <2>1, <2>2, <2>3, <2>4 DEF Updates!Page
  <2>6. Updates!Cardinality(Updates!Page(t.offset)) = PageSize
    BY <1>2, <1>6, <2>1, <2>2, <2>5, RowsBehindFullPages
  <2>7. QED BY <1>1, <1>2, <1>4, <2>1, <2>5, <2>6 DEF Ahead
<1>11. left \in {{}, DIDs} /\ \A d \in found : recipientDids[d] = t.from
  BY <1>2, <1>3, <1>4
<1>12. updating' = [updating EXCEPT ![w] = [type |-> "query", from |-> t.from, since |-> t.since,
                                            todo |-> left, done |-> done, offset |-> next]]
  BY <1>7, <1>8
<1>13. Paged => left \in {{}, DIDs}
  BY <1>11
<1>14. GetsOn(w, t, found, left, next)
  BY <1>1, <1>5, <1>6, <1>9, <1>11, <1>12, <1>13 DEF GetsOn
<1>15. QED BY <1>14, QueryStep

LEMMA ThrowStep ==
  ASSUME Updates!UpdatesAssumption, UpdatesInv, NEW w \in Workers, Updates!ReadThrows(w)
  PROVE  UpdatesInv'
<1>1. PICK t \in {Updates!Idle} : t = Updates!Idle /\ updating' = [updating EXCEPT ![w] = t]
  BY DEF Updates!ReadThrows
<1>2. ManagerTypeOK' /\ messages' \in 0 .. MaxArrivals /\ UNCHANGED <<recipientDids, log>>
  BY DEF Updates!ReadThrows, Updates!managerVars, UpdatesInv, UpdatesTyped, ManagerTypeOK
<1>3. throws' \in 0 .. MaxFaults
  BY BoundsAssumption DEF Updates!ReadThrows, UpdatesInv, UpdatesTyped, BoundsAssumption
<1>4. t \in {Updates!Idle} \union UpdateTask \union QueryTask
      /\ (t # Updates!Idle => t.since <= Len(log) /\ IsTrue(t)')
  BY <1>1
<1>5. QED BY <1>1, <1>2, <1>3, <1>4, ReportsStay

LEMMA EndsStep ==
  ASSUME Updates!UpdatesAssumption, UpdatesInv, NEW w \in Workers, NEW type, Updates!Ends(w, type)
  PROVE  UpdatesInv'
<1>1. PICK t \in {Updates!Idle} : t = Updates!Idle /\ updating' = [updating EXCEPT ![w] = t]
  BY DEF Updates!Ends
<1>2. /\ ManagerTypeOK' /\ messages' \in 0 .. MaxArrivals /\ throws' \in 0 .. MaxFaults
      /\ UNCHANGED <<recipientDids, log>>
  BY DEF Updates!Ends, Updates!managerVars, UpdatesInv, UpdatesTyped, ManagerTypeOK
<1>3. t \in {Updates!Idle} \union UpdateTask \union QueryTask
      /\ (t # Updates!Idle => t.since <= Len(log) /\ IsTrue(t)')
  BY <1>1
<1>4. QED BY <1>1, <1>2, <1>3, ReportsStay

LEMMA UpdatesStep ==
  ASSUME Updates!UpdatesAssumption, UpdatesInv, [Updates!Next]_(Updates!vars)
  PROVE  UpdatesInv'
<1>1. Len(log) \in Nat \ {0}
  BY DEF UpdatesInv, LogIsKept
<1>2. ASSUME NEW w \in Workers, NEW from \in DIDs, NEW updates \in UpdateSets,
             Updates!ReceiveRecipientUpdate(w, from, updates)
      PROVE  UpdatesInv'
  <2>1. PICK t : t = Updates!Updating(from, updates)
    OBVIOUS
  <2>2. updates \subseteq Updates!Update
    BY DEF Updates!UpdatesAssumption, Updates!Update
  <2>3. t \in UpdateTask /\ t.since = Len(log) /\ t.done = {} /\ t.type = "update"
    BY <1>1, <2>1, <2>2 DEF Updates!Updating, UpdateTask
  <2>4. Updates!Arrive(w, t)
    BY <1>2, <2>1 DEF Updates!ReceiveRecipientUpdate
  <2>5. t \in UpdateTask \union QueryTask /\ (t.type = "query" => t.todo = DIDs /\ t.offset = 0)
    BY <2>3
  <2>6. QED BY <2>3, <2>4, <2>5, ArriveStep
<1>3. ASSUME NEW w \in Workers, NEW from \in DIDs, Updates!ReceiveRecipientQuery(w, from)
      PROVE  UpdatesInv'
  <2>1. PICK t : t = Updates!Querying(from)
    OBVIOUS
  <2>2. t \in QueryTask /\ t.since = Len(log) /\ t.done = {} /\ t.todo = DIDs /\ t.offset = 0
    BY <1>1, <2>1 DEF Updates!Querying, QueryTask
  <2>3. Updates!Arrive(w, t)
    BY <1>3, <2>1 DEF Updates!ReceiveRecipientQuery
  <2>4. t \in UpdateTask \union QueryTask /\ (t.type = "query" => t.todo = DIDs /\ t.offset = 0)
    BY <2>2
  <2>5. QED BY <2>2, <2>3, <2>4, ArriveStep
<1>4. ASSUME NEW w \in Workers, Updates!Handle(w)
      PROVE  UpdatesInv'
  <2>1. CASE \E u \in Updates!Update : Updates!ApplyUpdate(w, u)
    BY <2>1, ApplyStep
  <2>2. CASE \E d \in DIDs : Updates!ReadRecipientDid(w, d)
    BY <2>2, ReadStep
  <2>3. CASE \E type : Updates!Ends(w, type)
    BY <2>3, EndsStep
  <2>4. CASE Updates!ReadPage(w) \/ Updates!ReadThrows(w)
    BY <2>4, PageStep, ThrowStep
  <2>5. QED BY <1>4, <2>1, <2>2, <2>3, <2>4
             DEF Updates!Handle, Updates!RespondToUpdate, Updates!RespondToQuery
<1>5. CASE UNCHANGED Updates!vars
  BY <1>5 DEF Updates!vars, Updates!managerVars, UpdatesInv, UpdatesTyped, ManagerTypeOK, LogIsKept,
              IsTrue, Missed, Ahead, Updates!Held, Updates!Removed
<1>6. QED BY <1>2, <1>3, <1>4, <1>5 DEF Updates!Next

LEMMA UpdatesInvariance ==
  ASSUME Updates!UpdatesAssumption
  PROVE  Updates!Spec => []UpdatesInv
<1>1. Updates!Init => UpdatesInv
  BY UpdatesInitInv
<1>2. UpdatesInv /\ [Updates!Next]_(Updates!vars) => UpdatesInv'
  BY UpdatesStep
<1>3. QED BY <1>1, <1>2, PTL DEF Updates!Spec

(***************************************************************************)
(* What the mediator holds of messages that it handles stays of its type,  *)
(* and the log ends in what is registered.                                 *)
(***************************************************************************)
THEOREM UpdatesTypeCorrect ==
  ASSUME Updates!UpdatesAssumption
  PROVE  Updates!Spec => []Updates!TypeOK
<1>1. ASSUME UpdatesInv PROVE Updates!TypeOK
  <2>1. Updates!ManagerTypeOK
    BY <1>1 DEF UpdatesInv, UpdatesTyped, ManagerTypeOK, Updates!ManagerTypeOK, Policies, Responses,
                Updates!Policies, Updates!Responses
  <2>2. ASSUME NEW w \in Workers, updating[w] # Updates!Idle
        PROVE  LET t == updating[w] IN
               /\ t.from \in DIDs /\ t.since \in 1 .. Len(log)
               /\ \/ t.type = "update" /\ t.todo \subseteq Updates!Update
                     /\ t.done \subseteq Updates!Update \X Updates!Results
                  \/ t.type = "query" /\ t.todo \union t.done \subseteq DIDs /\ t.offset \in Nat
    <3>1. PICK t \in UpdateTask \union QueryTask : t = updating[w]
      BY <1>1, <2>2 DEF UpdatesInv, UpdatesTyped
    <3>2. t.since \in Nat \ {0} /\ t.since <= Len(log) /\ Len(log) \in Nat /\ t.from \in DIDs
      BY <1>1, <2>2, <3>1 DEF UpdatesInv, LogIsKept, UpdateTask, QueryTask
    <3>3. \/ t.type = "update" /\ t.todo \subseteq Updates!Update /\ t.done \subseteq Updates!Update \X Updates!Results
          \/ t.type = "query" /\ t.todo \union t.done \subseteq DIDs /\ t.offset \in Nat
      BY DEF UpdateTask, QueryTask
    <3>4. QED BY <3>1, <3>2, <3>3
  <2>3. QED BY <1>1, <2>1, <2>2 DEF UpdatesInv, UpdatesTyped, LogIsKept, Updates!TypeOK
<1>2. QED BY <1>1, UpdatesInvariance, PTL

(***************************************************************************)
(* What the mediator reports of an update or a query was so at some time   *)
(* while it handled the message, however many messages of whomever change  *)
(* the same DIDs meanwhile and whatever the store throws, with a map and   *)
(* with a database of any page size and order of rows.  A query of a       *)
(* database leaves out no DID of the requester's but one whose row moved   *)
(* into a page already read, when one before it was removed.               *)
(***************************************************************************)
THEOREM TrueReports ==
  ASSUME Updates!UpdatesAssumption
  PROVE  Updates!Spec => []Updates!ReportsAreTrue
<1>1. ASSUME UpdatesInv PROVE Updates!ReportsAreTrue
  <2>1. ASSUME NEW w \in Workers, updating[w] # Updates!Idle
        PROVE  \E t \in UpdateTask \union QueryTask : t = updating[w] /\ IsTrue(t)
    BY <1>1, <2>1 DEF UpdatesInv, UpdatesTyped
  <2>2. ASSUME NEW t \in UpdateTask \union QueryTask, IsTrue(t), t.type = "query",
               NEW d \in DIDs \ (t.todo \union t.done)
        PROVE  Missed(t, d)
    <3>1. t \in QueryTask
      BY <2>2 DEF UpdateTask
    <3>2. ~Ahead(t.todo, t.offset, recipientDids, d)
      BY <3>1, QueryTaskIs DEF Ahead
    <3>3. QED BY <2>2, <3>2 DEF IsTrue
  <2>3. ASSUME NEW w \in Workers PROVE updating[w] = Updates!Idle => updating[w].type \notin {"update", "query"}
    BY DEF Updates!Idle
  <2>4. QED BY <2>1, <2>2, <2>3 DEF Updates!ReportsAreTrue, IsTrue, Missed
<1>2. QED BY <1>1, UpdatesInvariance, PTL

------------------------------------------------------------------------------
(* The key-value stores that hold what a mediator registers: for callers   *)
(* that take turns on a key, both tiers hold what was acknowledged.        *)

Uses == [op : {"idle", "set", "read", "get", "getMany", "delete", "iterate", "done"},
         keys : SUBSET EntryKeys, offset : Nat, due : SUBSET EntryKeys, seen : SUBSET EntryKeys]

\* An operation on its way belongs to the one call that awaits it, and what
\* its landing will acknowledge is what the local tier has; a purge that nobody
\* awaits may take away only what may be gone.
Fits(o, calls, tier, mays) ==
  IF o.by = Nobody
  THEN o.do = "delete" /\ \A k \in o.keys : Kv!NoEntry \in mays[k]
  ELSE /\ o.keys = calls[o.by].keys
       /\ o.do = "set" => calls[o.by].op = "set" /\ \A k \in o.keys : tier[k] = o.entry
       /\ o.do = "delete" => calls[o.by].op = "delete" /\ \A k \in o.keys : tier[k] = Kv!NoEntry
       /\ o.do \in {"read", "reply"} => calls[o.by].op \in {"read", "get", "getMany"} /\ \E k : o.keys = {k}
       /\ o.do = "reply" => \A k \in o.keys : o.entry \in mays[k]

FlightFits ==
  \A o \in flight : Fits(o, uses, near, may) /\ (o.by # Nobody => \A p \in flight : p.by = o.by => p = o)

TurnsAreTaken ==
  /\ \A c, d \in KvCallers : c # d => uses[c].keys \intersect uses[d].keys = {}
  /\ \A c \in KvCallers : uses[c].op = "iterate" => uses[c].keys = {}

TiersHold == \A k \in EntryKeys : remote[k] \in may[k] /\ near[k] \in may[k] \union {Kv!NoEntry}

KvInv ==
  /\ Kv!TypeOK /\ uses \in [KvCallers -> Uses]
  /\ FlightFits /\ TurnsAreTaken /\ TiersHold

\* The conditions of the theorem.
TakingTurns == Kv!KvAssumption /\ KvTurns

LEMMA KvInit ==
  ASSUME TakingTurns, Kv!Init
  PROVE  KvInv
<1>1. uses \in [KvCallers -> Uses]
  BY DEF Kv!Init, Kv!Idle, Uses
<1>2. Kv!TypeOK
  BY DEF TakingTurns, Kv!KvAssumption, Kv!Init, Kv!Idle, Kv!TypeOK
<1>3. QED
  BY <1>1, <1>2 DEF Kv!Init, Kv!Idle, KvInv, FlightFits, TurnsAreTaken, TiersHold

\* A caller has its turn on some keys; the others and their operations stay.
OwnTurn(c, K) ==
  /\ uses' \in [KvCallers -> Uses]
  /\ uses'[c].keys \subseteq K /\ (uses'[c].op = "iterate" => uses'[c].keys = {})
OthersStay(c, K) ==
  /\ \A d \in KvCallers \ {c} : /\ uses[d].keys \intersect K = {}
                              /\ uses'[d].keys = uses[d].keys /\ uses'[d].op = uses[d].op
  /\ \A k \in EntryKeys \ K : near'[k] = near[k] /\ may'[k] = may[k] /\ remote'[k] = remote[k]
KeysHold(K) ==
  \A k \in K : /\ remote'[k] \in may'[k] /\ near'[k] \in may'[k] \union {Kv!NoEntry}
               /\ Kv!BeingPurged(k) => Kv!NoEntry \in may'[k]
OperationsFit(c) ==
  \A o \in flight' : \/ o \in flight /\ o.by # c
                     \/ /\ o.by \in {c, Nobody} /\ Fits(o, uses', near', may')
                        /\ \A p \in flight' : o.by = c /\ p.by = c => p = o

Turn(c, K) == OwnTurn(c, K) /\ OthersStay(c, K) /\ KeysHold(K) /\ OperationsFit(c)

LEMMA TurnStep ==
  ASSUME TakingTurns, KvInv, Kv!TypeOK', NEW c \in KvCallers, NEW K \in SUBSET EntryKeys, Turn(c, K)
  PROVE  KvInv'
<1>1. TiersHold'
  <2>1. ASSUME NEW k \in EntryKeys PROVE remote'[k] \in may'[k] /\ near'[k] \in may'[k] \union {Kv!NoEntry}
    <3>1. CASE k \in K
      BY <3>1 DEF Turn, KeysHold
    <3>2. CASE k \notin K
      BY <3>2 DEF Turn, OthersStay, KvInv, TiersHold
    <3>3. QED BY <3>1, <3>2
  <2>2. QED BY <2>1 DEF TiersHold
<1>2. TurnsAreTaken'
  <2>1. ASSUME NEW d \in KvCallers, NEW e \in KvCallers, d # e PROVE uses'[d].keys \intersect uses'[e].keys = {}
    <3>1. CASE d # c /\ e # c
      BY <2>1, <3>1 DEF KvInv, TurnsAreTaken, Turn, OthersStay
    <3>2. CASE d = c
      BY <2>1, <3>2 DEF Turn, OwnTurn, OthersStay
    <3>3. CASE e = c
      BY <2>1, <3>3 DEF Turn, OwnTurn, OthersStay
    <3>4. QED BY <3>1, <3>2, <3>3
  <2>2. ASSUME NEW d \in KvCallers, uses'[d].op = "iterate" PROVE uses'[d].keys = {}
    BY <2>2 DEF KvInv, TurnsAreTaken, Turn, OwnTurn, OthersStay
  <2>3. QED BY <2>1, <2>2 DEF TurnsAreTaken
<1>3. ASSUME NEW o \in flight, o.by # c PROVE Fits(o, uses', near', may')
  <2>1. Fits(o, uses, near, may) /\ o.by \in KvCallers \union {Nobody} /\ o.keys \subseteq EntryKeys
    BY DEF KvInv, FlightFits, Kv!TypeOK, Kv!Operation
  <2>2. CASE o.by = Nobody
    <3>1. o.do = "delete" /\ \A k \in o.keys : Kv!NoEntry \in may[k] /\ Kv!BeingPurged(k)
      BY <2>1, <2>2 DEF Fits, Kv!BeingPurged
    <3>2. ASSUME NEW k \in o.keys PROVE Kv!NoEntry \in may'[k]
      <4>1. CASE k \in K
        BY <3>1, <4>1 DEF Turn, KeysHold
      <4>2. CASE k \notin K
        BY <2>1, <3>1, <4>2 DEF Turn, OthersStay
      <4>3. QED BY <4>1, <4>2
    <3>3. QED BY <2>2, <3>1, <3>2 DEF Fits
  <2>3. CASE o.by # Nobody
    <3>1. /\ o.by \in KvCallers \ {c} /\ o.keys = uses[o.by].keys /\ o.keys \subseteq EntryKeys \ K
          /\ uses'[o.by].keys = uses[o.by].keys /\ uses'[o.by].op = uses[o.by].op
      BY <1>3, <2>1, <2>3 DEF Fits, Turn, OthersStay
    <3>2. \A k \in o.keys : near'[k] = near[k] /\ may'[k] = may[k]
      BY <3>1 DEF Turn, OthersStay
    <3>3. QED BY <2>1, <2>3, <3>1, <3>2 DEF Fits
  <2>4. QED BY <2>2, <2>3
<1>4. FlightFits'
  <2>1. ASSUME NEW o \in flight' PROVE Fits(o, uses', near', may')
    BY <1>3 DEF Turn, OperationsFit
  <2>2. ASSUME NEW o \in flight', NEW p \in flight', o.by # Nobody, p.by = o.by PROVE p = o
    <3>1. CASE o.by = c
      BY <2>2, <3>1 DEF Turn, OperationsFit
    <3>2. CASE o.by # c
      BY <2>2, <3>2 DEF KvInv, FlightFits, Turn, OperationsFit
    <3>3. QED BY <3>1, <3>2
  <2>3. QED BY <2>1, <2>2 DEF FlightFits
<1>5. QED BY <1>1, <1>2, <1>4 DEF KvInv, Turn, OwnTurn

\* Whoever is free has no operation on its way.
LEMMA FreeTurn ==
  ASSUME TakingTurns, KvInv, NEW c \in KvCallers, NEW K \in SUBSET EntryKeys, Kv!Free(c, K)
  PROVE  /\ uses[c] = Kv!Idle /\ \A d \in KvCallers \ {c} : uses[d].keys \intersect K = {}
         /\ \A o \in flight : o.by # c
<1>1. uses[c] = Kv!Idle
  BY DEF Kv!Free
<1>2. ASSUME NEW o \in flight PROVE o.by # c
  <2>1. Fits(o, uses, near, may) /\ o.do \in {"set", "delete", "read", "reply"}
    BY DEF KvInv, FlightFits, Kv!TypeOK, Kv!Operation
  <2>2. c # Nobody /\ uses[c].op = "idle"
    BY <1>1 DEF TakingTurns, Kv!KvAssumption, Kv!Idle
  <2>3. QED BY <2>1, <2>2 DEF Fits
<1>3. \A d \in KvCallers : uses[d].keys \intersect K = {}
  BY DEF Kv!Free, TakingTurns, KvInv, TurnsAreTaken
<1>4. QED BY <1>1, <1>2, <1>3

LEMMA OnUse ==
  ASSUME NEW op \in {"set", "read", "get", "getMany", "delete"}, NEW K \in SUBSET EntryKeys
  PROVE  /\ Kv!On(op, K) \in Uses /\ Kv!On(op, K).op = op /\ Kv!On(op, K).keys = K
         /\ Kv!Idle \in Uses /\ Kv!Idle.op = "idle" /\ Kv!Idle.keys = {}
BY DEF Kv!On, Kv!Idle, Uses

LEMMA SetStep ==
  ASSUME TakingTurns, KvInv, NEW c \in KvCallers, NEW k \in EntryKeys, NEW ttl \in Ttls, Kv!Set(c, k, ttl)
  PROVE  KvInv'
<1>a. PICK e : e = [id |-> sets + 1, expires |-> Kv!Expires(ttl)]
  OBVIOUS
<1>b. PICK o : o = Kv!Operate("set", {k}, e, c)
  OBVIOUS
<1>1. /\ Kv!Free(c, {k}) /\ sets' = sets + 1 /\ sets < MaxSets
      /\ near' = [near EXCEPT ![k] = e] /\ flight' = flight \union {o}
      /\ uses' = [uses EXCEPT ![c] = Kv!On("set", {k})] /\ may' = [may EXCEPT ![k] = @ \union {e}]
      /\ UNCHANGED <<remote, kvNow, failures>>
  BY <1>a, <1>b DEF Kv!Set
<1>2. uses[c] = Kv!Idle /\ (\A d \in KvCallers \ {c} : uses[d].keys \intersect {k} = {}) /\ \A q \in flight : q.by # c
  BY <1>1, FreeTurn
<1>3. e \in Kv!Entry
  BY <1>a, <1>1 DEF TakingTurns, Kv!KvAssumption, Kv!Entry, Kv!Expires, KvInv, Kv!TypeOK
<1>4. o \in Kv!Operation /\ o.do = "set" /\ o.keys = {k} /\ o.entry = e /\ o.by = c /\ c # Nobody
  BY <1>b, <1>3 DEF Kv!Operate, Kv!Operation, TakingTurns, Kv!KvAssumption
<1>5. /\ uses' \in [KvCallers -> Uses] /\ uses'[c].op = "set" /\ uses'[c].keys = {k}
      /\ \A d \in KvCallers \ {c} : uses'[d] = uses[d]
  BY <1>1, OnUse DEF KvInv
<1>6. Kv!TypeOK'
  <2>1. \A d \in KvCallers : uses'[d] \in Uses
    BY <1>5
  <2>2. /\ near' \in [EntryKeys -> Kv!Entry \union {Kv!NoEntry}]
        /\ may' \in [EntryKeys -> SUBSET (Kv!Entry \union {Kv!NoEntry})]
    BY <1>1, <1>3 DEF KvInv, Kv!TypeOK
  <2>3. sets' \in 0 .. MaxSets
    BY <1>1 DEF TakingTurns, Kv!KvAssumption, KvInv, Kv!TypeOK
  <2>4. QED BY <1>1, <1>4, <2>1, <2>2, <2>3 DEF KvInv, Kv!TypeOK, Uses
<1>7. near'[k] = e /\ may'[k] = may[k] \union {e} /\ \A j \in EntryKeys \ {k} : near'[j] = near[j] /\ may'[j] = may[j]
  BY <1>1 DEF KvInv, Kv!TypeOK
<1>8. remote'[k] \in may'[k] /\ (Kv!BeingPurged(k) => Kv!NoEntry \in may'[k])
  BY <1>1, <1>7 DEF KvInv, TiersHold, FlightFits, Fits, Kv!BeingPurged
<1>9. Fits(o, uses', near', may')
  BY <1>4, <1>5, <1>7 DEF Fits
<1>10. ASSUME NEW q \in flight'
       PROVE  \/ q \in flight /\ q.by # c
              \/ /\ q.by \in {c, Nobody} /\ Fits(q, uses', near', may')
                 /\ \A p \in flight' : q.by = c /\ p.by = c => p = q
  BY <1>1, <1>2, <1>4, <1>9
<1>11. \A d \in KvCallers \ {c} : /\ uses[d].keys \intersect {k} = {}
                               /\ uses'[d].keys = uses[d].keys /\ uses'[d].op = uses[d].op
  BY <1>2, <1>5
<1>12. \A j \in EntryKeys \ {k} : near'[j] = near[j] /\ may'[j] = may[j] /\ remote'[j] = remote[j]
  BY <1>1, <1>7
<1>13. OwnTurn(c, {k})
  BY <1>5 DEF OwnTurn
<1>14. OthersStay(c, {k}) /\ KeysHold({k}) /\ OperationsFit(c)
  BY <1>7, <1>8, <1>10, <1>11, <1>12 DEF OthersStay, KeysHold, OperationsFit
<1>15. QED BY <1>6, <1>13, <1>14, TurnStep DEF Turn

LEMMA DeleteStep ==
  ASSUME TakingTurns, KvInv, NEW c \in KvCallers, NEW K \in SUBSET EntryKeys, Kv!Delete(c, K)
  PROVE  KvInv'
<1>a. PICK o : o = Kv!Operate("delete", K, Kv!NoEntry, c)
  OBVIOUS
<1>1. /\ Kv!Free(c, K)
      /\ near' = Kv!Without(near, K)
      /\ \/ UNCHANGED <<flight, uses>>
         \/ /\ flight' = flight \union {o}
            /\ uses' = [uses EXCEPT ![c] = Kv!On("delete", K)]
      /\ may' = [k \in EntryKeys |-> may[k] \union (IF k \in K THEN {Kv!NoEntry} ELSE {})]
      /\ UNCHANGED <<remote, kvNow, sets, failures>>
  BY <1>a DEF Kv!Delete
<1>2. uses[c] = Kv!Idle /\ (\A d \in KvCallers \ {c} : uses[d].keys \intersect K = {}) /\ \A q \in flight : q.by # c
  BY <1>1, FreeTurn
<1>3. o \in Kv!Operation /\ o.do = "delete" /\ o.keys = K /\ o.by = c /\ c # Nobody
      /\ o.entry = Kv!NoEntry
  BY <1>a DEF Kv!Operate, Kv!Operation, TakingTurns, Kv!KvAssumption
<1>4. /\ uses' \in [KvCallers -> Uses]
      /\ UNCHANGED <<flight, uses>> \/ (uses'[c].op = "delete" /\ uses'[c].keys = K)
      /\ uses'[c].keys \subseteq K /\ uses'[c].op # "iterate"
      /\ \A d \in KvCallers \ {c} : uses'[d] = uses[d]
  <2>1. CASE UNCHANGED <<flight, uses>>
    BY <1>2, <2>1, OnUse DEF KvInv
  <2>2. CASE uses' = [uses EXCEPT ![c] = Kv!On("delete", K)]
    BY <2>2, OnUse DEF KvInv
  <2>3. QED BY <1>1, <2>1, <2>2
<1>5. \A k \in EntryKeys : /\ near'[k] = IF k \in K THEN Kv!NoEntry ELSE near[k]
                      /\ may'[k] = may[k] \union (IF k \in K THEN {Kv!NoEntry} ELSE {})
  BY <1>1 DEF Kv!Without
<1>6. Kv!TypeOK'
  <2>1. \A d \in KvCallers : uses'[d] \in Uses
    BY <1>4
  <2>2. /\ near' \in [EntryKeys -> Kv!Entry \union {Kv!NoEntry}]
        /\ may' \in [EntryKeys -> SUBSET (Kv!Entry \union {Kv!NoEntry})]
    BY <1>1, <1>5 DEF KvInv, Kv!TypeOK, Kv!Without
  <2>3. QED BY <1>1, <1>3, <2>1, <2>2 DEF KvInv, Kv!TypeOK, Uses
<1>7. \A k \in K : remote'[k] \in may'[k] /\ near'[k] \in may'[k] \union {Kv!NoEntry} /\ Kv!NoEntry \in may'[k]
  BY <1>1, <1>5 DEF KvInv, TiersHold
<1>8. \A d \in KvCallers \ {c} : /\ uses[d].keys \intersect K = {}
                                /\ uses'[d].keys = uses[d].keys /\ uses'[d].op = uses[d].op
  BY <1>2, <1>4
<1>9. \A k \in EntryKeys \ K : near'[k] = near[k] /\ may'[k] = may[k] /\ remote'[k] = remote[k]
  BY <1>1, <1>5
<1>10. ASSUME NEW q \in flight'
       PROVE  \/ q \in flight /\ q.by # c
              \/ /\ q.by \in {c, Nobody} /\ Fits(q, uses', near', may')
                 /\ \A p \in flight' : q.by = c /\ p.by = c => p = q
  <2>1. CASE q \in flight
    BY <1>2, <2>1
  <2>2. CASE q \notin flight
    <3>1. q = o /\ uses' = [uses EXCEPT ![c] = Kv!On("delete", K)] /\ flight' = flight \union {o}
      BY <1>1, <2>2
    <3>2. uses'[c].op = "delete" /\ uses'[c].keys = K
      BY <3>1, OnUse DEF KvInv
    <3>3. Fits(o, uses', near', may')
      BY <1>3, <1>5, <3>2 DEF Fits
    <3>4. \A p \in flight' : p.by = c => p = o
      BY <1>2, <3>1
    <3>5. QED BY <1>3, <3>1, <3>3, <3>4
  <2>3. QED BY <2>1, <2>2
<1>11. \A k \in K : Kv!BeingPurged(k) => Kv!NoEntry \in may'[k]
  BY <1>7
<1>12. OwnTurn(c, K) /\ OthersStay(c, K)
  BY <1>4, <1>8, <1>9 DEF OwnTurn, OthersStay
<1>13. KeysHold(K)
  BY <1>7, <1>11 DEF KeysHold
<1>14. OperationsFit(c)
  BY <1>10 DEF OperationsFit
<1>15. QED BY <1>6, <1>12, <1>13, <1>14, TurnStep DEF Turn

\* A purge on its way may take the entry of its key away.
LEMMA PurgesAreAllowed ==
  ASSUME KvInv, NEW k \in EntryKeys, Kv!BeingPurged(k)
  PROVE  Kv!NoEntry \in may[k]
BY DEF KvInv, FlightFits, Fits, Kv!BeingPurged

\* A caller goes on, its operation having ended, and nothing else changes.
Moves(c, K) ==
  /\ uses' \in [KvCallers -> Uses]
  /\ uses'[c].keys \subseteq K /\ (uses'[c].op = "iterate" => uses'[c].keys = {})
  /\ \A d \in KvCallers \ {c} : uses'[d] = uses[d] /\ uses[d].keys \intersect K = {}
  /\ \A q \in flight' : q \in flight /\ q.by # c
  /\ failures' \in 0 .. MaxKvFaults
  /\ UNCHANGED <<near, remote, kvNow, sets, may>>

LEMMA GoesOn ==
  ASSUME TakingTurns, KvInv, NEW c \in KvCallers, NEW K \in SUBSET EntryKeys, Moves(c, K)
  PROVE  KvInv'
<1>1. Kv!TypeOK'
  <2>1. \A d \in KvCallers : uses'[d] \in Uses
    BY DEF Moves
  <2>2. flight' \subseteq Kv!Operation
    BY DEF KvInv, Kv!TypeOK, Moves
  <2>3. QED BY <2>1, <2>2 DEF KvInv, Kv!TypeOK, Uses, Moves
<1>2. OwnTurn(c, K)
  BY DEF Moves, OwnTurn
<1>3. OthersStay(c, K)
  BY DEF Moves, OthersStay
<1>4. KeysHold(K)
  BY PurgesAreAllowed DEF KvInv, TiersHold, Moves, KeysHold
<1>5. OperationsFit(c)
  BY DEF Moves, OperationsFit
<1>6. QED BY <1>1, <1>2, <1>3, <1>4, <1>5, TurnStep DEF Turn

LEMMA GetStep ==
  ASSUME TakingTurns, KvInv, NEW c \in KvCallers, NEW k \in EntryKeys, NEW op \in {"get", "getMany"}, Kv!Get(c, k, op)
  PROVE  KvInv'
<1>1. Kv!Free(c, {k}) /\ uses' = [uses EXCEPT ![c] = Kv!On(op, {k})]
      /\ UNCHANGED <<near, remote, flight, kvNow, sets, failures, may>>
  BY DEF Kv!Get
<1>2. (\A d \in KvCallers \ {c} : uses[d].keys \intersect {k} = {}) /\ \A q \in flight : q.by # c
  BY <1>1, FreeTurn
<1>3. /\ uses' \in [KvCallers -> Uses] /\ uses'[c].op = op /\ uses'[c].keys = {k}
      /\ \A d \in KvCallers \ {c} : uses'[d] = uses[d]
  <2>1. PICK use \in Uses : use = Kv!On(op, {k}) /\ use.op = op /\ use.keys = {k}
    BY OnUse
  <2>2. uses' = [uses EXCEPT ![c] = use]
    BY <1>1, <2>1
  <2>3. QED BY <2>1, <2>2 DEF KvInv
<1>4. failures' \in 0 .. MaxKvFaults
  BY <1>1 DEF KvInv, Kv!TypeOK
<1>5. Moves(c, {k})
  BY <1>1, <1>2, <1>3, <1>4 DEF Moves
<1>6. QED BY <1>5, GoesOn

\* A caller that awaits no operation has none on its way.
LEMMA NoneOnItsWay ==
  ASSUME TakingTurns, KvInv, NEW c \in KvCallers, uses[c].op \in {"idle", "iterate", "done"}
  PROVE  /\ \A q \in flight : q.by # c
         /\ \A d \in KvCallers \ {c} : uses[d].keys \intersect uses[c].keys = {}
         /\ uses[c] \in Uses /\ uses[c].keys \in SUBSET EntryKeys
<1>1. ASSUME NEW o \in flight PROVE o.by # c
  <2>1. Fits(o, uses, near, may) /\ o.do \in {"set", "delete", "read", "reply"}
    BY DEF KvInv, FlightFits, Kv!TypeOK, Kv!Operation
  <2>2. c # Nobody
    BY DEF TakingTurns, Kv!KvAssumption
  <2>3. QED BY <2>1, <2>2 DEF Fits
<1>2. QED BY <1>1 DEF KvInv, TurnsAreTaken, Uses

LEMMA IterationStep ==
  ASSUME TakingTurns, KvInv, NEW c \in KvCallers, Kv!Iterate(c) \/ Kv!NextPage(c) \/ Kv!Iterated(c)
  PROVE  KvInv'
<1>1. uses[c].op \in {"idle", "iterate", "done"}
  BY DEF Kv!Iterate, Kv!NextPage, Kv!Iterated, Kv!Idle
<1>2. UNCHANGED <<near, remote, flight, kvNow, sets, failures, may>> /\ failures' \in 0 .. MaxKvFaults
  BY DEF Kv!Iterate, Kv!NextPage, Kv!Iterated, Kv!AfterPage, KvInv, Kv!TypeOK
<1>3. /\ uses' \in [KvCallers -> Uses] /\ uses'[c].keys = {}
      /\ \A d \in KvCallers \ {c} : uses'[d] = uses[d]
  <2>1. CASE Kv!Iterate(c)
    <3> DEFINE next == [Kv!Idle EXCEPT !.op = "iterate", !.due = Kv!Stored]
    <3>1. next \in Uses /\ next.keys = {}
      BY DEF Uses, Kv!Idle, Kv!Stored
    <3>2. uses' = [uses EXCEPT ![c] = next]
      BY <2>1 DEF Kv!Iterate
    <3> HIDE DEF next
    <3>3. QED BY <3>1, <3>2 DEF KvInv
  <2>2. CASE Kv!NextPage(c)
    <3>1. PICK page \in SUBSET EntryKeys : page = Kv!Page(uses[c].offset)
      BY DEF Kv!Page, Kv!Stored
    <3>2. PICK op \in {"iterate", "done"} :
            uses' = [uses EXCEPT ![c].seen = @ \union page, ![c].offset = @ + PageSize, ![c].op = op]
      BY <2>2, <3>1 DEF Kv!NextPage
    <3>3. uses[c] \in Uses /\ uses[c].keys = {} /\ PageSize \in Nat
      BY <2>2 DEF KvInv, TurnsAreTaken, Kv!NextPage, TakingTurns, Kv!KvAssumption
    <3> DEFINE next == [uses[c] EXCEPT !.seen = @ \union page, !.offset = @ + PageSize, !.op = op]
    <3>4. next \in Uses /\ next.keys = {}
      <4>1. PICK seen \in SUBSET EntryKeys, offset \in Nat : seen = uses[c].seen \union page /\ offset = uses[c].offset + PageSize
        <5>1. uses[c].seen \union page \in SUBSET EntryKeys /\ uses[c].offset + PageSize \in Nat
          BY <3>3 DEF Uses
        <5>2. QED BY <5>1
      <4>2. next = [uses[c] EXCEPT !.seen = seen, !.offset = offset, !.op = op]
        BY <4>1
      <4>3. [uses[c] EXCEPT !.seen = seen, !.offset = offset, !.op = op] \in Uses
        BY <3>3 DEF Uses
      <4>4. [uses[c] EXCEPT !.seen = seen, !.offset = offset, !.op = op].keys = {}
        BY <3>3 DEF Uses
      <4>5. QED BY <4>2, <4>3, <4>4
    <3>5. uses' = [uses EXCEPT ![c] = next]
      BY <3>2 DEF KvInv
    <3> HIDE DEF next
    <3>6. QED BY <3>4, <3>5 DEF KvInv
  <2>3. CASE Kv!Iterated(c)
    BY <2>3, OnUse DEF Kv!Iterated, KvInv
  <2>4. QED BY <2>1, <2>2, <2>3
<1>4. /\ \A q \in flight : q.by # c
      /\ \A d \in KvCallers \ {c} : uses[d].keys \intersect uses[c].keys = {}
      /\ uses[c].keys \in SUBSET EntryKeys
  BY <1>1, NoneOnItsWay
<1>5. Moves(c, uses[c].keys)
  BY <1>2, <1>3, <1>4 DEF Moves
<1>6. QED BY <1>4, <1>5, GoesOn

\* An operation that somebody awaits is that caller's only one.
LEMMA OwnOperation ==
  ASSUME TakingTurns, KvInv, NEW o \in flight, o.by # Nobody
  PROVE  /\ o.by \in KvCallers /\ uses[o.by] \in Uses /\ uses[o.by].keys = o.keys /\ o.keys \in SUBSET EntryKeys
         /\ \A d \in KvCallers \ {o.by} : uses[d].keys \intersect o.keys = {}
         /\ \A q \in flight : q.by = o.by => q = o
         /\ o \in Kv!Operation /\ Fits(o, uses, near, may)
<1>1. o \in Kv!Operation /\ Fits(o, uses, near, may) /\ \A q \in flight : q.by = o.by => q = o
  BY DEF KvInv, FlightFits, Kv!TypeOK
<1>2. o.by \in KvCallers /\ o.keys \in SUBSET EntryKeys
  BY <1>1 DEF Kv!Operation
<1>3. uses[o.by] \in Uses /\ uses[o.by].keys = o.keys
  BY <1>1, <1>2 DEF KvInv, Fits
<1>4. QED
  BY <1>1, <1>2, <1>3 DEF KvInv, TurnsAreTaken

LEMMA FailsStep ==
  ASSUME TakingTurns, KvInv, NEW o \in flight, Kv!Fails(o)
  PROVE  KvInv'
<1>1. /\ flight' = flight \ {o} /\ UNCHANGED <<near, remote, kvNow, sets, may>>
      /\ failures' \in 0 .. MaxKvFaults
  BY DEF Kv!Fails, KvInv, Kv!TypeOK, TakingTurns, Kv!KvAssumption
<1>2. CASE o.by = Nobody
  <2>1. UNCHANGED uses
    BY <1>2 DEF Kv!Fails
  <2>2. Kv!TypeOK'
    BY <1>1, <2>1 DEF KvInv, Kv!TypeOK
  <2>3. FlightFits'
    BY <1>1, <2>1 DEF KvInv, FlightFits
  <2>4. QED BY <1>1, <2>1, <2>2, <2>3 DEF KvInv, TurnsAreTaken, TiersHold
<1>3. CASE o.by # Nobody
  <2>1. uses' = [uses EXCEPT ![o.by] = Kv!Idle]
    BY <1>3 DEF Kv!Fails
  <2>2. /\ o.by \in KvCallers /\ o.keys \in SUBSET EntryKeys
        /\ \A d \in KvCallers \ {o.by} : uses[d].keys \intersect o.keys = {}
        /\ \A q \in flight : q.by = o.by => q = o
    BY <1>3, OwnOperation
  <2>3. /\ uses' \in [KvCallers -> Uses] /\ uses'[o.by].keys = {} /\ uses'[o.by].op = "idle"
        /\ \A d \in KvCallers \ {o.by} : uses'[d] = uses[d]
    BY <2>1, <2>2, OnUse DEF KvInv
  <2>4. Moves(o.by, o.keys)
    BY <1>1, <2>2, <2>3 DEF Moves
  <2>5. QED BY <2>2, <2>4, GoesOn
<1>4. QED BY <1>2, <1>3

LEMMA LandSetStep ==
  ASSUME TakingTurns, KvInv, NEW o \in flight, Kv!LandSet(o)
  PROVE  KvInv'
<1>1. /\ o.do = "set" /\ flight' = flight \ {o} /\ UNCHANGED <<near, kvNow, sets, failures>>
      /\ uses' = [uses EXCEPT ![o.by] = Kv!On("read", o.keys)]
      /\ \A k \in EntryKeys : /\ remote'[k] = IF k \in o.keys THEN o.entry ELSE remote[k]
                         /\ may'[k] = IF k \notin o.keys THEN may[k]
                              ELSE {o.entry} \union (IF Kv!BeingPurged(k) THEN {Kv!NoEntry} ELSE {})
  BY DEF Kv!LandSet
<1>2. o.by # Nobody
  BY <1>1 DEF KvInv, FlightFits, Fits
<1>3. /\ o.by \in KvCallers /\ o.keys \in SUBSET EntryKeys
      /\ \A d \in KvCallers \ {o.by} : uses[d].keys \intersect o.keys = {}
      /\ \A q \in flight : q.by = o.by => q = o
      /\ o \in Kv!Operation /\ \A k \in o.keys : near[k] = o.entry
  BY <1>1, <1>2, OwnOperation DEF Fits
<1>4. /\ uses' \in [KvCallers -> Uses] /\ uses'[o.by].keys = o.keys /\ uses'[o.by].op = "read"
      /\ \A d \in KvCallers \ {o.by} : uses'[d] = uses[d]
  BY <1>1, <1>3, OnUse DEF KvInv
<1>5. Kv!TypeOK'
  <2>1. \A d \in KvCallers : uses'[d] \in Uses
    BY <1>4
  <2>2. o.entry \in Kv!Entry \union {Kv!NoEntry}
    BY <1>3 DEF Kv!Operation
  <2>3. remote' \in [EntryKeys -> Kv!Entry \union {Kv!NoEntry}]
    BY <2>2 DEF KvInv, Kv!TypeOK, Kv!LandSet
  <2>4. may' \in [EntryKeys -> SUBSET (Kv!Entry \union {Kv!NoEntry})]
    BY <2>2 DEF KvInv, Kv!TypeOK, Kv!LandSet
  <2>5. QED BY <1>1, <2>1, <2>3, <2>4 DEF KvInv, Kv!TypeOK, Uses
<1>6. OwnTurn(o.by, o.keys)
  BY <1>4 DEF OwnTurn
<1>7. OthersStay(o.by, o.keys)
  BY <1>1, <1>3, <1>4 DEF OthersStay
<1>8. KeysHold(o.keys)
  BY <1>1, <1>3 DEF KeysHold
<1>9. OperationsFit(o.by)
  BY <1>1, <1>3 DEF OperationsFit
<1>10. QED BY <1>3, <1>5, <1>6, <1>7, <1>8, <1>9, TurnStep DEF Turn

LEMMA LandDeleteStep ==
  ASSUME TakingTurns, KvInv, NEW o \in flight, Kv!LandDelete(o)
  PROVE  KvInv'
<1>1. /\ o.do = "delete" /\ flight' = flight \ {o} /\ UNCHANGED <<near, kvNow, sets, failures>>
      /\ uses' = [c \in KvCallers |-> IF c = o.by THEN Kv!Idle ELSE [uses[c] EXCEPT !.due = {}]]
      /\ \A k \in EntryKeys : /\ remote'[k] = IF k \in o.keys THEN Kv!NoEntry ELSE remote[k]
                         /\ may'[k] = IF o.by # Nobody /\ k \in o.keys THEN {Kv!NoEntry} ELSE may[k]
  BY DEF Kv!LandDelete, Kv!Without, KvInv, Kv!TypeOK
<1>2. \A c \in KvCallers : [uses[c] EXCEPT !.due = {}] \in Uses
  BY DEF KvInv, Uses
<1>3. uses' \in [KvCallers -> Uses]
  BY <1>1, <1>2, OnUse
<1>4. \A c \in KvCallers : c # o.by => uses'[c].keys = uses[c].keys /\ uses'[c].op = uses[c].op
  BY <1>1 DEF KvInv, Uses
<1>5. Kv!TypeOK'
  <2>1. \A d \in KvCallers : uses'[d] \in Uses
    BY <1>3
  <2>2. remote' \in [EntryKeys -> Kv!Entry \union {Kv!NoEntry}]
    BY DEF KvInv, Kv!TypeOK, Kv!LandDelete, Kv!Without
  <2>3. may' \in [EntryKeys -> SUBSET (Kv!Entry \union {Kv!NoEntry})]
    BY DEF KvInv, Kv!TypeOK, Kv!LandDelete
  <2>4. QED BY <1>1, <2>1, <2>2, <2>3 DEF KvInv, Kv!TypeOK, Uses
<1>6. CASE o.by # Nobody
  <2>1. /\ o.by \in KvCallers /\ o.keys \in SUBSET EntryKeys
        /\ \A d \in KvCallers \ {o.by} : uses[d].keys \intersect o.keys = {}
        /\ \A q \in flight : q.by = o.by => q = o
        /\ \A k \in o.keys : near[k] = Kv!NoEntry
    BY <1>1, <1>6, OwnOperation DEF Fits
  <2>2. OwnTurn(o.by, o.keys)
    BY <1>1, <1>3, <2>1, OnUse DEF OwnTurn
  <2>3. OthersStay(o.by, o.keys)
    BY <1>1, <1>4, <2>1 DEF OthersStay
  <2>4. KeysHold(o.keys)
    BY <1>1, <1>6, <2>1 DEF KeysHold
  <2>5. OperationsFit(o.by)
    BY <1>1, <2>1 DEF OperationsFit
  <2>6. QED BY <1>5, <2>1, <2>2, <2>3, <2>4, <2>5, TurnStep DEF Turn
<1>7. CASE o.by = Nobody
  <2>1. \A c \in KvCallers : uses'[c].keys = uses[c].keys /\ uses'[c].op = uses[c].op
    BY <1>4, <1>7 DEF TakingTurns, Kv!KvAssumption
  <2>2. \A k \in EntryKeys : may'[k] = may[k] /\ near'[k] = near[k]
    BY <1>1, <1>7
  <2>3. ASSUME NEW q \in flight' PROVE Fits(q, uses', near', may')
    <3>1. Fits(q, uses, near, may) /\ q.by \in KvCallers \union {Nobody} /\ q.keys \subseteq EntryKeys
      BY <1>1 DEF KvInv, FlightFits, Kv!TypeOK, Kv!Operation
    <3>2. \A k \in q.keys : may'[k] = may[k] /\ near'[k] = near[k]
      BY <2>2, <3>1
    <3>3. CASE q.by = Nobody
      BY <3>1, <3>2, <3>3 DEF Fits
    <3>4. CASE q.by # Nobody
      BY <2>1, <3>1, <3>2, <3>4 DEF Fits
    <3>5. QED BY <3>3, <3>4
  <2>4. FlightFits'
    BY <1>1, <2>3 DEF KvInv, FlightFits
  <2>5. \A k \in EntryKeys : k \in o.keys => Kv!NoEntry \in may[k]
    BY <1>7 DEF KvInv, FlightFits, Fits
  <2>6. TiersHold'
    BY <1>1, <2>2, <2>5 DEF KvInv, TiersHold
  <2>7. TurnsAreTaken'
    BY <2>1 DEF KvInv, TurnsAreTaken
  <2>8. QED BY <1>3, <1>5, <2>4, <2>6, <2>7 DEF KvInv
<1>8. QED BY <1>6, <1>7

\* What an operation becomes, as a record of its own.
LEMMA OperateIs ==
  ASSUME NEW do \in {"set", "delete", "read", "reply"}, NEW K \in SUBSET EntryKeys,
         NEW entry \in Kv!Entry \union {Kv!NoEntry}, NEW by \in KvCallers \union {Nobody}
  PROVE  LET o == Kv!Operate(do, K, entry, by) IN
         o \in Kv!Operation /\ o.do = do /\ o.keys = K /\ o.entry = entry /\ o.by = by
BY DEF Kv!Operate, Kv!Operation

LEMMA LandReadStep ==
  ASSUME TakingTurns, KvInv, NEW o \in flight, Kv!LandRead(o)
  PROVE  KvInv'
<1>1. PICK k \in o.keys : /\ o.do = "read"
                          /\ flight' = (flight \ {o}) \union {[o EXCEPT !.do = "reply", !.entry = remote[k]]}
                          /\ UNCHANGED <<near, remote, uses, kvNow, sets, failures, may>>
  BY DEF Kv!LandRead
<1>2. o.by # Nobody
  BY <1>1 DEF KvInv, FlightFits, Fits
<1>3. /\ o.by \in KvCallers /\ uses[o.by] \in Uses /\ uses[o.by].keys = o.keys /\ o.keys \in SUBSET EntryKeys
      /\ \A d \in KvCallers \ {o.by} : uses[d].keys \intersect o.keys = {}
      /\ \A q \in flight : q.by = o.by => q = o
      /\ o \in Kv!Operation /\ uses[o.by].op \in {"read", "get", "getMany"}
      /\ o.keys = {k}
  BY <1>1, <1>2, OwnOperation DEF Fits
<1>4. remote[k] \in Kv!Entry \union {Kv!NoEntry} /\ remote[k] \in may[k]
  BY <1>3 DEF KvInv, Kv!TypeOK, TiersHold
<1>5. PICK p \in Kv!Operation : /\ p = [o EXCEPT !.do = "reply", !.entry = remote[k]]
                                /\ p.do = "reply" /\ p.entry = remote[k] /\ p.keys = o.keys /\ p.by = o.by
  <2> DEFINE r == [o EXCEPT !.do = "reply", !.entry = remote[k]]
  <2>1. r \in Kv!Operation /\ r.do = "reply" /\ r.entry = remote[k] /\ r.keys = o.keys /\ r.by = o.by
    BY <1>3, <1>4 DEF Kv!Operation
  <2>2. QED BY <2>1
<1>6. Fits(p, uses', near', may')
  BY <1>1, <1>2, <1>3, <1>4, <1>5 DEF Fits
<1>7. flight' = (flight \ {o}) \union {p}
  BY <1>1, <1>5
<1>8. Kv!TypeOK'
  BY <1>1, <1>7 DEF KvInv, Kv!TypeOK
<1>9. OwnTurn(o.by, o.keys) /\ OthersStay(o.by, o.keys)
  BY <1>1, <1>3 DEF OwnTurn, OthersStay, KvInv
<1>10. KeysHold(o.keys)
  BY <1>1, <1>3, PurgesAreAllowed DEF KeysHold, KvInv, TiersHold
<1>11. OperationsFit(o.by)
  BY <1>3, <1>5, <1>6, <1>7 DEF OperationsFit
<1>12. QED BY <1>3, <1>8, <1>9, <1>10, <1>11, TurnStep DEF Turn

\* A read ends: with the entry in the local tier, or by deleting what has expired.
LEMMA FinishStep ==
  ASSUME TakingTurns, KvInv, NEW c \in KvCallers, NEW k \in EntryKeys, NEW e \in may[k], NEW done \in SUBSET flight,
         uses[c].op \in {"read", "get", "getMany"}, uses[c].keys = {k},
         \A q \in flight : q.by = c => q \in done,
         Kv!Finish(e, k, c, done), UNCHANGED <<remote, kvNow, sets, failures>>
  PROVE  KvInv'
<1> DEFINE by == IF uses[c].op = "getMany" THEN Nobody ELSE c
<1>1. e \in Kv!Entry \union {Kv!NoEntry} /\ by \in {c, Nobody} /\ by \in KvCallers \union {Nobody} /\ c # Nobody
  BY DEF KvInv, Kv!TypeOK, TakingTurns, Kv!KvAssumption
<1>2. PICK o : o = Kv!Operate("delete", {k}, Kv!NoEntry, by)
  OBVIOUS
<1>3. o \in Kv!Operation /\ o.do = "delete" /\ o.keys = {k} /\ o.entry = Kv!NoEntry /\ o.by = by
  BY <1>1, <1>2, OperateIs
<1>4. \/ /\ near' = [near EXCEPT ![k] = Kv!NoEntry] /\ may' = [may EXCEPT ![k] = @ \union {Kv!NoEntry}]
         /\ \/ flight' = flight \ done /\ uses' = [uses EXCEPT ![c] = Kv!Idle]
            \/ /\ flight' = (flight \ done) \union {o}
               /\ uses' = [uses EXCEPT ![c] = IF by = Nobody THEN Kv!Idle ELSE Kv!On("delete", {k})]
      \/ /\ near' = [near EXCEPT ![k] = e] /\ UNCHANGED may
         /\ flight' = flight \ done /\ uses' = [uses EXCEPT ![c] = Kv!Idle]
  BY <1>2 DEF Kv!Finish
<1>5. PICK use \in Uses : /\ uses' = [uses EXCEPT ![c] = use]
                          /\ use.keys \subseteq {k} /\ use.op # "iterate"
                          /\ \/ flight' = flight \ done
                             \/ /\ flight' = (flight \ done) \union {o}
                                /\ Kv!NoEntry \in may'[k] /\ near'[k] = Kv!NoEntry
                                /\ by # Nobody => use.op = "delete" /\ use.keys = {k}
  <2>1. CASE flight' = flight \ done /\ uses' = [uses EXCEPT ![c] = Kv!Idle]
    BY <2>1, OnUse
  <2>2. CASE /\ near' = [near EXCEPT ![k] = Kv!NoEntry] /\ may' = [may EXCEPT ![k] = @ \union {Kv!NoEntry}]
             /\ flight' = (flight \ done) \union {o}
             /\ uses' = [uses EXCEPT ![c] = IF by = Nobody THEN Kv!Idle ELSE Kv!On("delete", {k})]
    <3>1. Kv!NoEntry \in may'[k] /\ near'[k] = Kv!NoEntry
      BY <2>2 DEF KvInv, Kv!TypeOK
    <3>2. CASE by = Nobody
      BY <2>2, <3>1, <3>2, OnUse
    <3>3. CASE by # Nobody
      <4>1. PICK use \in Uses : use = Kv!On("delete", {k}) /\ use.op = "delete" /\ use.keys = {k}
        BY OnUse
      <4>2. uses' = [uses EXCEPT ![c] = use]
        BY <2>2, <3>3, <4>1
      <4>3. QED BY <2>2, <3>1, <4>1, <4>2
    <3>4. QED BY <3>2, <3>3
  <2>3. QED BY <1>4, <2>1, <2>2
<1>6. /\ \A j \in EntryKeys \ {k} : near'[j] = near[j] /\ may'[j] = may[j]
      /\ near'[k] \in may'[k] /\ may[k] \subseteq may'[k]
      /\ near' \in [EntryKeys -> Kv!Entry \union {Kv!NoEntry}]
      /\ may' \in [EntryKeys -> SUBSET (Kv!Entry \union {Kv!NoEntry})]
  BY <1>1, <1>4 DEF KvInv, Kv!TypeOK
<1>7. /\ uses' \in [KvCallers -> Uses] /\ uses'[c] = use
      /\ \A d \in KvCallers \ {c} : uses'[d] = uses[d]
  BY <1>5 DEF KvInv
<1>8. Kv!TypeOK'
  <2>1. \A d \in KvCallers : uses'[d] \in Uses
    BY <1>7
  <2>2. flight' \subseteq Kv!Operation
    BY <1>3, <1>5 DEF KvInv, Kv!TypeOK
  <2>3. QED BY <1>6, <2>1, <2>2 DEF KvInv, Kv!TypeOK, Uses
<1>9. OwnTurn(c, {k})
  BY <1>5, <1>7 DEF OwnTurn
<1>10. OthersStay(c, {k})
  BY <1>6, <1>7 DEF OthersStay, KvInv, TurnsAreTaken
<1>11. KeysHold({k})
  BY <1>6, PurgesAreAllowed DEF KeysHold, KvInv, TiersHold
<1>12. OperationsFit(c)
  <2>1. ASSUME NEW q \in flight', q \notin flight \ done
        PROVE  q.by \in {c, Nobody} /\ Fits(q, uses', near', may') /\ \A p \in flight' : q.by = c /\ p.by = c => p = q
    <3>1. q = o /\ flight' = (flight \ done) \union {o}
      BY <1>5, <2>1
    <3>2. Fits(o, uses', near', may')
      BY <1>1, <1>3, <1>5, <1>7, <2>1 DEF Fits
    <3>3. \A p \in flight' : p.by = c => p = o
      BY <3>1
    <3>4. QED BY <1>1, <1>3, <3>1, <3>2, <3>3
  <2>2. QED BY <2>1 DEF OperationsFit
<1>13. QED BY <1>8, <1>9, <1>10, <1>11, <1>12, TurnStep DEF Turn

LEMMA ReadLocalStep ==
  ASSUME TakingTurns, KvInv, NEW c \in KvCallers, NEW k \in EntryKeys, Kv!ReadLocal(c, k)
  PROVE  KvInv'
<1>1. /\ uses[c].op \in {"read", "get", "getMany"} /\ uses[c].keys = {k}
      /\ \A q \in flight : q.by # c
      /\ UNCHANGED <<remote, kvNow, sets, failures>>
  BY DEF Kv!ReadLocal
<1>2. CASE near[k] # Kv!NoEntry
  <2>1. near[k] \in may[k] /\ Kv!Finish(near[k], k, c, {})
    BY <1>2 DEF Kv!ReadLocal, KvInv, TiersHold
  <2>2. {} \in SUBSET flight
    OBVIOUS
  <2>3. PICK e \in may[k] : Kv!Finish(e, k, c, {})
    BY <2>1
  <2>4. QED BY <1>1, <2>2, <2>3, FinishStep
<1>3. CASE near[k] = Kv!NoEntry
  <2>1. PICK o : o = Kv!Operate("read", {k}, Kv!NoEntry, c)
    OBVIOUS
  <2>2. flight' = flight \union {o} /\ UNCHANGED <<near, uses, may>>
    BY <1>3, <2>1 DEF Kv!ReadLocal
  <2>3. o \in Kv!Operation /\ o.do = "read" /\ o.keys = {k} /\ o.by = c /\ c # Nobody
    BY <2>1, OperateIs DEF TakingTurns, Kv!KvAssumption
  <2>4. Kv!TypeOK'
    BY <1>1, <2>2, <2>3 DEF KvInv, Kv!TypeOK
  <2>5. OwnTurn(c, {k}) /\ OthersStay(c, {k})
    BY <1>1, <2>2 DEF OwnTurn, OthersStay, KvInv, TurnsAreTaken
  <2>6. KeysHold({k})
    BY <1>1, <2>2, PurgesAreAllowed DEF KeysHold, KvInv, TiersHold
  <2>7. Fits(o, uses', near', may')
    BY <1>1, <2>2, <2>3 DEF Fits
  <2>8. OperationsFit(c)
    BY <1>1, <2>2, <2>3, <2>7 DEF OperationsFit
  <2>9. QED BY <2>4, <2>5, <2>6, <2>8, TurnStep DEF Turn
<1>4. QED BY <1>2, <1>3

LEMMA CopyLocalStep ==
  ASSUME TakingTurns, KvInv, NEW o \in flight, Kv!CopyLocal(o)
  PROVE  KvInv'
<1>1. o.do = "reply" /\ UNCHANGED <<remote, kvNow, sets, failures>>
  BY DEF Kv!CopyLocal
<1>2. o.by # Nobody
  BY <1>1 DEF KvInv, FlightFits, Fits
<1>3. /\ o.by \in KvCallers /\ uses[o.by].keys = o.keys /\ o.keys \in SUBSET EntryKeys
      /\ \A d \in KvCallers \ {o.by} : uses[d].keys \intersect o.keys = {}
      /\ \A q \in flight : q.by = o.by => q = o
      /\ uses[o.by].op \in {"read", "get", "getMany"} /\ \A k \in o.keys : o.entry \in may[k]
  BY <1>1, <1>2, OwnOperation DEF Fits
<1>4. PICK k \in EntryKeys : o.keys = {k}
  BY <1>1, <1>2, <1>3, OwnOperation DEF Fits
<1>5. CASE o.entry = Kv!NoEntry
  <2>1. flight' = flight \ {o} /\ uses' = [uses EXCEPT ![o.by] = Kv!Idle] /\ UNCHANGED <<near, may>>
    BY <1>5 DEF Kv!CopyLocal
  <2>2. /\ uses' \in [KvCallers -> Uses] /\ uses'[o.by].keys = {} /\ uses'[o.by].op = "idle"
        /\ \A d \in KvCallers \ {o.by} : uses'[d] = uses[d]
    BY <1>3, <2>1, OnUse DEF KvInv
  <2>3. failures' \in 0 .. MaxKvFaults
    BY <1>1 DEF KvInv, Kv!TypeOK
  <2>4. Moves(o.by, o.keys)
    BY <1>1, <1>3, <2>1, <2>2, <2>3 DEF Moves
  <2>5. QED BY <1>3, <2>4, GoesOn
<1>6. CASE o.entry # Kv!NoEntry
  <2>1. Kv!Finish(o.entry, k, o.by, {o})
    BY <1>4, <1>6 DEF Kv!CopyLocal
  <2>2. PICK e \in may[k] : Kv!Finish(e, k, o.by, {o})
    BY <1>3, <1>4, <2>1
  <2>3. {o} \in SUBSET flight /\ \A q \in flight : q.by = o.by => q \in {o}
    BY <1>3
  <2>4. PICK c \in KvCallers : c = o.by
    BY <1>3
  <2>5. PICK done \in SUBSET flight : done = {o}
    BY <2>3
  <2>6. /\ uses[c].op \in {"read", "get", "getMany"} /\ uses[c].keys = {k}
        /\ \A q \in flight : q.by = c => q \in done
        /\ Kv!Finish(e, k, c, done)
    BY <1>3, <1>4, <2>2, <2>3, <2>4, <2>5
  <2>7. QED BY <1>1, <2>6, FinishStep
<1>7. QED BY <1>5, <1>6

LEMMA TickStep ==
  ASSUME TakingTurns, KvInv, Kv!Tick \/ UNCHANGED Kv!vars
  PROVE  KvInv'
<1>1. UNCHANGED <<near, remote, flight, uses, sets, failures, may>> /\ kvNow' \in 0 .. MaxTime
  BY DEF Kv!Tick, Kv!vars, KvInv, Kv!TypeOK, TakingTurns, Kv!KvAssumption
<1>2. QED
  BY <1>1 DEF KvInv, Kv!TypeOK, FlightFits, TurnsAreTaken, TiersHold

LEMMA KvStays ==
  ASSUME TakingTurns
  PROVE  Kv!Spec => []KvInv
<1>1. Kv!Init => KvInv
  BY KvInit
<1>2. KvInv /\ [Kv!Next]_(Kv!vars) => KvInv'
  <2>1. ASSUME KvInv, NEW c \in KvCallers, Kv!Delete(c, EntryKeys) PROVE KvInv'
    <3>1. EntryKeys \in SUBSET EntryKeys
      OBVIOUS
    <3>2. QED BY <2>1, <3>1, DeleteStep
  <2>2. ASSUME KvInv, NEW c \in KvCallers, NEW k \in EntryKeys, Kv!Delete(c, {k}) PROVE KvInv'
    <3>1. {k} \in SUBSET EntryKeys
      OBVIOUS
    <3>2. QED BY <2>2, <3>1, DeleteStep
  <2>3. ASSUME KvInv, Kv!Next PROVE KvInv'
    BY <2>1, <2>2, <2>3, SetStep, ReadLocalStep, GetStep, IterationStep, LandReadStep, CopyLocalStep, LandSetStep,
       LandDeleteStep, FailsStep, TickStep DEF Kv!Next
  <2>4. QED BY <2>3, TickStep
<1>3. QED BY <1>1, <1>2, PTL DEF Kv!Spec

\* The store, with its two tiers, its operations under way and what callers
\* await, stays well typed.
THEOREM KvTypeCorrect ==
  ASSUME TakingTurns
  PROVE  Kv!Spec => []Kv!TypeOK
<1>1. KvInv => Kv!TypeOK
  BY DEF KvInv
<1>2. QED BY <1>1, KvStays, PTL

\* What set and delete acknowledged is what both tiers hold once nothing of the
\* key is under way, for any number of callers that take turns on a key,
\* whatever remote operation fails and in whatever order they land: a set is
\* never overtaken by a deletion, a read or an expiry of before.
THEOREM StoredIsHeld ==
  ASSUME TakingTurns
  PROVE  Kv!Spec => []Kv!HoldsWhatWasStored
<1>1. KvInv => Kv!HoldsWhatWasStored
  BY DEF KvInv, TiersHold, Kv!HoldsWhatWasStored
<1>2. QED BY <1>1, KvStays, PTL

------------------------------------------------------------------------------
(* The iterator of these stores passes over no entry while others come in, *)
(* whether or not callers take turns.                                      *)

\* What an iteration has still to visit lies behind where it has got to.
StillAhead(use) ==
  use.op \in {"iterate", "done"} =>
    /\ use.due \subseteq Kv!Stored
    /\ \A d \in use.due : d \in use.seen \/ (use.op = "iterate" /\ Rank(Kv!Stored, d) >= use.offset)

\* What is under way is an operation on some keys, and a set puts something there.
Operates(o) ==
  /\ o = Kv!Operate(o.do, o.keys, o.entry, o.by)
  /\ o.keys \subseteq EntryKeys
  /\ o.do = "set" => o.entry # Kv!NoEntry /\ IsFiniteSet(o.keys)

IterInv ==
  /\ uses \in [KvCallers -> Uses]
  /\ IsFiniteSet(Kv!Stored) /\ sets \in Nat
  /\ \A o \in flight : Operates(o)
  /\ \A c \in KvCallers : StillAhead(uses[c])

LEMMA IterInit ==
  ASSUME Kv!Init
  PROVE  IterInv
<1>1. uses \in [KvCallers -> Uses] /\ \A c \in KvCallers : uses[c].op = "idle"
  BY DEF Kv!Init, Kv!Idle, Uses
<1>2. Kv!Stored = {}
  BY DEF Kv!Init, Kv!Stored
<1>3. QED BY <1>1, <1>2, FS_EmptySet DEF Kv!Init, IterInv, StillAhead

\* Calls that iterate stay where they are, others begin no iteration, and no entry
\* goes that an iteration has still to visit.
Undisturbed ==
  /\ uses' \in [KvCallers -> Uses]
  /\ \A c \in KvCallers : \/ uses'[c].op \notin {"iterate", "done"}
                        \/ /\ uses'[c].op = uses[c].op /\ uses'[c].offset = uses[c].offset
                           /\ uses'[c].due = uses[c].due /\ uses'[c].seen = uses[c].seen

LEMMA UndisturbedStep ==
  ASSUME Kv!KvAssumption, IterInv, Undisturbed, IsFiniteSet(Kv!Stored)', Kv!Stored \subseteq Kv!Stored',
         sets' \in {sets, sets + 1}, \A o \in flight' : o \in flight \/ Operates(o)
  PROVE  IterInv'
<1>1. Kv!Stored \in SUBSET Nat /\ Kv!Stored' \in SUBSET Nat
  BY DEF Kv!KvAssumption, Kv!Stored
<1>2. ASSUME NEW c \in KvCallers PROVE StillAhead(uses[c])'
  <2>1. \A d : Rank(Kv!Stored, d) <= Rank(Kv!Stored', d) /\ Rank(Kv!Stored, d) \in Nat /\ Rank(Kv!Stored', d) \in Nat
    BY <1>1, RanksStayBehind
  <2>2. StillAhead(uses[c]) /\ uses[c] \in Uses
    BY DEF IterInv
  <2>3. QED BY <2>1, <2>2 DEF StillAhead, Undisturbed, Uses
<1>3. \A o \in flight' : Operates(o)'
  BY DEF IterInv, Operates, Kv!Operate, Kv!NoEntry
<1>4. sets' \in Nat
  BY DEF IterInv
<1>5. QED BY <1>2, <1>3, <1>4 DEF IterInv, Undisturbed

LEMMA OneUseChanges ==
  ASSUME IterInv, NEW x, NEW u \in Uses, u.op \notin {"iterate", "done"}, uses' = [uses EXCEPT ![x] = u]
  PROVE  Undisturbed
BY DEF IterInv, Undisturbed

LEMMA NoIteration ==
  ASSUME NEW op \in {"set", "read", "get", "getMany", "delete"}, NEW K \in SUBSET EntryKeys
  PROVE  /\ Kv!On(op, K) \in Uses /\ Kv!On(op, K).op \notin {"iterate", "done"}
         /\ Kv!Idle \in Uses /\ Kv!Idle.op \notin {"iterate", "done"}
BY DEF Kv!On, Kv!Idle, Uses

\* Whatever operation the store starts.
LEMMA StartedOperates ==
  ASSUME NEW do, NEW K \in SUBSET EntryKeys, NEW e, NEW by, do = "set" => e # Kv!NoEntry /\ IsFiniteSet(K)
  PROVE  Operates(Kv!Operate(do, K, e, by))
BY DEF Operates, Kv!Operate

LEMMA IterSet ==
  ASSUME Kv!KvAssumption, IterInv, NEW c \in KvCallers, NEW k \in EntryKeys, NEW ttl, Kv!Set(c, k, ttl)
  PROVE  IterInv'
<1>1. PICK e : /\ e = [id |-> sets + 1, expires |-> Kv!Expires(ttl)]
               /\ flight' = flight \union {Kv!Operate("set", {k}, e, c)}
               /\ uses' = [uses EXCEPT ![c] = Kv!On("set", {k})] /\ remote' = remote
               /\ sets' = sets + 1
  BY DEF Kv!Set
<1>2. e # Kv!NoEntry
  BY <1>1 DEF IterInv, Kv!NoEntry
<1>3. {k} \in SUBSET EntryKeys /\ IsFiniteSet({k})
  BY FS_Singleton
<1>4. Operates(Kv!Operate("set", {k}, e, c))
  BY <1>2, <1>3, StartedOperates
<1>5. Undisturbed
  BY <1>1, <1>3, NoIteration, OneUseChanges
<1>6. Kv!Stored' = Kv!Stored
  BY <1>1 DEF Kv!Stored
<1>7. QED BY <1>1, <1>4, <1>5, <1>6, UndisturbedStep DEF IterInv

LEMMA IterDelete ==
  ASSUME Kv!KvAssumption, IterInv, NEW c \in KvCallers, NEW K \in SUBSET EntryKeys, Kv!Delete(c, K)
  PROVE  IterInv'
<1>1. /\ remote' = remote /\ sets' = sets
      /\ \/ flight' = flight /\ uses' = uses
         \/ /\ flight' = flight \union {Kv!Operate("delete", K, Kv!NoEntry, c)}
            /\ uses' = [uses EXCEPT ![c] = Kv!On("delete", K)]
  BY DEF Kv!Delete
<1>2. Operates(Kv!Operate("delete", K, Kv!NoEntry, c))
  BY StartedOperates
<1>3. Undisturbed
  <2>1. CASE uses' = uses
    BY <2>1 DEF IterInv, Undisturbed
  <2>2. CASE uses' = [uses EXCEPT ![c] = Kv!On("delete", K)]
    BY <2>2, NoIteration, OneUseChanges
  <2>3. QED BY <1>1, <2>1, <2>2
<1>4. Kv!Stored' = Kv!Stored
  BY <1>1 DEF Kv!Stored
<1>5. QED BY <1>1, <1>2, <1>3, <1>4, UndisturbedStep DEF IterInv

LEMMA IterFinish ==
  ASSUME Kv!KvAssumption, IterInv, NEW e, NEW k \in EntryKeys, NEW c, NEW over, Kv!Finish(e, k, c, over),
         remote' = remote, sets' = sets
  PROVE  IterInv'
<1>1. PICK by : /\ flight' \subseteq flight \union {Kv!Operate("delete", {k}, Kv!NoEntry, by)}
                /\ \/ uses' = [uses EXCEPT ![c] = Kv!Idle]
                   \/ uses' = [uses EXCEPT ![c] = Kv!On("delete", {k})]
  BY DEF Kv!Finish
<1>2. {k} \in SUBSET EntryKeys
  OBVIOUS
<1>3. Operates(Kv!Operate("delete", {k}, Kv!NoEntry, by))
  BY <1>2, StartedOperates
<1>4. Undisturbed
  BY <1>1, <1>2, NoIteration, OneUseChanges
<1>5. Kv!Stored' = Kv!Stored
  BY DEF Kv!Stored
<1>6. QED BY <1>1, <1>3, <1>4, <1>5, UndisturbedStep DEF IterInv

LEMMA IterGet ==
  ASSUME Kv!KvAssumption, IterInv, NEW c \in KvCallers, NEW k \in EntryKeys, NEW op \in {"get", "getMany"}, Kv!Get(c, k, op)
  PROVE  IterInv'
<1>1. {k} \in SUBSET EntryKeys
  OBVIOUS
<1>2. Undisturbed
  BY <1>1, NoIteration, OneUseChanges DEF Kv!Get
<1>3. Kv!Stored' = Kv!Stored /\ flight' = flight /\ sets' = sets
  BY DEF Kv!Stored, Kv!Get
<1>4. QED BY <1>2, <1>3, UndisturbedStep DEF IterInv

LEMMA IterReadLocal ==
  ASSUME Kv!KvAssumption, IterInv, NEW c \in KvCallers, NEW k \in EntryKeys, Kv!ReadLocal(c, k)
  PROVE  IterInv'
<1>1. CASE near[k] # Kv!NoEntry
  BY <1>1, IterFinish DEF Kv!ReadLocal
<1>2. CASE near[k] = Kv!NoEntry
  <2>1. {k} \in SUBSET EntryKeys
    OBVIOUS
  <2>2. Operates(Kv!Operate("read", {k}, Kv!NoEntry, c))
    BY <2>1, StartedOperates
  <2>3. /\ flight' = flight \union {Kv!Operate("read", {k}, Kv!NoEntry, c)}
        /\ uses' = uses /\ remote' = remote /\ sets' = sets
    BY <1>2 DEF Kv!ReadLocal
  <2>4. Undisturbed /\ Kv!Stored' = Kv!Stored
    BY <2>3 DEF IterInv, Undisturbed, Kv!Stored
  <2>5. QED BY <2>2, <2>3, <2>4, UndisturbedStep DEF IterInv
<1>3. QED BY <1>1, <1>2

LEMMA IterLandRead ==
  ASSUME Kv!KvAssumption, IterInv, NEW o \in flight, Kv!LandRead(o)
  PROVE  IterInv'
<1>1. PICK k \in o.keys : flight' = (flight \ {o}) \union {[o EXCEPT !.do = "reply", !.entry = remote[k]]}
  BY DEF Kv!LandRead
<1>2. Operates([o EXCEPT !.do = "reply", !.entry = remote[k]])
  <2>1. PICK do, keys, entry, by : o = Kv!Operate(do, keys, entry, by) /\ keys \in SUBSET EntryKeys
    BY DEF IterInv, Operates, Kv!Operate
  <2>2. [o EXCEPT !.do = "reply", !.entry = remote[k]] = Kv!Operate("reply", keys, remote[k], by)
    <3>1. PICK e : e = remote[k]
      OBVIOUS
    <3>2. PICK r : r = [o EXCEPT !.do = "reply", !.entry = e]
      OBVIOUS
    <3>3. DOMAIN r = {"do", "keys", "entry", "by"} /\ r.do = "reply" /\ r.entry = e /\ r.keys = keys /\ r.by = by
      BY <2>1, <3>2 DEF Kv!Operate
    <3>4. r = [do |-> "reply", keys |-> keys, entry |-> e, by |-> by]
      BY <2>1, <3>2, <3>3 DEF Kv!Operate
    <3>5. QED BY <3>1, <3>2, <3>4, Zenon DEF Kv!Operate
  <2>3. QED BY <2>1, <2>2, StartedOperates
<1>3. uses' = uses /\ remote' = remote /\ sets' = sets
  BY DEF Kv!LandRead
<1>4. Undisturbed /\ Kv!Stored' = Kv!Stored
  BY <1>3 DEF IterInv, Undisturbed, Kv!Stored
<1>5. QED BY <1>1, <1>2, <1>3, <1>4, UndisturbedStep DEF IterInv

LEMMA IterCopyLocal ==
  ASSUME Kv!KvAssumption, IterInv, NEW o \in flight, Kv!CopyLocal(o)
  PROVE  IterInv'
<1>1. o.keys \subseteq EntryKeys /\ remote' = remote /\ sets' = sets
  BY DEF IterInv, Operates, Kv!CopyLocal
<1>2. CASE o.entry # Kv!NoEntry
  BY <1>1, <1>2, IterFinish DEF Kv!CopyLocal
<1>3. CASE o.entry = Kv!NoEntry
  <2>1. flight' = flight \ {o} /\ uses' = [uses EXCEPT ![o.by] = Kv!Idle]
    BY <1>3 DEF Kv!CopyLocal
  <2>2. Undisturbed
    BY <2>1, NoIteration, OneUseChanges
  <2>3. Kv!Stored' = Kv!Stored
    BY <1>1 DEF Kv!Stored
  <2>4. QED BY <1>1, <2>1, <2>2, <2>3, UndisturbedStep DEF IterInv
<1>4. QED BY <1>2, <1>3

LEMMA IterLandSet ==
  ASSUME Kv!KvAssumption, IterInv, NEW o \in flight, Kv!LandSet(o)
  PROVE  IterInv'
<1>1. o.keys \in SUBSET EntryKeys /\ o.entry # Kv!NoEntry /\ IsFiniteSet(o.keys)
  BY DEF IterInv, Operates, Kv!LandSet
<1>2. Kv!Stored' = Kv!Stored \union o.keys
  BY <1>1 DEF Kv!Stored, Kv!LandSet
<1>3. IsFiniteSet(Kv!Stored')
  BY <1>1, <1>2, FS_Union DEF IterInv
<1>4. Undisturbed
  BY <1>1, NoIteration, OneUseChanges DEF Kv!LandSet
<1>5. flight' = flight \ {o} /\ sets' = sets
  BY DEF Kv!LandSet
<1>6. QED BY <1>2, <1>3, <1>4, <1>5, UndisturbedStep

LEMMA IterLandDelete ==
  ASSUME Kv!KvAssumption, IterInv, NEW o \in flight, Kv!LandDelete(o)
  PROVE  IterInv'
<1>1. /\ remote' = Kv!Without(remote, o.keys) /\ flight' = flight \ {o} /\ sets' = sets
      /\ uses' = [c \in KvCallers |-> IF c = o.by THEN Kv!Idle ELSE [uses[c] EXCEPT !.due = {}]]
  BY DEF Kv!LandDelete
<1>2. IsFiniteSet(Kv!Stored')
  <2>1. Kv!Stored' \subseteq Kv!Stored
    BY <1>1 DEF Kv!Stored, Kv!Without
  <2>2. QED BY <2>1, FS_Subset DEF IterInv
<1>3. ASSUME NEW c \in KvCallers PROVE uses'[c] \in Uses /\ StillAhead(uses[c])'
  BY <1>1 DEF IterInv, Uses, Kv!Idle, StillAhead
<1>4. uses' \in [KvCallers -> Uses]
  BY <1>1, <1>3
<1>5. \A p \in flight' : Operates(p)'
  BY <1>1 DEF IterInv, Operates, Kv!Operate, Kv!NoEntry
<1>6. QED BY <1>1, <1>2, <1>3, <1>4, <1>5 DEF IterInv

LEMMA IterFails ==
  ASSUME Kv!KvAssumption, IterInv, NEW o \in flight, Kv!Fails(o)
  PROVE  IterInv'
<1>1. Undisturbed
  <2>1. CASE uses' = uses
    BY <2>1 DEF IterInv, Undisturbed
  <2>2. CASE uses' = [uses EXCEPT ![o.by] = Kv!Idle]
    BY <2>2, NoIteration, OneUseChanges
  <2>3. QED BY <2>1, <2>2 DEF Kv!Fails
<1>2. Kv!Stored' = Kv!Stored /\ flight' \subseteq flight /\ sets' = sets
  BY DEF Kv!Stored, Kv!Fails
<1>3. QED BY <1>1, <1>2, UndisturbedStep DEF IterInv

LEMMA IterIterate ==
  ASSUME Kv!KvAssumption, IterInv, NEW c \in KvCallers, Kv!Iterate(c)
  PROVE  IterInv'
<1>1. uses' = [uses EXCEPT ![c] = [Kv!Idle EXCEPT !.op = "iterate", !.due = Kv!Stored]]
      /\ remote' = remote /\ flight' = flight /\ sets' = sets
  BY DEF Kv!Iterate
<1>2. Kv!Stored' = Kv!Stored /\ Kv!Stored \in SUBSET EntryKeys
  BY <1>1 DEF Kv!Stored
<1>3. \A d : Rank(Kv!Stored, d) \in Nat
  BY <1>2, RankIsNat DEF IterInv, Kv!KvAssumption
<1>4. [Kv!Idle EXCEPT !.op = "iterate", !.due = Kv!Stored] \in Uses
  BY <1>2 DEF Kv!Idle, Uses
<1>5. ASSUME NEW d \in KvCallers PROVE StillAhead(uses[d])'
  BY <1>1, <1>2, <1>3 DEF IterInv, StillAhead, Kv!Idle
<1>6. \A p \in flight' : Operates(p)'
  BY <1>1 DEF IterInv, Operates, Kv!Operate, Kv!NoEntry
<1>7. QED BY <1>1, <1>2, <1>4, <1>5, <1>6 DEF IterInv

LEMMA KvCounts ==
  \A S : Kv!Cardinality(S) = Cardinality(S)
BY DEF Kv!Cardinality, Cardinality

LEMMA IterNextPage ==
  ASSUME Kv!KvAssumption, IterInv, NEW c \in KvCallers, Kv!NextPage(c)
  PROVE  IterInv'
<1> DEFINE offset == uses[c].offset
           page == Kv!Page(offset)
           op == IF Cardinality(page) = PageSize THEN "iterate" ELSE "done"
           new == [uses[c] EXCEPT !.seen = @ \union page, !.offset = @ + PageSize, !.op = op]
<1>1. uses' = [uses EXCEPT ![c] = new] /\ remote' = remote /\ flight' = flight /\ uses[c].op = "iterate"
      /\ sets' = sets
  <2>1. /\ remote' = remote /\ flight' = flight /\ sets' = sets /\ uses[c].op = "iterate"
        /\ uses' = [uses EXCEPT ![c].seen = @ \union page, ![c].offset = @ + PageSize, ![c].op = op]
    BY KvCounts DEF Kv!NextPage, Kv!AfterPage
  <2>2. uses \in [KvCallers -> Uses]
    BY DEF IterInv
  <2> HIDE DEF page, op
  <2>3. QED BY <2>1, <2>2 DEF Uses
<1>2. /\ Kv!Stored' = Kv!Stored /\ Kv!Stored \in SUBSET EntryKeys /\ Kv!Stored \in SUBSET Nat /\ IsFiniteSet(Kv!Stored)
      /\ PageSize \in Nat /\ PageSize > 0
  BY <1>1 DEF Kv!Stored, Kv!KvAssumption, IterInv
<1>3. page = {k \in Kv!Stored : Rank(Kv!Stored, k) \in offset .. offset + PageSize - 1}
  BY KvCounts DEF Kv!Page, Rank, Under
<1>4. uses[c] \in Uses /\ offset \in Nat /\ StillAhead(uses[c])
  BY DEF IterInv, Uses
<1> HIDE DEF page
<1>5. page \subseteq EntryKeys
  BY <1>2, <1>3
<1>6a. op \in {"iterate", "done"}
  OBVIOUS
<1> HIDE DEF op, offset
<1>6. /\ new \in Uses /\ new.due = uses[c].due /\ new.seen = uses[c].seen \union page
      /\ new.op = op /\ new.offset = offset + PageSize
  <2>1. PICK next : next = offset + PageSize /\ next \in Nat
    BY <1>2, <1>4
  <2>2. PICK use, visited, then : /\ visited = page /\ use = uses[c] /\ then = op
                                  /\ visited \in SUBSET EntryKeys /\ use \in Uses /\ then \in {"iterate", "done"}
    BY <1>4, <1>5, <1>6a
  <2>3. new = [use EXCEPT !.seen = @ \union visited, !.offset = next, !.op = then]
    BY <2>1, <2>2 DEF offset
  <2> HIDE DEF new
  <2>4. /\ new \in Uses /\ new.due = use.due /\ new.seen = use.seen \union visited
        /\ new.op = then /\ new.offset = next
    <3>1. use.seen \union visited \in SUBSET EntryKeys
      BY <2>2 DEF Uses
    <3>2. QED BY <2>1, <2>2, <2>3, <3>1 DEF Uses
  <2>5. QED BY <2>1, <2>2, <2>4, Zenon
<1> HIDE DEF new
<1>7. ASSUME NEW d \in uses[c].due
      PROVE  d \in uses[c].seen \union page \/ (op = "iterate" /\ Rank(Kv!Stored, d) >= offset + PageSize)
  <2>1. d \in uses[c].seen \/ (d \in Kv!Stored /\ Rank(Kv!Stored, d) >= offset)
    BY <1>1, <1>4 DEF StillAhead, offset
  <2>2. Rank(Kv!Stored, d) \in Nat
    BY <1>2, RankIsNat
  <2>3. CASE d \in Kv!Stored /\ Rank(Kv!Stored, d) >= offset + PageSize
    <3>1. Cardinality(page) = PageSize
      BY <1>2, <1>3, <1>4, <2>3, PagesBeforeAreFull
    <3>2. QED BY <2>3, <3>1 DEF op
  <2>4. CASE d \in Kv!Stored /\ Rank(Kv!Stored, d) >= offset /\ ~(Rank(Kv!Stored, d) >= offset + PageSize)
    BY <1>2, <1>3, <1>4, <2>2, <2>4
  <2>5. QED BY <2>1, <2>3, <2>4
<1>8. ASSUME NEW d \in KvCallers PROVE StillAhead(uses[d])'
  <2>1. CASE d = c
    <3>1. uses'[d] = new
      BY <1>1, <2>1 DEF IterInv
    <3>2. new.due \subseteq Kv!Stored
      BY <1>1, <1>4, <1>6 DEF StillAhead
    <3>3. QED BY <1>2, <1>6, <1>7, <3>1, <3>2 DEF StillAhead
  <2>2. CASE d # c
    BY <1>1, <1>2, <2>2 DEF IterInv, StillAhead
  <2>3. QED BY <2>1, <2>2
<1>9. \A p \in flight' : Operates(p)'
  BY <1>1 DEF IterInv, Operates, Kv!Operate, Kv!NoEntry
<1>10. QED BY <1>1, <1>2, <1>6, <1>8, <1>9 DEF IterInv

LEMMA IterRests ==
  ASSUME Kv!KvAssumption, IterInv,
         (\E c \in KvCallers : Kv!Iterated(c)) \/ Kv!Tick \/ UNCHANGED Kv!vars
  PROVE  IterInv'
<1>1. Undisturbed
  <2>1. ASSUME NEW c \in KvCallers, Kv!Iterated(c) PROVE Undisturbed
    BY <2>1, NoIteration, OneUseChanges DEF Kv!Iterated
  <2>2. CASE uses' = uses
    BY <2>2 DEF IterInv, Undisturbed
  <2>3. QED BY <2>1, <2>2 DEF Kv!Tick, Kv!vars
<1>2. Kv!Stored' = Kv!Stored /\ flight' = flight /\ sets' = sets
  BY DEF Kv!Stored, Kv!Tick, Kv!vars, Kv!Iterated
<1>3. QED BY <1>1, <1>2, UndisturbedStep DEF IterInv

LEMMA IterStep ==
  ASSUME Kv!KvAssumption, IterInv, [Kv!Next]_(Kv!vars)
  PROVE  IterInv'
<1>1. ASSUME NEW c \in KvCallers, NEW k \in EntryKeys
      PROVE  /\ \A ttl \in Ttls : Kv!Set(c, k, ttl) => IterInv'
             /\ Kv!Delete(c, {k}) => IterInv'
             /\ Kv!ReadLocal(c, k) => IterInv'
             /\ \A op \in {"get", "getMany"} : Kv!Get(c, k, op) => IterInv'
  <2>1. {k} \in SUBSET EntryKeys
    OBVIOUS
  <2>2. QED BY <2>1, IterSet, IterDelete, IterReadLocal, IterGet
<1>2. ASSUME NEW c \in KvCallers
      PROVE  (Kv!Delete(c, EntryKeys) => IterInv') /\ (Kv!Iterate(c) => IterInv') /\ (Kv!NextPage(c) => IterInv')
  BY IterDelete, IterIterate, IterNextPage
<1>3. ASSUME NEW o \in flight
      PROVE  /\ Kv!LandRead(o) => IterInv'
             /\ Kv!CopyLocal(o) => IterInv'
             /\ Kv!LandSet(o) => IterInv'
             /\ Kv!LandDelete(o) => IterInv'
             /\ Kv!Fails(o) => IterInv'
  BY IterLandRead, IterCopyLocal, IterLandSet, IterLandDelete, IterFails
<1>4. QED BY <1>1, <1>2, <1>3, IterRests DEF Kv!Next

(* An iteration visits every entry that was there when it began, unless one was
   deleted meanwhile, however many others come in, land late or fail between its
   pages, and whether or not callers take turns (keyv's iterator of the TypeORM
   adapter). *)
THEOREM IterationIsComplete ==
  ASSUME Kv!KvAssumption
  PROVE  Kv!Spec => []Kv!IterationIsComplete
<1>1. IterInv => Kv!IterationIsComplete
  BY DEF IterInv, StillAhead, Kv!IterationIsComplete
<1>2. IterInv /\ [Kv!Next]_(Kv!vars) => IterInv'
  BY IterStep
<1>3. QED BY <1>1, <1>2, IterInit, PTL DEF Kv!Spec

(* Both together, when callers take turns on a key: the store holds what was
   acknowledged, and iterations leave nothing out. *)
THEOREM EntriesStay ==
  ASSUME TakingTurns
  PROVE  Kv!Spec => []EntriesAreKept
<1>1. Kv!KvAssumption
  BY DEF TakingTurns
<1>2. Kv!Spec => []Kv!IterationIsComplete
  BY <1>1, IterationIsComplete
<1>3. QED BY <1>2, StoredIsHeld, PTL DEF EntriesAreKept
==============================================================================
