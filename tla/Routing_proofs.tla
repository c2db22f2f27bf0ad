---------------------------- MODULE Routing_proofs ---------------------------
(***************************************************************************)
(* Proofs about Routing, for every set of DIDs, keys, forwards and         *)
(* workers, and every bound.                                               *)
(* At the end, about LdSuites, for every document: the key that was asked  *)
(* for signs, and what was signed verifies.                                *)
(***************************************************************************)
EXTENDS DataAnswers, Routing, Filters_proofs, SequenceTheorems, TLAPS

------------------------------------------------------------------------------
(* The inductive invariant                                                 *)

\* Whether `d` was mediated, or not yet by version 3, since `since`.
WasMediated(d, since, log1, until) ==
  \E k \in since .. until : d \in log1[k].v3 \/ TRUE \in log1[k].v2[d]
WasNotInV3(d, since, log1, until) == \E k \in since .. until : d \notin log1[k].v3

\* The history ends with what is granted now.
HistoryIsCurrent == Len(past) > 0 /\ past[Len(past)] = Granted

HandlingOK(h) == h.run <= arrivals /\ h.since \in 1 .. Len(past)

\* What the checks that a handling has made have told it.
ChecksAreSound ==
  \A w \in Workers : task[w] # Idle =>
    /\ HandlingOK(task[w].handling)
    /\ task[w].stage = "v2" => WasNotInV3(NextDid(w), task[w].handling.since, past, Len(past))
    /\ task[w].stage = "save" => WasMediated(NextDid(w), task[w].handling.since, past, Len(past))

\* A handling that queues has queued what comes before `next`, and nobody else
\* has queued for it.
QueuedBefore(t) ==
  /\ t.stage = "save" => t.next \in 1 .. Len(KidsOf[t.handling.forward]) + 1
  /\ \A i \in DOMAIN log :
       log[i].handling = t.handling => t.stage = "save" /\ log[i].position < t.next
  /\ t.stage = "save" /\ t.next > 1 =>
       \E i \in DOMAIN log : log[i].handling = t.handling /\ log[i].position = t.next - 1

TasksAreSound == \A w \in Workers : task[w] # Idle => QueuedBefore(task[w])

\* Every message that arrives has a number of its own.
RunsAreDistinct ==
  /\ \A v, w \in Workers :
       task[v] # Idle /\ task[w] # Idle /\ v # w => task[v].handling.run # task[w].handling.run
  /\ \A i \in DOMAIN log : log[i].handling.run <= arrivals

UntilsAreOver ==
  /\ \A i \in DOMAIN log : log[i].until \in 1 .. Len(past) /\ log[i].handling.since >= 1
  /\ \A r \in refused : r.until \in 1 .. Len(past) /\ r.handling.since >= 1

IInv ==
  /\ TypeOK
  /\ HistoryIsCurrent
  /\ ChecksAreSound
  /\ TasksAreSound
  /\ RunsAreDistinct
  /\ UntilsAreOver
  /\ FollowsMediation
  /\ QueuedInFull

------------------------------------------------------------------------------
(* Types                                                                   *)

LEMMA IdleIsNoTask == Idle \notin Task /\ \A t \in Task : t.stage \in {"v3", "v2", "save"}
  BY DEF Idle, Task

LEMMA GrantedType ==
  Granted \in [v3 : SUBSET DIDs, v2 : [DIDs -> SUBSET BOOLEAN]]
<1>1. \A d \in DIDs : V2Answers(d) \subseteq BOOLEAN
  BY DEF V2Answers
<1>2. QED BY <1>1 DEF Granted

\* Appending keeps what a sequence holds.
LEMMA Appended ==
  ASSUME NEW S, NEW s \in Seq(S), NEW e \in S
  PROVE  /\ Append(s, e) \in Seq(S)
         /\ Len(Append(s, e)) = Len(s) + 1
         /\ DOMAIN Append(s, e) = DOMAIN s \union {Len(s) + 1}
         /\ Len(s) + 1 \notin DOMAIN s
         /\ DOMAIN s = 1 .. Len(s)
         /\ \A i \in DOMAIN s : Append(s, e)[i] = s[i]
         /\ Append(s, e)[Len(s) + 1] = e
  OBVIOUS

\* What is granted depends on the recipients and the responses only.
LEMMA GrantedStays == UNCHANGED <<recipientDids, responses>> => Granted' = Granted
  BY DEF Granted, V2Answers, Latest, IsMediationGranted

LEMMA InitIInv == Init => IInv
<1> SUFFICES ASSUME Init PROVE IInv
  OBVIOUS
<1>1. TypeOK
  <2>1. past \in Seq([v3 : SUBSET DIDs, v2 : [DIDs -> SUBSET BOOLEAN]])
    BY GrantedType DEF Init
  <2>2. QED
    BY <2>1, BoundsAssumption DEF Init, TypeOK, ManagerInit, ManagerTypeOK, BoundsAssumption
<1>2. HistoryIsCurrent
  BY DEF Init, HistoryIsCurrent
<1>3. ChecksAreSound /\ TasksAreSound /\ RunsAreDistinct /\ UntilsAreOver
  BY DEF Init, ChecksAreSound, TasksAreSound, RunsAreDistinct, UntilsAreOver
<1>4. FollowsMediation /\ QueuedInFull
  BY DEF Init, FollowsMediation, QueuedOnlyWhenMediated, RefusedOnlyWithoutMediation, QueuedInFull
<1>5. QED BY <1>1, <1>2, <1>3, <1>4 DEF IInv

\* The stages of a change of mediation.
LEMMA ChangedStep ==
  ASSUME TypeOK, Changed, responses' \subseteq Response, recipientDids' \in [DIDs -> DIDs \union {NONE}],
         UNCHANGED <<policies, mediations, now, routingVars>>
  PROVE  TypeOK' /\ past' = Append(past, Granted') /\ HistoryIsCurrent'
<1>1. Granted' \in [v3 : SUBSET DIDs, v2 : [DIDs -> SUBSET BOOLEAN]]
  <2>1. \A d \in DIDs : V2Answers(d)' \subseteq BOOLEAN
    BY DEF V2Answers
  <2>2. QED BY <2>1 DEF Granted
<1>2. past' = Append(past, Granted')
  BY DEF Changed
<1>3. past' \in Seq([v3 : SUBSET DIDs, v2 : [DIDs -> SUBSET BOOLEAN]])
  BY <1>1, <1>2 DEF TypeOK
<1>4. HistoryIsCurrent'
  BY <1>1, <1>2 DEF TypeOK, HistoryIsCurrent
<1>5. TypeOK'
  BY <1>3 DEF TypeOK, ManagerTypeOK, routingVars
<1>6. QED BY <1>2, <1>4, <1>5

LEMMA MediationStep ==
  ASSUME TypeOK, Mediation
  PROVE  /\ TypeOK' /\ HistoryIsCurrent'
         /\ UNCHANGED routingVars
         /\ past' = Append(past, Granted')
<1>1. /\ responses' \subseteq Response
      /\ recipientDids' \in [DIDs -> DIDs \union {NONE}]
      /\ Changed
  <2>1. ASSUME NEW d \in DIDs, Register(d) \/ Unregister(d)
        PROVE  UNCHANGED responses /\ recipientDids' \in [DIDs -> DIDs \union {NONE}] /\ Changed
    BY <2>1 DEF Register, Unregister, AddRecipientDid, RemoveRecipientDid, TypeOK, ManagerTypeOK
  <2>2. ASSUME NEW d \in DIDs, NEW type \in {"grant", "deny"}, Respond(d, type)
        PROVE  UNCHANGED recipientDids /\ responses' \subseteq Response /\ Changed
    BY <2>2 DEF Respond, TypeOK, Response
  <2>3. QED BY <2>1, <2>2 DEF Mediation, TypeOK, ManagerTypeOK
<1>2. UNCHANGED <<policies, mediations, now, routingVars>>
  BY <1>1 DEF Changed
<1>3. QED BY <1>1, <1>2, ChangedStep

\* The steps of a worker leave mediation and its history alone.
Working(w) ==
  \/ \E f \in Forwards : ReceiveForward(w, f)
  \/ CheckV3(w) \/ CheckV2(w) \/ SaveQueued(w) \/ RouteDone(w) \/ RouteFails(w)

LEMMA WorkingStays ==
  ASSUME NEW w \in Workers, Working(w)
  PROVE  UNCHANGED <<managerVars, now, responses, past>>
  BY DEF Working, ReceiveForward, CheckV3, CheckV2, Check, SaveQueued, RouteDone, RouteFails

LEMMA TaskType ==
  ASSUME TypeOK, NEW w \in Workers, task[w] # Idle
  PROVE  /\ task[w] \in Task
         /\ task[w].handling \in Handling
         /\ task[w].handling.forward \in Forwards
         /\ KidsOf[task[w].handling.forward] \in Seq(Kids)
         /\ Len(KidsOf[task[w].handling.forward]) > 0
         /\ NextDid(w) \in DIDs
<1>1. task[w] \in Task
  BY DEF TypeOK
<1>2. task[w].handling \in Handling
  BY <1>1 DEF Task
<1>3. task[w].handling.forward \in Forwards
  BY <1>2 DEF Handling
<1>4. QED
  BY <1>1, <1>2, <1>3, ForwardsAssumption DEF ForwardsAssumption, NextDid

\* What a worker's action finds when it is not waiting for a message.
LEMMA AtStage ==
  ASSUME TypeOK, NEW w \in Workers, task[w].stage \in {"v3", "v2", "save"}
  PROVE  task[w] # Idle
  BY DEF Idle

LEMMA WorkingTyped ==
  ASSUME IInv, NEW w \in Workers, Working(w)
  PROVE  TypeOK'
<1> USE DEF IInv
<1>1. ASSUME NEW f \in Forwards, ReceiveForward(w, f) PROVE TypeOK'
  <2> DEFINE h == [run |-> arrivals + 1, forward |-> f, since |-> Len(past)]
  <2>1. arrivals' \in 0 .. MaxArrivals /\ arrivals + 1 \in 1 .. MaxArrivals
    BY <1>1, BoundsAssumption DEF ReceiveForward, TypeOK, BoundsAssumption
  <2>2. h \in Handling
    BY <2>1 DEF Handling, TypeOK
  <2>3. task' = [task EXCEPT ![w] = [stage |-> "v3", handling |-> h]]
    BY <1>1 DEF ReceiveForward, Advance
  <2> HIDE DEF h
  <2>4. task' \in [Workers -> {Idle} \union Task]
    BY <2>2, <2>3 DEF TypeOK, Task
  <2>5. QED
    BY <1>1, <2>1, <2>4 DEF ReceiveForward, TypeOK, ManagerTypeOK, managerVars
<1>2. ASSUME NEW stage, Check(w, stage), stage \in {"v3", "v2"}
      PROVE  /\ task[w] \in Task /\ task[w].handling \in Handling
             /\ [stage |-> "v2", handling |-> task[w].handling] \in Task
             /\ Queueing(w) \in Task
  <2>1. task[w] \in Task /\ task[w].handling \in Handling
    BY <1>2, AtStage, TaskType DEF Check
  <2>2. QED BY <2>1 DEF Queueing, Task
<1>3. ASSUME CheckV3(w) PROVE TypeOK'
  <2>1. task' \in [Workers -> {Idle} \union Task]
    BY <1>2, <1>3 DEF CheckV3, Advance, TypeOK
  <2>2. QED
    BY <1>3, <2>1 DEF CheckV3, Check, TypeOK, ManagerTypeOK, managerVars
<1>4. ASSUME CheckV2(w) PROVE TypeOK'
  <2>1. task' \in [Workers -> {Idle} \union Task]
    BY <1>2, <1>4 DEF CheckV2, Advance, TypeOK
  <2>2. refused' \subseteq [handling : Handling, until : Nat]
    <3>1. [handling |-> task[w].handling, until |-> Len(past)] \in [handling : Handling, until : Nat]
      BY <1>2, <1>4 DEF CheckV2, TypeOK
    <3>2. refused' \subseteq refused \union {[handling |-> task[w].handling, until |-> Len(past)]}
      BY <1>4 DEF CheckV2
    <3>3. QED BY <3>1, <3>2 DEF TypeOK
  <2>3. QED
    BY <1>4, <2>1, <2>2 DEF CheckV2, Check, TypeOK, ManagerTypeOK, managerVars
<1>5. ASSUME SaveQueued(w) PROVE TypeOK'
  <2> DEFINE kids == KidsOf[task[w].handling.forward]
             e == [handling |-> task[w].handling, to |-> kids[task[w].next],
                   position |-> task[w].next, until |-> Len(past)]
  <2>1. task[w] # Idle /\ task[w].stage = "save" /\ task[w].next <= Len(kids)
    BY <1>5, AtStage DEF SaveQueued
  <2>2. /\ task[w] \in Task /\ task[w].handling \in Handling
        /\ kids \in Seq(Kids)
    BY <2>1, TaskType
  <2>3. task[w].next \in 1 .. Len(kids)
    BY <2>1, <2>2 DEF TasksAreSound, QueuedBefore
  <2>4. e \in Entry
    BY <2>2, <2>3 DEF Entry, TypeOK
  <2>5. log' = Append(log, e)
    BY <1>5 DEF SaveQueued
  <2> HIDE DEF e
  <2>6. log' \in Seq(Entry)
    BY <2>4, <2>5 DEF TypeOK
  <2>7. task' \in [Workers -> {Idle} \union Task]
    <3>1. task[w] \in [stage : {"save"}, handling : Handling, next : Nat]
      BY <2>1, <2>2 DEF Task
    <3>2. [task[w] EXCEPT !.next = @ + 1] \in [stage : {"save"}, handling : Handling, next : Nat]
      BY <3>1
    <3>3. task' = [task EXCEPT ![w] = [task[w] EXCEPT !.next = @ + 1]]
      BY <1>5 DEF SaveQueued, TypeOK
    <3>4. QED BY <3>2, <3>3 DEF TypeOK, Task
  <2>8. QED
    BY <1>5, <2>6, <2>7 DEF SaveQueued, TypeOK, ManagerTypeOK, managerVars
<1>6. ASSUME RouteDone(w) PROVE TypeOK'
  <2>1. task[w].handling \in Handling
    BY <1>6, AtStage, TaskType DEF RouteDone
  <2>2. QED
    BY <1>6, <2>1 DEF RouteDone, Advance, TypeOK, ManagerTypeOK, managerVars
<1>7. ASSUME RouteFails(w) PROVE TypeOK'
  BY <1>7, BoundsAssumption
     DEF RouteFails, Advance, TypeOK, ManagerTypeOK, managerVars, BoundsAssumption
<1>8. QED
  BY <1>1, <1>3, <1>4, <1>5, <1>6, <1>7 DEF Working

LEMMA TypeStep == IInv /\ [Next]_vars => TypeOK' /\ HistoryIsCurrent'
<1> SUFFICES ASSUME IInv, [Next]_vars PROVE TypeOK' /\ HistoryIsCurrent'
  OBVIOUS
<1>1. ASSUME UNCHANGED <<managerVars, responses, past>> PROVE HistoryIsCurrent'
  BY <1>1, GrantedStays DEF IInv, HistoryIsCurrent, managerVars
<1>2. CASE Mediation
  BY <1>2, MediationStep DEF IInv
<1>3. ASSUME NEW w \in Workers, Working(w) PROVE TypeOK' /\ HistoryIsCurrent'
  BY <1>1, <1>3, WorkingTyped, WorkingStays
<1>4. CASE Tick
  BY <1>1, <1>4, BoundsAssumption
     DEF Tick, IInv, TypeOK, ManagerTypeOK, managerVars, routingVars, BoundsAssumption
<1>5. CASE UNCHANGED vars
  BY <1>1, <1>5 DEF vars, IInv, TypeOK, ManagerTypeOK, managerVars, routingVars
<1>6. QED
  BY <1>2, <1>3, <1>4, <1>5 DEF Next, Working

------------------------------------------------------------------------------
(* What the checks found                                                   *)

\* The history and the number of arrivals only grow.
LEMMA HistoryGrows ==
  ASSUME TypeOK, Next
  PROVE  /\ Len(past) \in Nat /\ Len(past') \in Nat /\ Len(past) <= Len(past')
         /\ \A k \in 1 .. Len(past) : past'[k] = past[k]
         /\ arrivals \in Nat /\ arrivals <= arrivals'
<1>1. arrivals \in Nat /\ past \in Seq([v3 : SUBSET DIDs, v2 : [DIDs -> SUBSET BOOLEAN]])
  BY BoundsAssumption DEF TypeOK, BoundsAssumption
<1>2. CASE Mediation
  <2>1. past' = Append(past, Granted') /\ arrivals' = arrivals
    BY <1>2, MediationStep DEF routingVars
  <2>2. past' \in Seq([v3 : SUBSET DIDs, v2 : [DIDs -> SUBSET BOOLEAN]])
    BY <1>2, MediationStep DEF TypeOK
  <2>3. QED BY <1>1, <2>1, <2>2
<1>3. ASSUME NEW w \in Workers, Working(w) PROVE UNCHANGED past /\ arrivals <= arrivals'
  <2>1. UNCHANGED past
    BY <1>3, WorkingStays
  <2>2. arrivals' = arrivals \/ arrivals' = arrivals + 1
    BY <1>3
       DEF Working, ReceiveForward, CheckV3, CheckV2, Check, SaveQueued, RouteDone, RouteFails
  <2>3. QED BY <1>1, <2>1, <2>2
<1>4. CASE Tick
  BY <1>1, <1>4 DEF Tick, routingVars
<1>5. QED
  BY <1>1, <1>2, <1>3, <1>4 DEF Next, Working

\* What was so stays so as the history grows.
LEMMA StaysSo ==
  ASSUME TypeOK, Next, NEW d, NEW since \in Nat, since >= 1,
         NEW until \in 1 .. Len(past), NEW later \in Nat, until <= later
  PROVE  /\ WasMediated(d, since, past, until) => WasMediated(d, since, past', later)
         /\ WasNotInV3(d, since, past, until) => WasNotInV3(d, since, past', later)
<1>1. /\ Len(past) \in Nat /\ Len(past') \in Nat /\ Len(past) <= Len(past')
      /\ \A k \in 1 .. Len(past) : past'[k] = past[k]
  BY HistoryGrows
<1>2. \A k \in since .. until : k \in since .. later /\ past'[k] = past[k]
  BY <1>1
<1>3. QED BY <1>2 DEF WasMediated, WasNotInV3

\* What a check finds now was so at the last instant of the history.
LEMMA FoundNow ==
  ASSUME TypeOK, HistoryIsCurrent, NEW d \in DIDs, NEW since \in 1 .. Len(past)
  PROVE  /\ IsMediationGranted(d) \/ TRUE \in V2Answers(d) => WasMediated(d, since, past, Len(past))
         /\ ~IsMediationGranted(d) => WasNotInV3(d, since, past, Len(past))
         /\ FALSE \in V2Answers(d) => FALSE \in past[Len(past)].v2[d]
<1>1. Len(past) \in since .. Len(past)
  BY DEF TypeOK
<1>2. /\ d \in past[Len(past)].v3 <=> IsMediationGranted(d)
      /\ past[Len(past)].v2[d] = V2Answers(d)
  BY DEF HistoryIsCurrent, Granted
<1>3. QED BY <1>1, <1>2 DEF WasMediated, WasNotInV3

\* A step is of mediation and the clock, or of one worker, and leaves the tasks
\* of the others as they are.
LEMMA OneWorks ==
  ASSUME TypeOK, Next
  PROVE  \/ UNCHANGED routingVars
         \/ \E w \in Workers : /\ Working(w)
                              /\ \A v \in Workers : v # w => task'[v] = task[v]
<1>1. ASSUME NEW w \in Workers, Working(w), NEW v \in Workers, v # w PROVE task'[v] = task[v]
  BY <1>1 DEF Working, ReceiveForward, CheckV3, CheckV2, SaveQueued, RouteDone, RouteFails,
              Advance, TypeOK
<1>2. CASE Mediation
  BY <1>2, MediationStep
<1>3. CASE Tick
  BY <1>3 DEF Tick
<1>4. CASE \E w \in Workers : Working(w)
  BY <1>1, <1>4
<1>5. QED
  BY <1>2, <1>3, <1>4 DEF Next, Working

\* What each step of a worker makes of its task.
LEMMA OwnStep ==
  ASSUME TypeOK, NEW w \in Workers, Working(w), task'[w] # Idle
  PROVE  \/ /\ task[w] = Idle
            /\ \E f \in Forwards :
                 task'[w] = [stage |-> "v3",
                             handling |-> [run |-> arrivals + 1, forward |-> f, since |-> Len(past)]]
            /\ arrivals' = arrivals + 1
            /\ UNCHANGED log
         \/ /\ task[w] # Idle /\ task[w].stage \in {"v3", "v2"}
            /\ IsMediationGranted(NextDid(w)) \/ TRUE \in V2Answers(NextDid(w))
            /\ task'[w] = Queueing(w)
            /\ UNCHANGED <<log, arrivals>>
         \/ /\ task[w] # Idle /\ task[w].stage = "v3" /\ ~IsMediationGranted(NextDid(w))
            /\ task'[w] = [stage |-> "v2", handling |-> task[w].handling]
            /\ UNCHANGED <<log, arrivals>>
         \/ SaveQueued(w)
<1>1. \A next : Advance(w, next) => task'[w] = next
  BY DEF TypeOK, Advance
<1>2. CASE CheckV3(w)
  BY <1>1, <1>2, AtStage DEF CheckV3, Check
<1>3. CASE CheckV2(w)
  BY <1>1, <1>3, AtStage DEF CheckV2, Check
<1>4. ASSUME NEW f \in Forwards, ReceiveForward(w, f)
      PROVE  /\ task[w] = Idle
             /\ task'[w] = [stage |-> "v3",
                            handling |-> [run |-> arrivals + 1, forward |-> f, since |-> Len(past)]]
             /\ arrivals' = arrivals + 1
             /\ UNCHANGED log
  BY <1>1, <1>4 DEF ReceiveForward
<1>5. ~RouteDone(w) /\ ~RouteFails(w)
  BY <1>1 DEF RouteDone, RouteFails
<1>6. QED
  BY <1>2, <1>3, <1>4, <1>5 DEF Working

\* What SaveQueued makes of the task and the log.
LEMMA SaveStep ==
  ASSUME IInv, NEW w \in Workers, SaveQueued(w)
  PROVE  LET t == task[w]
             e == [handling |-> t.handling, to |-> KidsOf[t.handling.forward][t.next],
                   position |-> t.next, until |-> Len(past)] IN
         /\ t # Idle /\ t.stage = "save" /\ t.next \in 1 .. Len(KidsOf[t.handling.forward])
         /\ t.next \in Nat
         /\ task'[w] = [t EXCEPT !.next = @ + 1]
         /\ task'[w].stage = "save" /\ task'[w].handling = t.handling /\ task'[w].next = t.next + 1
         /\ e \in Entry
         /\ log' = Append(log, e)
         /\ UNCHANGED arrivals
<1> DEFINE kids == KidsOf[task[w].handling.forward]
           e == [handling |-> task[w].handling, to |-> kids[task[w].next],
                 position |-> task[w].next, until |-> Len(past)]
<1> USE DEF IInv
<1>1. task[w] # Idle /\ task[w].stage = "save" /\ task[w].next <= Len(kids)
  BY AtStage DEF SaveQueued
<1>2. task[w] \in Task /\ task[w].handling \in Handling /\ kids \in Seq(Kids)
  BY <1>1, TaskType
<1>3. task[w].next \in 1 .. Len(kids) /\ task[w].next \in Nat
  BY <1>1, <1>2 DEF TasksAreSound, QueuedBefore
<1>4. e \in Entry
  BY <1>2, <1>3 DEF Entry, TypeOK
<1>5. task[w] \in [stage : {"save"}, handling : Handling, next : Nat]
  BY <1>1, <1>2 DEF Task
<1>6. task'[w] = [task[w] EXCEPT !.next = @ + 1]
  BY DEF SaveQueued, TypeOK
<1>7. task'[w].stage = "save" /\ task'[w].handling = task[w].handling /\ task'[w].next = task[w].next + 1
  BY <1>1, <1>5, <1>6
<1>8. QED
  BY <1>1, <1>3, <1>4, <1>6, <1>7 DEF SaveQueued

\* A handling that goes on is the one it was or has just begun.
LEMMA SameHandling ==
  ASSUME IInv, NEW w \in Workers, Working(w), task'[w] # Idle
  PROVE  \/ /\ task[w] # Idle /\ task'[w].handling = task[w].handling
            /\ arrivals' = arrivals
         \/ /\ task[w] = Idle /\ task'[w].handling.run = arrivals + 1
            /\ task'[w].handling.since = Len(past)
            /\ arrivals' = arrivals + 1
<1>1. CASE SaveQueued(w)
  BY <1>1, SaveStep
<1>2. CASE task'[w] = Queueing(w) /\ task[w] # Idle /\ UNCHANGED arrivals
  <2>1. task'[w].handling = task[w].handling
    BY <1>2 DEF Queueing
  <2>2. QED BY <1>2, <2>1
<1>3. CASE /\ task'[w] = [stage |-> "v2", handling |-> task[w].handling]
           /\ task[w] # Idle /\ UNCHANGED arrivals
  <2>1. task'[w].handling = task[w].handling
    BY <1>3
  <2>2. QED BY <1>3, <2>1
<1>4. ASSUME NEW f \in Forwards, task[w] = Idle, arrivals' = arrivals + 1,
             task'[w] = [stage |-> "v3",
                         handling |-> [run |-> arrivals + 1, forward |-> f, since |-> Len(past)]]
      PROVE  task'[w].handling.run = arrivals + 1 /\ task'[w].handling.since = Len(past)
  BY <1>4
<1>5. QED BY <1>1, <1>2, <1>3, <1>4, OwnStep DEF IInv

LEMMA ChecksStep ==
  ASSUME IInv, Next
  PROVE  ChecksAreSound'
<1> DEFINE Told(t, log1, n, got) ==
             /\ t.handling.run <= n /\ t.handling.since \in 1 .. Len(log1)
             /\ t.stage = "v2" => WasNotInV3(NextOf[t.handling.forward], t.handling.since, log1, got)
             /\ t.stage = "save" => WasMediated(NextOf[t.handling.forward], t.handling.since, log1, got)
<1> USE DEF IInv
<1>0. /\ Len(past) \in Nat /\ Len(past') \in Nat /\ Len(past) <= Len(past') /\ 0 < Len(past)
      /\ arrivals \in Nat /\ arrivals <= arrivals' /\ arrivals' \in Nat
  <2>1. TypeOK'
    BY TypeStep
  <2>2. QED BY <2>1, HistoryGrows, BoundsAssumption DEF HistoryIsCurrent, TypeOK, BoundsAssumption
<1>1. ASSUME NEW w \in Workers, task[w] # Idle PROVE Told(task[w], past, arrivals, Len(past))
  BY <1>1 DEF ChecksAreSound, HandlingOK, NextDid
<1>2. ASSUME NEW w \in Workers, task[w] # Idle, task'[w] = task[w]
      PROVE  Told(task'[w], past', arrivals', Len(past'))
  <2>1. task[w].handling.since \in 1 .. Len(past) /\ task[w].handling.since \in Nat
    BY <1>0, <1>1, <1>2
  <2>2. task[w].handling.run \in Nat
    BY <1>2, TaskType DEF Handling
  <2>3. Len(past) \in 1 .. Len(past)
    BY <1>0
  <2>4. /\ task[w].handling.run <= arrivals'
        /\ task[w].handling.since \in 1 .. Len(past')
    BY <1>0, <1>1, <1>2, <2>1, <2>2
  <2>5. CASE task[w].stage = "v2"
    BY <1>0, <1>1, <1>2, <2>1, <2>3, <2>4, <2>5, StaysSo
  <2>6. CASE task[w].stage = "save"
    BY <1>0, <1>1, <1>2, <2>1, <2>3, <2>4, <2>6, StaysSo
  <2>7. QED BY <1>2, <2>4, <2>5, <2>6
<1>3. ASSUME NEW w \in Workers, Working(w), task'[w] # Idle
      PROVE  Told(task'[w], past', arrivals', Len(past'))
  <2>1. UNCHANGED past
    BY <1>3, WorkingStays
  <2>2. CASE task[w] = Idle
    <3>1. PICK f \in Forwards :
            task'[w] = [stage |-> "v3",
                        handling |-> [run |-> arrivals + 1, forward |-> f, since |-> Len(past)]]
      BY <1>3, <2>2, OwnStep, SaveStep
    <3>2. arrivals' = arrivals + 1
      BY <1>3, <2>2, SameHandling
    <3>3. QED BY <1>0, <2>1, <3>1, <3>2
  <2>3. CASE task[w] # Idle
    <3>1. task'[w].handling = task[w].handling /\ arrivals' = arrivals
      BY <1>3, <2>3, SameHandling
    <3>2. NextOf[task[w].handling.forward] = NextDid(w) /\ NextDid(w) \in DIDs
      BY <2>3, TaskType DEF NextDid
    <3>3. task[w].handling.since \in 1 .. Len(past)
      BY <1>1, <2>3
    <3>4. CASE SaveQueued(w)
      BY <1>1, <2>1, <2>3, <3>1, <3>4, SaveStep
    <3>5. CASE /\ IsMediationGranted(NextDid(w)) \/ TRUE \in V2Answers(NextDid(w))
               /\ task'[w] = Queueing(w)
      <4>1. task'[w].stage = "save"
        BY <3>5 DEF Queueing
      <4>2. WasMediated(NextDid(w), task[w].handling.since, past, Len(past))
        BY <3>2, <3>3, <3>5, FoundNow
      <4>3. QED BY <1>1, <2>1, <2>3, <3>1, <3>2, <4>1, <4>2
    <3>6. CASE /\ ~IsMediationGranted(NextDid(w))
               /\ task'[w] = [stage |-> "v2", handling |-> task[w].handling]
      <4>1. task'[w].stage = "v2"
        BY <3>6
      <4>2. WasNotInV3(NextDid(w), task[w].handling.since, past, Len(past))
        BY <3>2, <3>3, <3>6, FoundNow
      <4>3. QED BY <1>1, <2>1, <2>3, <3>1, <3>2, <4>1, <4>2
    <3>7. QED BY <1>3, <2>3, <3>4, <3>5, <3>6, OwnStep
  <2>4. QED BY <2>2, <2>3
<1>4. ASSUME NEW w \in Workers, task'[w] # Idle PROVE Told(task'[w], past', arrivals', Len(past'))
  BY <1>2, <1>3, <1>4, OneWorks DEF routingVars
<1>5. QED
  BY <1>4 DEF ChecksAreSound, HandlingOK, NextDid

LEMMA RunsStep ==
  ASSUME IInv, Next
  PROVE  RunsAreDistinct'
<1> USE DEF IInv
<1>0. arrivals \in Nat /\ arrivals <= arrivals'
  BY HistoryGrows
<1>1. \A w \in Workers : task[w] # Idle => task[w].handling.run \in Nat /\ task[w].handling.run <= arrivals
  BY TaskType DEF ChecksAreSound, HandlingOK, Handling
<1>2. \A i \in DOMAIN log : log[i].handling.run <= arrivals
  BY DEF RunsAreDistinct
<1>3. CASE UNCHANGED routingVars
  BY <1>3 DEF routingVars, RunsAreDistinct
<1>4. ASSUME NEW w \in Workers, Working(w), \A v \in Workers : v # w => task'[v] = task[v]
      PROVE  RunsAreDistinct'
  <2>1. ASSUME NEW v \in Workers, v # w, task'[v] # Idle, task'[w] # Idle
        PROVE  task'[v].handling.run # task'[w].handling.run
    <3>1. task'[v] = task[v] /\ task[v] # Idle
      BY <1>4, <2>1
    <3>2. CASE task[w] # Idle /\ task'[w].handling = task[w].handling
      BY <2>1, <3>1, <3>2 DEF RunsAreDistinct
    <3>3. CASE task'[w].handling.run = arrivals + 1
      BY <1>0, <1>1, <3>1, <3>3
    <3>4. QED BY <1>4, <2>1, <3>2, <3>3, SameHandling
  <2>2. ASSUME NEW u \in Workers, NEW v \in Workers, u # v, task'[u] # Idle, task'[v] # Idle
        PROVE  task'[u].handling.run # task'[v].handling.run
    <3>1. CASE u # w /\ v # w
      BY <1>4, <2>2, <3>1 DEF RunsAreDistinct
    <3>2. QED BY <2>1, <2>2, <3>1
  <2>3. ASSUME NEW i \in DOMAIN log' PROVE log'[i].handling.run <= arrivals'
    <3>1. CASE UNCHANGED log
      <4>0. log \in Seq(Entry) /\ i \in DOMAIN log
        BY <2>3, <3>1 DEF TypeOK
      <4>1. log[i].handling.run \in Nat /\ log[i].handling.run <= arrivals
        <5>1. log[i] \in Entry
          BY <4>0
        <5>2. QED BY <1>2, <4>0, <5>1 DEF Entry, Handling
      <4>2. TypeOK'
        BY TypeStep
      <4>3. arrivals' \in Nat
        BY <4>2, BoundsAssumption DEF TypeOK, BoundsAssumption
      <4>4. QED BY <1>0, <3>1, <4>1, <4>3
    <3>2. CASE SaveQueued(w)
      <4> DEFINE e == [handling |-> task[w].handling,
                       to |-> KidsOf[task[w].handling.forward][task[w].next],
                       position |-> task[w].next, until |-> Len(past)]
      <4>1. task[w] # Idle /\ e \in Entry /\ log' = Append(log, e) /\ arrivals' = arrivals
        BY <3>2, SaveStep
      <4>2. e.handling.run <= arrivals
        BY <1>1, <4>1
      <4> HIDE DEF e
      <4>3. log \in Seq(Entry)
        BY DEF TypeOK
      <4>4. (i \in DOMAIN log /\ log'[i] = log[i]) \/ log'[i] = e
        BY <2>3, <4>1, <4>3, Appended
      <4>5. QED BY <1>2, <4>1, <4>2, <4>4
    <3>3. QED
      BY <1>4, <3>1, <3>2 DEF Working, ReceiveForward, CheckV3, CheckV2, Check, RouteDone, RouteFails
  <2>4. QED BY <2>2, <2>3 DEF RunsAreDistinct
<1>5. QED BY <1>3, <1>4, OneWorks

------------------------------------------------------------------------------
(* What is queued                                                          *)

LEMMA LogType ==
  ASSUME TypeOK, NEW i \in DOMAIN log
  PROVE  /\ log[i].handling \in Handling /\ log[i].handling.run \in Nat
         /\ log[i].handling.since \in Nat /\ log[i].handling.forward \in Forwards
         /\ log[i].position \in Nat /\ log[i].until \in Nat
<1>1. log[i] \in Entry
  BY DEF TypeOK
<1>2. QED BY <1>1 DEF Entry, Handling

\* The log is as it was, or SaveQueued has added what the task asks for.
LEMMA LogGrows ==
  ASSUME IInv, NEW w \in Workers, Working(w)
  PROVE  UNCHANGED log \/ SaveQueued(w)
  BY DEF Working, ReceiveForward, CheckV3, CheckV2, Check, RouteDone, RouteFails

LEMMA TasksStep ==
  ASSUME IInv, Next
  PROVE  TasksAreSound'
<1> USE DEF IInv
<1>0. arrivals \in Nat /\ log \in Seq(Entry)
  BY HistoryGrows DEF TypeOK
<1>1. CASE UNCHANGED routingVars
  BY <1>1 DEF routingVars, TasksAreSound, QueuedBefore
<1>2. ASSUME NEW w \in Workers, Working(w), \A v \in Workers : v # w => task'[v] = task[v]
      PROVE  TasksAreSound'
  <2> DEFINE e == [handling |-> task[w].handling,
                   to |-> KidsOf[task[w].handling.forward][task[w].next],
                   position |-> task[w].next, until |-> Len(past)]
  <2>1. CASE UNCHANGED log
    <3>1. ASSUME NEW v \in Workers, v # w, task'[v] # Idle PROVE QueuedBefore(task[v])'
      BY <1>2, <2>1, <3>1 DEF TasksAreSound, QueuedBefore
    <3>2. ASSUME task'[w] # Idle, ~SaveQueued(w) PROVE QueuedBefore(task[w])'
      <4>1. CASE task[w] = Idle
        <5>1. PICK f \in Forwards :
                task'[w] = [stage |-> "v3",
                            handling |-> [run |-> arrivals + 1, forward |-> f, since |-> Len(past)]]
          BY <1>2, <3>2, <4>1, OwnStep
        <5>2. task'[w].stage = "v3" /\ task'[w].handling.run = arrivals + 1
          BY <5>1
        <5>3. \A i \in DOMAIN log : log[i].handling # task'[w].handling
          <6>1. ASSUME NEW i \in DOMAIN log PROVE log[i].handling.run \in Nat
            BY <6>1, LogType
          <6>2. QED BY <1>0, <5>2, <6>1 DEF RunsAreDistinct
        <5>4. QED BY <2>1, <5>2, <5>3 DEF QueuedBefore
      <4>2. CASE task[w] # Idle
        <5>1. /\ task[w].stage \in {"v3", "v2"}
              /\ \/ task'[w] = Queueing(w)
                 \/ task'[w] = [stage |-> "v2", handling |-> task[w].handling]
          BY <1>2, <3>2, <4>2, OwnStep
        <5>2. \A i \in DOMAIN log : log[i].handling # task[w].handling
          BY <4>2, <5>1 DEF TasksAreSound, QueuedBefore
        <5>3. CASE task'[w] = Queueing(w)
          <6>1. task'[w].stage = "save" /\ task'[w].handling = task[w].handling /\ task'[w].next = 1
            BY <5>3 DEF Queueing
          <6>2. 1 \in 1 .. Len(KidsOf[task[w].handling.forward]) + 1
            BY <4>2, TaskType
          <6>3. QED BY <2>1, <5>2, <6>1, <6>2 DEF QueuedBefore
        <5>4. CASE task'[w] = [stage |-> "v2", handling |-> task[w].handling]
          <6>1. task'[w].stage = "v2" /\ task'[w].handling = task[w].handling
            BY <5>4
          <6>2. QED BY <2>1, <5>2, <6>1 DEF QueuedBefore
        <5>5. QED BY <5>1, <5>3, <5>4
      <4>3. QED BY <4>1, <4>2
    <3>3. ~SaveQueued(w)
      <4>1. SaveQueued(w) => log' = Append(log, e) /\ e \in Entry
        BY SaveStep
      <4> HIDE DEF e
      <4>2. e \in Entry => Append(log, e) # log
        BY <1>0, Appended
      <4>3. QED BY <2>1, <4>1, <4>2
    <3>4. QED BY <3>1, <3>2, <3>3 DEF TasksAreSound
  <2>2. CASE SaveQueued(w)
    <3>1. /\ task[w] # Idle /\ task[w].stage = "save"
          /\ task[w].next \in 1 .. Len(KidsOf[task[w].handling.forward])
          /\ task[w].next \in Nat
          /\ task'[w].stage = "save" /\ task'[w].handling = task[w].handling
          /\ task'[w].next = task[w].next + 1
          /\ e \in Entry
          /\ log' = Append(log, e)
      BY <2>2, SaveStep
    <3>2. e.handling = task[w].handling /\ e.position = task[w].next
      OBVIOUS
    <3> HIDE DEF e
    <3>3. /\ DOMAIN log' = DOMAIN log \union {Len(log) + 1}
          /\ \A i \in DOMAIN log : log'[i] = log[i]
          /\ log'[Len(log) + 1] = e
      BY <1>0, <3>1, Appended
    <3>4. ASSUME NEW v \in Workers, v # w, task'[v] # Idle PROVE QueuedBefore(task[v])'
      <4>1. task'[v] = task[v] /\ task[v] # Idle
        BY <1>2, <3>4
      <4>2. task[v].handling # task[w].handling
        BY <3>1, <3>4, <4>1 DEF RunsAreDistinct
      <4>3. QueuedBefore(task[v])
        BY <4>1 DEF TasksAreSound
      <4>4. QED BY <3>2, <3>3, <4>1, <4>2, <4>3 DEF QueuedBefore
    <3>5. QueuedBefore(task[w])'
      <4>1. QueuedBefore(task[w])
        BY <3>1 DEF TasksAreSound
      <4>2. task[w].next + 1 \in 1 .. Len(KidsOf[task[w].handling.forward]) + 1
        BY <3>1, TaskType
      <4>3. ASSUME NEW i \in DOMAIN log', log'[i].handling = task[w].handling
            PROVE  log'[i].position < task[w].next + 1
        <5>1. CASE i \in DOMAIN log
          <6>1. log[i].position \in Nat
            BY <5>1, LogType
          <6>2. QED BY <3>1, <3>3, <4>1, <4>3, <5>1, <6>1 DEF QueuedBefore
        <5>2. CASE i = Len(log) + 1
          BY <3>1, <3>2, <3>3, <5>2
        <5>3. QED BY <3>3, <4>3, <5>1, <5>2
      <4>4. \E i \in DOMAIN log' : log'[i].handling = task[w].handling
                                  /\ log'[i].position = task[w].next + 1 - 1
        BY <3>1, <3>2, <3>3
      <4>5. \A i \in DOMAIN log' : log'[i].handling = task'[w].handling
                                 => task'[w].stage = "save" /\ log'[i].position < task'[w].next
        BY <3>1, <4>3
      <4>6. \E i \in DOMAIN log' : log'[i].handling = task'[w].handling
                                  /\ log'[i].position = task'[w].next - 1
        BY <3>1, <4>4
      <4>7. QED BY <3>1, <4>2, <4>5, <4>6 DEF QueuedBefore
    <3>6. QED BY <3>4, <3>5 DEF TasksAreSound
  <2>3. QED BY <1>2, <2>1, <2>2, LogGrows
<1>3. QED BY <1>1, <1>2, OneWorks

LEMMA UntilsStep ==
  ASSUME IInv, Next
  PROVE  UntilsAreOver'
<1> USE DEF IInv
<1>0. /\ Len(past) \in Nat /\ Len(past') \in Nat /\ Len(past) <= Len(past') /\ Len(past) > 0
      /\ log \in Seq(Entry)
  BY HistoryGrows DEF HistoryIsCurrent, TypeOK
<1>1. /\ \A i \in DOMAIN log : log[i].until \in 1 .. Len(past') /\ log[i].handling.since >= 1
      /\ \A r \in refused : r.until \in 1 .. Len(past') /\ r.handling.since >= 1
  BY <1>0 DEF UntilsAreOver
<1>2. CASE UNCHANGED routingVars
  BY <1>1, <1>2 DEF routingVars, UntilsAreOver
<1>3. ASSUME NEW w \in Workers, Working(w) PROVE UntilsAreOver'
  <2>1. UNCHANGED past /\ Len(past) \in 1 .. Len(past)
    BY <1>0, <1>3, WorkingStays
  <2>2. task[w] # Idle => task[w].handling.since >= 1
    <3>1. task[w] # Idle => task[w].handling.since \in 1 .. Len(past)
      BY DEF ChecksAreSound, HandlingOK
    <3>2. QED BY <1>0, <3>1
  <2>3. ASSUME NEW i \in DOMAIN log'
        PROVE  log'[i].until \in 1 .. Len(past) /\ log'[i].handling.since >= 1
    <3>1. CASE UNCHANGED log
      BY <1>1, <2>1, <2>3, <3>1
    <3>2. CASE SaveQueued(w)
      <4> DEFINE e == [handling |-> task[w].handling,
                       to |-> KidsOf[task[w].handling.forward][task[w].next],
                       position |-> task[w].next, until |-> Len(past)]
      <4>1. task[w] # Idle /\ e \in Entry /\ log' = Append(log, e)
        BY <3>2, SaveStep
      <4>2. e.until = Len(past) /\ e.handling.since >= 1
        BY <2>2, <4>1
      <4> HIDE DEF e
      <4>3. (i \in DOMAIN log /\ log'[i] = log[i]) \/ log'[i] = e
        BY <1>0, <2>3, <4>1, Appended
      <4>4. QED BY <1>1, <2>1, <4>2, <4>3
    <3>3. QED BY <1>3, <3>1, <3>2, LogGrows
  <2>4. ASSUME NEW r \in refused' PROVE r.until \in 1 .. Len(past) /\ r.handling.since >= 1
    <3>1. r \in refused \/ (CheckV2(w) /\ r = [handling |-> task[w].handling, until |-> Len(past)])
      BY <1>3, <2>4
         DEF Working, ReceiveForward, CheckV3, CheckV2, Check, SaveQueued, RouteDone, RouteFails
    <3>2. CASE r \in refused
      BY <1>1, <2>1, <3>2
    <3>3. CASE CheckV2(w) /\ r = [handling |-> task[w].handling, until |-> Len(past)]
      <4>1. task[w] # Idle
        BY <3>3, AtStage DEF CheckV2, Check
      <4>2. QED BY <2>1, <2>2, <3>3, <4>1
    <3>4. QED BY <3>1, <3>2, <3>3
  <2>5. QED BY <2>1, <2>3, <2>4 DEF UntilsAreOver
<1>4. QED BY <1>2, <1>3, OneWorks

------------------------------------------------------------------------------
(* The two properties                                                      *)

LEMMA FollowsStep ==
  ASSUME IInv, Next
  PROVE  FollowsMediation'
<1> USE DEF IInv
<1>0. /\ Len(past) \in Nat /\ Len(past') \in Nat /\ Len(past) <= Len(past') /\ Len(past) > 0
      /\ \A k \in 1 .. Len(past) : past'[k] = past[k]
      /\ log \in Seq(Entry)
  BY HistoryGrows DEF HistoryIsCurrent, TypeOK
\* What held of a message or a refusal is about instants that stay in the history.
<1>1. ASSUME NEW i \in DOMAIN log
      PROVE  WasMediated(NextOf[log[i].handling.forward], log[i].handling.since, past', log[i].until)
  <2>1. WasMediated(NextOf[log[i].handling.forward], log[i].handling.since, past, log[i].until)
    BY <1>1 DEF FollowsMediation, QueuedOnlyWhenMediated, WasMediated
  <2>2. log[i].until \in 1 .. Len(past) /\ log[i].handling.since >= 1
    BY <1>1 DEF UntilsAreOver
  <2>3. log[i].handling.since \in Nat /\ log[i].until \in Nat
    BY <1>1, LogType
  <2>4. QED BY <2>1, <2>2, <2>3, StaysSo
<1>2. ASSUME NEW r \in refused
      PROVE  \E j \in r.handling.since .. r.until :
               /\ NextOf[r.handling.forward] \notin past'[j].v3
               /\ \E k \in j .. r.until : FALSE \in past'[k].v2[NextOf[r.handling.forward]]
  <2>1. PICK j \in r.handling.since .. r.until :
               /\ NextOf[r.handling.forward] \notin past[j].v3
               /\ \E k \in j .. r.until : FALSE \in past[k].v2[NextOf[r.handling.forward]]
    BY <1>2 DEF FollowsMediation, RefusedOnlyWithoutMediation
  <2>2. PICK k \in j .. r.until : FALSE \in past[k].v2[NextOf[r.handling.forward]]
    BY <2>1
  <2>3. r.until \in 1 .. Len(past) /\ r.handling.since >= 1 /\ r.handling.since \in Nat
    BY <1>2 DEF UntilsAreOver, TypeOK, Handling
  <2>4. j \in 1 .. Len(past) /\ k \in 1 .. Len(past)
    BY <1>0, <2>1, <2>2, <2>3
  <2>5. past'[j] = past[j] /\ past'[k] = past[k]
    BY <1>0, <2>4
  <2>6. QED BY <2>1, <2>2, <2>5
<1>3. CASE UNCHANGED routingVars
  BY <1>1, <1>2, <1>3
     DEF routingVars, FollowsMediation, QueuedOnlyWhenMediated, RefusedOnlyWithoutMediation, WasMediated
<1>4. ASSUME NEW w \in Workers, Working(w) PROVE FollowsMediation'
  <2>1. UNCHANGED past
    BY <1>4, WorkingStays
  <2>2. QueuedOnlyWhenMediated'
    <3>1. CASE UNCHANGED log
      BY <1>1, <3>1 DEF QueuedOnlyWhenMediated, WasMediated
    <3>2. CASE SaveQueued(w)
      <4> DEFINE e == [handling |-> task[w].handling,
                       to |-> KidsOf[task[w].handling.forward][task[w].next],
                       position |-> task[w].next, until |-> Len(past)]
      <4>1. task[w] # Idle /\ task[w].stage = "save" /\ e \in Entry /\ log' = Append(log, e)
        BY <3>2, SaveStep
      <4>2. WasMediated(NextDid(w), task[w].handling.since, past, Len(past))
        BY <4>1 DEF ChecksAreSound
      <4>3. WasMediated(NextOf[e.handling.forward], e.handling.since, past, e.until)
        BY <4>2 DEF NextDid
      <4> HIDE DEF e
      <4>4. ASSUME NEW i \in DOMAIN log'
            PROVE  WasMediated(NextOf[log'[i].handling.forward], log'[i].handling.since, past',
                               log'[i].until)
        <5>1. (i \in DOMAIN log /\ log'[i] = log[i]) \/ log'[i] = e
          BY <1>0, <4>1, <4>4, Appended
        <5>2. QED BY <1>1, <2>1, <4>3, <5>1
      <4>5. QED BY <4>4 DEF QueuedOnlyWhenMediated, WasMediated
    <3>3. QED BY <1>4, <3>1, <3>2, LogGrows
  <2>3. RefusedOnlyWithoutMediation'
    <3>1. \/ refused' = refused
          \/ /\ CheckV2(w) /\ FALSE \in V2Answers(NextDid(w))
             /\ refused' = refused \union {[handling |-> task[w].handling, until |-> Len(past)]}
      BY <1>4
         DEF Working, ReceiveForward, CheckV3, CheckV2, Check, SaveQueued, RouteDone, RouteFails
    <3>2. ASSUME CheckV2(w), FALSE \in V2Answers(NextDid(w))
          PROVE  \E j \in task[w].handling.since .. Len(past) :
                   /\ NextDid(w) \notin past[j].v3
                   /\ \E k \in j .. Len(past) : FALSE \in past[k].v2[NextDid(w)]
      <4>1. task[w] # Idle /\ task[w].stage = "v2"
        BY <3>2, AtStage DEF CheckV2, Check
      <4>2. task[w].handling.since \in 1 .. Len(past) /\ NextDid(w) \in DIDs
        BY <4>1, TaskType DEF ChecksAreSound, HandlingOK
      <4>3. FALSE \in past[Len(past)].v2[NextDid(w)]
        BY <3>2, <4>2, FoundNow
      <4>4. PICK j \in task[w].handling.since .. Len(past) : NextDid(w) \notin past[j].v3
        BY <4>1 DEF ChecksAreSound, WasNotInV3
      <4>5. Len(past) \in j .. Len(past)
        BY <1>0, <4>2, <4>4
      <4>6. QED BY <4>3, <4>4, <4>5
    <3>3. ASSUME NEW r \in refused'
          PROVE  \E j \in r.handling.since .. r.until :
                   /\ NextOf[r.handling.forward] \notin past'[j].v3
                   /\ \E k \in j .. r.until : FALSE \in past'[k].v2[NextOf[r.handling.forward]]
      <4>1. CASE r \in refused
        BY <1>2, <4>1
      <4>2. CASE /\ CheckV2(w) /\ FALSE \in V2Answers(NextDid(w))
                 /\ r = [handling |-> task[w].handling, until |-> Len(past)]
        BY <2>1, <3>2, <4>2 DEF NextDid
      <4>3. QED BY <3>1, <3>3, <4>1, <4>2
    <3>4. QED BY <3>3 DEF RefusedOnlyWithoutMediation
  <2>4. QED BY <2>2, <2>3 DEF FollowsMediation
<1>5. QED BY <1>3, <1>4, OneWorks

\* The entries of the log before i that are of the same handling.
Before(i) == {j \in 1 .. i - 1 : log[j].handling = log[i].handling}

QueuedRight(i) ==
  /\ log[i].position \in DOMAIN KidsOf[log[i].handling.forward]
  /\ log[i].to = KidsOf[log[i].handling.forward][log[i].position]
  /\ \A j \in Before(i) : log[j].position < log[i].position
  /\ log[i].position = 1 \/ \E j \in Before(i) : log[j].position = log[i].position - 1

LEMMA QueuedStep ==
  ASSUME IInv, Next
  PROVE  QueuedInFull'
<1> USE DEF IInv
<1>0. log \in Seq(Entry) /\ DOMAIN log = 1 .. Len(log) /\ Len(log) \in Nat
  BY DEF TypeOK
<1>1. \A i \in DOMAIN log : QueuedRight(i)
  BY DEF QueuedInFull, QueuedRight, Before
<1>2. CASE UNCHANGED routingVars
  BY <1>2 DEF routingVars, QueuedInFull
<1>3. ASSUME NEW w \in Workers, Working(w) PROVE QueuedInFull'
  <2> DEFINE e == [handling |-> task[w].handling,
                   to |-> KidsOf[task[w].handling.forward][task[w].next],
                   position |-> task[w].next, until |-> Len(past)]
  <2>1. CASE SaveQueued(w)
    <3>1. /\ task[w] # Idle /\ task[w].stage = "save"
          /\ task[w].next \in 1 .. Len(KidsOf[task[w].handling.forward]) /\ task[w].next \in Nat
          /\ e \in Entry
          /\ log' = Append(log, e)
      BY <2>1, SaveStep
    <3>2. e.handling = task[w].handling /\ e.position = task[w].next
          /\ e.to = KidsOf[task[w].handling.forward][task[w].next]
      OBVIOUS
    <3> HIDE DEF e
    <3>3. /\ DOMAIN log' = DOMAIN log \union {Len(log) + 1}
          /\ \A i \in DOMAIN log : log'[i] = log[i]
          /\ log'[Len(log) + 1] = e
      BY <1>0, <3>1, Appended
    <3>4. ASSUME NEW i \in DOMAIN log PROVE QueuedRight(i)'
      <4>1. \A j \in 1 .. i - 1 : log'[j] = log[j]
        BY <1>0, <3>3, <3>4
      <4>2. Before(i)' = Before(i) /\ log'[i] = log[i] /\ \A j \in Before(i) : log'[j] = log[j]
        BY <3>3, <4>1 DEF Before
      <4>3. QED BY <1>1, <4>2 DEF QueuedRight
    <3>5. ASSUME NEW n \in DOMAIN log', n \notin DOMAIN log PROVE QueuedRight(n)'
      <4>0. n = Len(log) + 1 /\ log'[n] = e
        BY <3>3, <3>5
      <4>1. \A j \in DOMAIN log : log[j].handling = task[w].handling =>
                                 log[j].position < task[w].next
        BY <3>1 DEF TasksAreSound, QueuedBefore
      <4>2. task[w].next > 1 => \E j \in DOMAIN log : /\ log[j].handling = task[w].handling
                                                     /\ log[j].position = task[w].next - 1
        BY <3>1 DEF TasksAreSound, QueuedBefore
      <4>3. Before(n)' = {j \in DOMAIN log : log[j].handling = task[w].handling}
        BY <1>0, <3>2, <3>3, <4>0 DEF Before
      <4>4. task[w].next \in DOMAIN KidsOf[task[w].handling.forward]
        BY <3>1, TaskType
      <4>5. \A j \in Before(n)' : log'[j].position < task[w].next
        BY <3>3, <4>1, <4>3
      <4>6. task[w].next = 1 \/ \E j \in Before(n)' : log'[j].position = task[w].next - 1
        BY <3>1, <3>3, <4>2, <4>3
      <4>7. QED BY <3>2, <4>0, <4>4, <4>5, <4>6 DEF QueuedRight
    <3>6. ASSUME NEW h \in finished'
          PROVE  \E i \in DOMAIN log' : /\ log'[i].handling = h
                                        /\ log'[i].position = Len(KidsOf[h.forward])
      <4>1. h \in finished
        BY <2>1, <3>6 DEF SaveQueued
      <4>2. QED BY <3>3, <4>1 DEF QueuedInFull
    <3>7. \A i \in DOMAIN log' : QueuedRight(i)'
      BY <3>3, <3>4, <3>5
    <3>8. QED BY <3>6, <3>7 DEF QueuedInFull, QueuedRight, Before
  <2>2. CASE RouteDone(w)
    <3>1. /\ task[w] # Idle /\ task[w].stage = "save"
          /\ task[w].next > Len(KidsOf[task[w].handling.forward])
          /\ log' = log /\ finished' = finished \union {task[w].handling}
      BY <2>2, AtStage DEF RouteDone
    <3>2. Len(KidsOf[task[w].handling.forward]) \in Nat /\ Len(KidsOf[task[w].handling.forward]) > 0
      BY <3>1, TaskType
    <3>3. task[w].next \in 1 .. Len(KidsOf[task[w].handling.forward]) + 1
      BY <3>1 DEF TasksAreSound, QueuedBefore
    <3>4. task[w].next - 1 = Len(KidsOf[task[w].handling.forward]) /\ task[w].next > 1
      BY <3>1, <3>2, <3>3
    <3>5. \E i \in DOMAIN log : /\ log[i].handling = task[w].handling
                                /\ log[i].position = Len(KidsOf[task[w].handling.forward])
      BY <3>1, <3>4 DEF TasksAreSound, QueuedBefore
    <3>6. QED BY <3>1, <3>5 DEF QueuedInFull
  <2>3. CASE UNCHANGED <<log, finished>>
    BY <2>3 DEF QueuedInFull
  <2>4. QED
    BY <1>3, <2>1, <2>2, <2>3 DEF Working, ReceiveForward, CheckV3, CheckV2, Check, RouteFails
<1>4. QED BY <1>2, <1>3, OneWorks

LEMMA IInvStep == IInv /\ [Next]_vars => IInv'
<1> SUFFICES ASSUME IInv, [Next]_vars PROVE IInv'
  OBVIOUS
<1>1. TypeOK' /\ HistoryIsCurrent'
  BY TypeStep
<1>2. CASE Next
  BY <1>1, <1>2, ChecksStep, TasksStep, RunsStep, UntilsStep, FollowsStep, QueuedStep DEF IInv
<1>3. CASE UNCHANGED vars
  <2>1. ChecksAreSound' /\ TasksAreSound' /\ RunsAreDistinct' /\ UntilsAreOver'
    BY <1>3 DEF IInv, vars, routingVars, ChecksAreSound, TasksAreSound, RunsAreDistinct, UntilsAreOver,
                HandlingOK, NextDid, QueuedBefore
  <2>2. FollowsMediation' /\ QueuedInFull'
    BY <1>3 DEF IInv, vars, routingVars, FollowsMediation, QueuedOnlyWhenMediated,
                RefusedOnlyWithoutMediation, QueuedInFull
  <2>3. QED BY <1>1, <2>1, <2>2 DEF IInv
<1>4. QED BY <1>2, <1>3

LEMMA Invariance == Spec => []IInv
  BY InitIInv, IInvStep, PTL DEF Spec

------------------------------------------------------------------------------
(* The theorems                                                            *)

(***************************************************************************)
(* Every variable of the routing handler keeps its type: no handling is    *)
(* numbered beyond the arrivals and no copy is saved past the last         *)
(* recipient (saveMessageForRecipients).                                   *)
(***************************************************************************)
THEOREM TypeCorrect == Spec => []TypeOK
<1>1. IInv => TypeOK
  BY DEF IInv
<1>2. QED BY <1>1, Invariance, PTL

(***************************************************************************)
(* However grants, denials, registrations and withdrawals interleave with  *)
(* the two awaited checks of routing-message-handler.ts, a message is      *)
(* queued only for a DID that was mediated while its forward was handled,  *)
(* and a forward is refused only when version 3 did not grant mediation at *)
(* one instant of the handling and version 2 did not at a later one.       *)
(***************************************************************************)
THEOREM RoutingFollowsMediation == Spec => []FollowsMediation
<1>1. IInv => FollowsMediation
  BY DEF IInv
<1>2. QED BY <1>1, Invariance, PTL

(***************************************************************************)
(* Handlings of any number of forwards interleave their saves, and each    *)
(* still queues its own recipients, in order, once each, and all of them   *)
(* when it returns.                                                        *)
(***************************************************************************)
THEOREM RoutingQueuesInFull == Spec => []QueuedInFull
<1>1. IInv => QueuedInFull
  BY DEF IInv
<1>2. QED BY <1>1, Invariance, PTL


------------------------------------------------------------------------------
(* JSON-LD suites (LdSuites): the key that was asked for signs, what was     *)
(* signed verifies, and the turns that the suites take at a document do not  *)
(* get into each other's way.                                                *)

LEMMA ElementsInSet ==
  ASSUME NEW S, NEW s \in Seq(S)
  PROVE  Elements(s) \subseteq S
BY ElementOfSeq DEF Elements

LEMMA AppendedElements ==
  ASSUME NEW S, NEW s \in Seq(S), NEW e \in S
  PROVE  Append(s, e) \in Seq(S) /\ Elements(Append(s, e)) = Elements(s) \union {e}
<1>1. /\ Append(s, e) \in Seq(S)
      /\ DOMAIN s = 1 .. Len(s) /\ DOMAIN Append(s, e) = 1 .. Len(s) + 1 /\ Len(s) \in Nat
      /\ Append(s, e)[Len(s) + 1] = e
      /\ \A j \in 1 .. Len(s) : Append(s, e)[j] = s[j]
  OBVIOUS
<1>2. QED BY <1>1 DEF Elements

\* What the function in Distinct is, and that there is one
IsDistinct(f, s, n) ==
  f = [i \in 0 .. n |-> IF i = 0 THEN <<>>
                 ELSE IF Ld!Contains(f[i - 1], s[i]) THEN f[i - 1] ELSE Append(f[i - 1], s[i])]

LEMMA DistinctExists ==
  ASSUME NEW s, NEW n \in Nat
  PROVE  \E f : IsDistinct(f, s, n)
<1> DEFINE T == {m \in Nat : ~ \E f : IsDistinct(f, s, m)}
<1>1. SUFFICES ASSUME T # {} PROVE FALSE
  OBVIOUS
<1>2. PICK m \in T : \A k \in T : m <= k
  <2> HIDE DEF T
  <2>1. T \in SUBSET Nat BY DEF T
  <2>2. QED BY <1>1, <2>1, Least
<1>3. CASE m = 0
  <2> DEFINE f == [i \in 0 .. 0 |-> <<>>]
  <2>1. IsDistinct(f, s, 0)
    BY DEF IsDistinct
  <2>2. QED BY <2>1, <1>3, <1>2
<1>4. CASE m > 0
  <2>1. m - 1 \in Nat /\ m - 1 \notin T
    BY <1>2, <1>4
  <2>2. PICK f : IsDistinct(f, s, m - 1)
    BY <2>1
  <2> DEFINE e == IF Ld!Contains(f[m - 1], s[m]) THEN f[m - 1] ELSE Append(f[m - 1], s[m])
             g == [i \in 0 .. m |-> IF i = m THEN e ELSE f[i]]
  <2>3. \A i \in 0 .. m : g[i] = IF i = 0 THEN <<>>
                 ELSE IF Ld!Contains(g[i - 1], s[i]) THEN g[i - 1] ELSE Append(g[i - 1], s[i])
    <3> TAKE i \in 0 .. m
    <3>1. \A j \in 0 .. m - 1 : f[j] = IF j = 0 THEN <<>>
                 ELSE IF Ld!Contains(f[j - 1], s[j]) THEN f[j - 1] ELSE Append(f[j - 1], s[j])
      BY <2>1, <2>2 DEF IsDistinct
    <3>2. CASE i = m
      <4>1. g[m] = e /\ g[m - 1] = f[m - 1]
        BY <1>4
      <4>2. QED BY <4>1, <3>2, <1>4
    <3>3. CASE i # m
      <4>1. i \in 0 .. m - 1
        BY <3>3, <1>2
      <4>2. g[i] = f[i] /\ (i # 0 => g[i - 1] = f[i - 1])
        BY <4>1, <3>3, <1>2
      <4>3. QED BY <4>1, <4>2, <3>1
    <3>4. QED BY <3>2, <3>3
  <2>4. IsDistinct(g, s, m)
    <3> HIDE DEF e
    <3>1. g = [i \in 0 .. m |-> g[i]] OBVIOUS
    <3> HIDE DEF g
    <3>2. QED BY <2>3, <3>1 DEF IsDistinct
  <2>5. QED BY <2>4, <1>2
<1>5. QED BY <1>2, <1>3, <1>4

LEMMA DistinctOfPrefixes ==
  ASSUME NEW S, NEW s \in Seq(S), NEW f, IsDistinct(f, s, Len(s))
  PROVE  \A i \in 0 .. Len(s) : f[i] \in Seq(S) /\ Elements(f[i]) = Firsts(s, i)
<1> DEFINE Right(i) == f[i] \in Seq(S) /\ Elements(f[i]) = Firsts(s, i)
           T == {i \in 0 .. Len(s) : ~ Right(i)}
<1>1. SUFFICES ASSUME T # {} PROVE FALSE
  OBVIOUS
<1>2. PICK m \in T : \A k \in T : m <= k
  <2> HIDE DEF T
  <2>1. T \in SUBSET Nat BY DEF T
  <2>2. QED BY <1>1, <2>1, Least
<1>3. /\ m \in 0 .. Len(s)
      /\ f[m] = IF m = 0 THEN <<>>
                ELSE IF Ld!Contains(f[m - 1], s[m]) THEN f[m - 1] ELSE Append(f[m - 1], s[m])
  BY DEF IsDistinct
<1>4. m # 0
  <2>1. ASSUME m = 0 PROVE Right(m)
    BY <2>1, <1>3 DEF Elements, Firsts
  <2>2. QED BY <2>1
<1>5. m - 1 \in 0 .. Len(s) /\ Right(m - 1)
  BY <1>2, <1>3, <1>4
<1>6. s[m] \in S /\ Firsts(s, m) = Firsts(s, m - 1) \union {s[m]}
  BY <1>3, <1>4 DEF Firsts
<1>7. PICK g : g = f[m - 1]
  OBVIOUS
<1>8. g \in Seq(S) /\ Elements(g) = Firsts(s, m - 1) /\ DOMAIN g = 1 .. Len(g)
  BY <1>5, <1>7
<1>9. CASE Ld!Contains(g, s[m])
  <2>1. s[m] \in Elements(g)
    BY <1>8, <1>9 DEF Ld!Contains, Elements
  <2>2. QED BY <1>2, <1>3, <1>4, <1>6, <1>7, <1>8, <1>9, <2>1
<1>10. CASE ~Ld!Contains(g, s[m])
  <2>1. f[m] = Append(g, s[m])
    BY <1>3, <1>4, <1>7, <1>10
  <2>2. Right(m)
    BY <1>6, <1>8, <2>1, AppendedElements
  <2>3. QED BY <1>2, <2>2
<1>11. QED BY <1>9, <1>10

LEMMA DistinctElements ==
  ASSUME NEW S, NEW s \in Seq(S)
  PROVE  Ld!Distinct(s) \in Seq(S) /\ Elements(Ld!Distinct(s)) = Elements(s)
<1> DEFINE f == CHOOSE g : IsDistinct(g, s, Len(s))
<1>1. IsDistinct(f, s, Len(s))
  <2>1. Len(s) \in Nat
    OBVIOUS
  <2>2. \E g : IsDistinct(g, s, Len(s))
    BY <2>1, DistinctExists
  <2>3. QED BY <2>2
<1>2. Ld!Distinct(s) = f[Len(s)]
  BY DEF Ld!Distinct, IsDistinct
<1> HIDE DEF f
<1>3. Len(s) \in 0 .. Len(s) /\ Elements(s) = Firsts(s, Len(s))
  BY DEF Elements, Firsts
<1>4. f[Len(s)] \in Seq(S) /\ Elements(f[Len(s)]) = Firsts(s, Len(s))
  BY <1>1, <1>3, DistinctOfPrefixes
<1>5. QED BY <1>2, <1>3, <1>4

------------------------------------------------------------------------------
(* What getAllSignatureSuites holds: the suites that are installed.        *)

SuiteWords == {"Secp256k1", "Ed25519", "EcdsaSecp256k1RecoveryMethod2020", "Ed25519VerificationKey2018",
               "Ed25519VerificationKey2020", "JsonWebKey2020"}

LEMMA ShortSequences ==
  ASSUME NEW S, NEW x \in S, NEW y \in S
  PROVE  <<x>> \in Seq(S) /\ <<x>> # <<>> /\ <<x, y>> \in Seq(S) /\ <<x, y>> # <<>>
<1>1. <<x>> \in Seq(S) /\ <<x, y>> \in Seq(S)
  OBVIOUS
<1>2. Len(<<x>>) = 1 /\ Len(<<x, y>>) = 2 /\ Len(<<>>) = 0
  OBVIOUS
<1>3. QED BY <1>1, <1>2

LEMMA AdaptersHaveTypes ==
  ASSUME NEW s \in Ld!Adapters
  PROVE  s.keyType \in SuiteWords /\ s.types \in Seq(SuiteWords) /\ s.types # <<>>
<1>3. s \in {Ld!EcdsaRecovery2020, Ld!Ed25519Of2018, Ld!Ed25519Of2020, Ld!JsonWebSignature2020}
  BY DEF Ld!Adapters
<1>4. CASE s = Ld!EcdsaRecovery2020
  <2>1. s.keyType \in SuiteWords
    BY <1>4 DEF Ld!Suite, Ld!EcdsaRecovery2020, SuiteWords
  <2>2. PICK x \in SuiteWords, y \in SuiteWords : s.types = <<x>> \/ s.types = <<x, y>>
    BY <1>4 DEF Ld!Suite, Ld!EcdsaRecovery2020, SuiteWords
  <2>3. QED BY <2>1, <2>2, ShortSequences
<1>5. CASE s = Ld!Ed25519Of2018
  <2>1. s.keyType \in SuiteWords
    BY <1>5 DEF Ld!Suite, Ld!Ed25519Of2018, SuiteWords
  <2>2. PICK x \in SuiteWords, y \in SuiteWords : s.types = <<x>> \/ s.types = <<x, y>>
    BY <1>5 DEF Ld!Suite, Ld!Ed25519Of2018, SuiteWords
  <2>3. QED BY <2>1, <2>2, ShortSequences
<1>6. CASE s = Ld!Ed25519Of2020
  <2>1. s.keyType \in SuiteWords
    BY <1>6 DEF Ld!Suite, Ld!Ed25519Of2020, SuiteWords
  <2>2. PICK x \in SuiteWords, y \in SuiteWords : s.types = <<x>> \/ s.types = <<x, y>>
    BY <1>6 DEF Ld!Suite, Ld!Ed25519Of2020, SuiteWords
  <2>3. QED BY <2>1, <2>2, ShortSequences
<1>7. CASE s = Ld!JsonWebSignature2020
  <2>1. s.keyType \in SuiteWords
    BY <1>7 DEF Ld!Suite, Ld!JsonWebSignature2020, SuiteWords
  <2>2. PICK x \in SuiteWords, y \in SuiteWords : s.types = <<x>> \/ s.types = <<x, y>>
    BY <1>7 DEF Ld!Suite, Ld!JsonWebSignature2020, SuiteWords
  <2>3. QED BY <2>1, <2>2, ShortSequences
<1>8. QED BY <1>3, <1>4, <1>5, <1>6, <1>7

LEMMA SequenceOf ==
  ASSUME NEW S, NEW n \in Nat, NEW f, f = [i \in 1 .. n |-> f[i]], \A i \in 1 .. n : f[i] \in S
  PROVE  f \in Seq(S) /\ DOMAIN f = 1 .. n /\ Len(f) = n
<1>1. f \in [1 .. n -> S]
  OBVIOUS
<1>2. QED BY <1>1, SeqDef

LEMMA SuitesForAre ==
  ASSUME NEW installed \in Seq(Ld!Adapters), NEW keyType, NEW type
  PROVE  /\ Ld!SuitesFor(installed, keyType, type) \in Seq(Ld!Adapters)
         /\ Elements(Ld!SuitesFor(installed, keyType, type)) =
              {s \in Elements(installed) : s.keyType = keyType /\ Ld!Contains(s.types, type)}
<1> DEFINE gone == {s \in Ld!Adapters : s.keyType # keyType \/ ~Ld!Contains(s.types, type)}
           found == Ld!SuitesFor(installed, keyType, type)
<1>1. found = Without(installed, gone)
  <2>1. Ld!Without(installed, gone) = Without(installed, gone)
    BY DEF Ld!Without, Without
  <2>2. QED BY <2>1 DEF Ld!SuitesFor
<1> HIDE DEF gone, found
<1>2. found \in Seq(Ld!Adapters) /\ Elements(found) = Elements(installed) \ gone
  BY <1>1, WithoutElements
<1>3. Elements(installed) \subseteq Ld!Adapters
  BY ElementsInSet
<1>4. Elements(installed) \ gone = {s \in Elements(installed) : s.keyType = keyType /\ Ld!Contains(s.types, type)}
  BY <1>3 DEF gone
<1>5. QED BY <1>2, <1>4 DEF found

LEMMA SuitesFlattened ==
  ASSUME NEW S, NEW seqs \in Seq(Seq(S))
  PROVE  /\ Ld!FlattenSeq(seqs) \in Seq(S)
         /\ Elements(Ld!FlattenSeq(seqs)) = UNION {Elements(seqs[i]) : i \in DOMAIN seqs}
<1>1. Ld!FlattenSeq(seqs) = Flat(seqs)
  BY DEF Ld!FlattenSeq, Flat, IsFlat
<1>2. QED BY <1>1, FlatElements

LEMMA TypesOfAre ==
  ASSUME NEW installed \in Seq(Ld!Adapters), NEW keyType
  PROVE  /\ Ld!TypesOf(installed, keyType) \in Seq(SuiteWords)
         /\ Elements(Ld!TypesOf(installed, keyType)) =
              UNION {Elements(s.types) : s \in {s \in Elements(installed) : s.keyType = keyType}}
<1> DEFINE each == [i \in DOMAIN installed |-> IF installed[i].keyType = keyType THEN installed[i].types ELSE <<>>]
<1>1. DOMAIN installed = 1 .. Len(installed) /\ Len(installed) \in Nat
  OBVIOUS
<1>2. \A i \in DOMAIN installed : installed[i] \in Ld!Adapters
  BY ElementOfSeq
<1>3. \A i \in DOMAIN installed : each[i] \in Seq(SuiteWords)
  <2>1. <<>> \in Seq(SuiteWords)
    OBVIOUS
  <2>2. ASSUME NEW i \in DOMAIN installed PROVE each[i] \in Seq(SuiteWords)
    <3>1. installed[i].types \in Seq(SuiteWords)
      BY <1>2, AdaptersHaveTypes
    <3>2. QED BY <2>1, <3>1
  <2>3. QED BY <2>2
<1>4. \A i \in DOMAIN installed : each[i] = IF installed[i].keyType = keyType THEN installed[i].types ELSE <<>>
  OBVIOUS
<1>5. each \in Seq(Seq(SuiteWords)) /\ DOMAIN each = DOMAIN installed
  <2>1. each = [i \in 1 .. Len(installed) |-> each[i]]
    BY <1>1
  <2> HIDE DEF each
  <2>2. QED BY <1>1, <1>3, <2>1, SequenceOf
<1>6. Ld!TypesOf(installed, keyType) = Ld!Distinct(Ld!FlattenSeq(each))
  BY DEF Ld!TypesOf
<1> HIDE DEF each
<1>7. PICK flat : flat = Ld!FlattenSeq(each)
  OBVIOUS
<1>8. flat \in Seq(SuiteWords) /\ Elements(flat) = UNION {Elements(each[i]) : i \in DOMAIN each}
  BY <1>5, <1>7, SuitesFlattened
<1>9. Ld!Distinct(flat) \in Seq(SuiteWords) /\ Elements(Ld!Distinct(flat)) = Elements(flat)
  BY <1>8, DistinctElements
<1>10. Elements(<<>>) = {}
  BY DEF Elements
<1>11. UNION {Elements(each[i]) : i \in DOMAIN each}
         = UNION {Elements(s.types) : s \in {s \in Elements(installed) : s.keyType = keyType}}
  <2>1. ASSUME NEW x, NEW i \in DOMAIN each, x \in Elements(each[i])
        PROVE  \E s \in Elements(installed) : s.keyType = keyType /\ x \in Elements(s.types)
    BY <1>4, <1>5, <1>10, <2>1 DEF Elements
  <2>2. ASSUME NEW x, NEW s \in Elements(installed), s.keyType = keyType, x \in Elements(s.types)
        PROVE  \E i \in DOMAIN each : x \in Elements(each[i])
    <3>1. PICK i \in DOMAIN installed : installed[i] = s
      BY DEF Elements
    <3>2. QED BY <1>4, <1>5, <2>2, <3>1
  <2>3. QED BY <2>1, <2>2
<1>12. QED BY <1>6, <1>7, <1>8, <1>9, <1>11

OfKeyType(installed, t) ==
  Ld!FlattenSeq([i \in DOMAIN Ld!TypesOf(installed, t) |-> Ld!SuitesFor(installed, t, Ld!TypesOf(installed, t)[i])])

LEMMA OfKeyTypeAre ==
  ASSUME NEW installed \in Seq(Ld!Adapters), NEW t
  PROVE  /\ OfKeyType(installed, t) \in Seq(Ld!Adapters)
         /\ Elements(OfKeyType(installed, t)) = {s \in Elements(installed) : s.keyType = t}
<1>1. PICK types : types = Ld!TypesOf(installed, t)
  OBVIOUS
<1>2. /\ types \in Seq(SuiteWords) /\ DOMAIN types = 1 .. Len(types) /\ Len(types) \in Nat
      /\ Elements(types) = UNION {Elements(s.types) : s \in {s \in Elements(installed) : s.keyType = t}}
  BY <1>1, TypesOfAre
<1> DEFINE each == [i \in DOMAIN types |-> Ld!SuitesFor(installed, t, types[i])]
<1>3. \A i \in DOMAIN types :
        /\ each[i] \in Seq(Ld!Adapters)
        /\ Elements(each[i]) = {s \in Elements(installed) : s.keyType = t /\ Ld!Contains(s.types, types[i])}
  BY SuitesForAre
<1>4. each \in Seq(Seq(Ld!Adapters)) /\ DOMAIN each = DOMAIN types
  <2>1. each = [i \in 1 .. Len(types) |-> each[i]]
    BY <1>2
  <2> HIDE DEF each
  <2>2. QED BY <1>2, <1>3, <2>1, SequenceOf
<1>5. OfKeyType(installed, t) = Ld!FlattenSeq(each)
  BY <1>1 DEF OfKeyType
<1> HIDE DEF each
<1>6. /\ Ld!FlattenSeq(each) \in Seq(Ld!Adapters)
      /\ Elements(Ld!FlattenSeq(each)) = UNION {Elements(each[i]) : i \in DOMAIN each}
  BY <1>4, SuitesFlattened
<1>7. ASSUME NEW s \in Elements(installed), s.keyType = t
      PROVE  \E i \in DOMAIN each : s \in Elements(each[i])
  <2>1. s \in Ld!Adapters
    BY ElementsInSet
  <2>2. PICK type : type = s.types[1]
    OBVIOUS
  <2>3. /\ s.types \in Seq(SuiteWords) /\ 1 \in DOMAIN s.types /\ DOMAIN s.types = 1 .. Len(s.types)
    BY <2>1, AdaptersHaveTypes
  <2>4. type \in Elements(s.types) /\ Ld!Contains(s.types, type)
    BY <2>2, <2>3 DEF Elements, Ld!Contains
  <2>5. type \in Elements(types)
    BY <1>2, <1>7, <2>4
  <2>6. PICK i \in DOMAIN types : types[i] = type
    BY <2>5 DEF Elements
  <2>7. QED BY <1>3, <1>4, <1>7, <2>4, <2>6
<1>8. UNION {Elements(each[i]) : i \in DOMAIN each} = {s \in Elements(installed) : s.keyType = t}
  BY <1>3, <1>4, <1>7
<1>9. QED BY <1>5, <1>6, <1>8

LEMMA AllSuitesAre ==
  ASSUME NEW installed \in Seq(Ld!Adapters)
  PROVE  /\ Ld!AllSuites(installed) \in Seq(Ld!Adapters)
         /\ Elements(Ld!AllSuites(installed)) = Elements(installed)
<1> DEFINE each == [i \in DOMAIN installed |-> installed[i].keyType]
<1>1. DOMAIN installed = 1 .. Len(installed) /\ Len(installed) \in Nat
  OBVIOUS
<1>2. \A i \in DOMAIN installed : installed[i] \in Ld!Adapters
  BY ElementOfSeq
<1>3. \A i \in DOMAIN installed : each[i] \in SuiteWords /\ each[i] = installed[i].keyType
  BY <1>2, AdaptersHaveTypes
<1>4. each \in Seq(SuiteWords) /\ DOMAIN each = DOMAIN installed
  <2>1. each = [i \in 1 .. Len(installed) |-> each[i]]
    BY <1>1
  <2> HIDE DEF each
  <2>2. QED BY <1>1, <1>3, <2>1, SequenceOf
<1>5. PICK keyTypes : keyTypes = Ld!Distinct(each)
  OBVIOUS
<1> DEFINE groups == [i \in DOMAIN keyTypes |-> OfKeyType(installed, keyTypes[i])]
<1>6. Ld!AllSuites(installed) = Ld!FlattenSeq(groups)
  BY <1>5 DEF Ld!AllSuites, OfKeyType
<1>7. \A i \in DOMAIN keyTypes :
        /\ groups[i] \in Seq(Ld!Adapters)
        /\ Elements(groups[i]) = {s \in Elements(installed) : s.keyType = keyTypes[i]}
  BY OfKeyTypeAre
<1> HIDE DEF each
<1>8. keyTypes \in Seq(SuiteWords) /\ Elements(keyTypes) = Elements(each)
  BY <1>4, <1>5, DistinctElements
<1>9. groups \in Seq(Seq(Ld!Adapters)) /\ DOMAIN groups = DOMAIN keyTypes
  <2>1. DOMAIN keyTypes = 1 .. Len(keyTypes) /\ Len(keyTypes) \in Nat
    BY <1>8
  <2>2. groups = [i \in 1 .. Len(keyTypes) |-> groups[i]]
    BY <2>1
  <2> HIDE DEF groups
  <2>3. QED BY <1>7, <2>1, <2>2, SequenceOf
<1> HIDE DEF groups
<1>10. /\ Ld!FlattenSeq(groups) \in Seq(Ld!Adapters)
       /\ Elements(Ld!FlattenSeq(groups)) = UNION {Elements(groups[i]) : i \in DOMAIN groups}
  BY <1>9, SuitesFlattened
<1>11. ASSUME NEW s \in Elements(installed) PROVE \E i \in DOMAIN groups : s \in Elements(groups[i])
  <2>1. PICK i \in DOMAIN installed : installed[i] = s
    BY DEF Elements
  <2>2. s.keyType \in Elements(keyTypes)
    BY <1>3, <1>4, <1>8, <2>1 DEF Elements
  <2>3. PICK j \in DOMAIN keyTypes : keyTypes[j] = s.keyType
    BY <2>2 DEF Elements
  <2>4. QED BY <1>7, <1>9, <2>3
<1>12. UNION {Elements(groups[i]) : i \in DOMAIN groups} = Elements(installed)
  BY <1>7, <1>9, <1>11
<1>13. QED BY <1>6, <1>10, <1>12

------------------------------------------------------------------------------
(* Documents, after some suites had their turns at them                    *)

Recovery == "EcdsaSecp256k1RecoverySignature2020"
Of2020 == "Ed25519Signature2020"

IsMethod(m) ==
  m = [name |-> m.name, kid |-> m.kid, type |-> m.type,
       account |-> m.account, context |-> m.context, multibase |-> m.multibase]

\* A document as resolvers make them, and as the suites leave it
IsDocument(d) ==
  /\ d = [ethr |-> d.ethr, contexts |-> d.contexts, methods |-> d.methods]
  /\ \E n \in Nat : d.methods = [i \in 1 .. n |-> d.methods[i]]
  /\ \A i \in DOMAIN d.methods : IsMethod(d.methods[i])
  /\ \A i, j \in DOMAIN d.methods : d.methods[i].name = d.methods[j].name => i = j
  /\ \A i \in DOMAIN d.methods :
       /\ d.methods[i].type = "EcdsaSecp256k1RecoveryMethod2020" =>
            d.methods[i].account = "chain:address" \/ (d.ethr /\ d.methods[i].account = "address@chain")
       /\ d.methods[i].type = "Ed25519VerificationKey2020" => d.methods[i].account = "none"

Fixed(contexts) ==
  LET linked == IF "legacy" \in contexts THEN (contexts \ {"legacy"}) \union {"recovery/v2"} ELSE contexts
  IN  IF {"security/v3-unstable", "recovery/v2"} \subseteq linked
      THEN linked \ {"security/v3-unstable"} ELSE linked

\* A method, and a document, after the suites of these proofs had their turn
Turned(m, ethr, had) ==
  [name |-> m.name, kid |-> m.kid, type |-> m.type,
   account |-> IF Recovery \in had /\ ethr /\ m.account = "address@chain" THEN "chain:address" ELSE m.account,
   context |-> IF Of2020 \in had /\ m.type = "Ed25519VerificationKey2020" THEN "ed25519-2020/v1" ELSE m.context,
   multibase |-> IF Of2020 \in had /\ m.type = "Ed25519VerificationKey2020" THEN TRUE ELSE m.multibase]
AfterTurns(d, had) ==
  [ethr |-> d.ethr,
   contexts |-> IF Recovery \in had THEN Fixed(d.contexts) ELSE d.contexts,
   methods |-> [i \in DOMAIN d.methods |-> Turned(d.methods[i], d.ethr, had)]]

LEMMA FixedOnce ==
  ASSUME NEW contexts
  PROVE  /\ Fixed(Fixed(contexts)) = Fixed(contexts)
         /\ "legacy" \notin Fixed(contexts)
         /\ ~({"security/v3-unstable", "recovery/v2"} \subseteq Fixed(contexts))
BY DEF Fixed

LEMMA MethodsTurn ==
  ASSUME NEW m, NEW ethr, NEW T, NEW U
  PROVE  /\ Turned(Turned(m, ethr, T), ethr, U) = Turned(m, ethr, T \union U)
         /\ IsMethod(Turned(m, ethr, T))
         /\ IsMethod(m) => Turned(m, ethr, {}) = m
<1>1. Turned(Turned(m, ethr, T), ethr, U) = Turned(m, ethr, T \union U)
  BY DEF Turned
<1>2. IsMethod(Turned(m, ethr, T))
  BY DEF Turned, IsMethod
<1>3. IsMethod(m) => Turned(m, ethr, {}) = m
  BY DEF Turned, IsMethod
<1>4. QED BY <1>1, <1>2, <1>3

LEMMA SameTurn ==
  ASSUME NEW d, NEW T, NEW U, Recovery \in T <=> Recovery \in U, Of2020 \in T <=> Of2020 \in U
  PROVE  AfterTurns(d, T) = AfterTurns(d, U)
BY DEF AfterTurns, Turned

LEMMA OwnMethodTurned ==
  ASSUME NEW m, NEW ethr, NEW T, Of2020 \in T, m.account = "none"
  PROVE  Turned(m, ethr, T) = Turned(m, ethr, {Of2020})
BY DEF Turned

LEMMA DocumentsTurn ==
  ASSUME NEW d, IsDocument(d), NEW T, NEW U
  PROVE  /\ AfterTurns(AfterTurns(d, T), U) = AfterTurns(d, T \union U)
         /\ IsDocument(AfterTurns(d, T))
         /\ AfterTurns(d, {}) = d
<1>1. PICK e, c, ms : d = [ethr |-> e, contexts |-> c, methods |-> ms]
  BY DEF IsDocument
<1>2. PICK n \in Nat : ms = [i \in 1 .. n |-> ms[i]]
  BY <1>1 DEF IsDocument
<1>3. DOMAIN ms = 1 .. n /\ \A i \in 1 .. n : IsMethod(ms[i])
  BY <1>1, <1>2 DEF IsDocument
<1>4. PICK ts : ts = [i \in 1 .. n |-> Turned(ms[i], e, T)]
  OBVIOUS
<1>5. DOMAIN ts = 1 .. n /\ \A i \in 1 .. n : ts[i] = Turned(ms[i], e, T)
  BY <1>4
<1>6. PICK tc : tc = IF Recovery \in T THEN Fixed(c) ELSE c
  OBVIOUS
<1>7. AfterTurns(d, T) = [ethr |-> e, contexts |-> tc, methods |-> ts]
  BY <1>1, <1>3, <1>4, <1>6 DEF AfterTurns
<1>8. AfterTurns(AfterTurns(d, T), U) = AfterTurns(d, T \union U)
  <2>1. [i \in 1 .. n |-> Turned(ts[i], e, U)] = [i \in 1 .. n |-> Turned(ms[i], e, T \union U)]
    BY <1>5, MethodsTurn
  <2> PICK um : um = [i \in 1 .. n |-> Turned(ts[i], e, U)]
    OBVIOUS
  <2> PICK uc : uc = IF Recovery \in U THEN Fixed(tc) ELSE tc
    OBVIOUS
  <2>2. (IF Recovery \in U THEN Fixed(tc) ELSE tc) = IF Recovery \in T \union U THEN Fixed(c) ELSE c
    BY <1>6, FixedOnce
  <2>3. AfterTurns(AfterTurns(d, T), U)
          = [ethr |-> e, contexts |-> uc, methods |-> um]
    BY <1>5, <1>7 DEF AfterTurns
  <2>4. AfterTurns(d, T \union U)
          = [ethr |-> e, contexts |-> uc, methods |-> um]
    BY <1>1, <1>3, <2>1, <2>2 DEF AfterTurns
  <2>5. QED BY <2>3, <2>4
<1>9. IsDocument(AfterTurns(d, T))
  <2>1. ASSUME NEW i \in 1 .. n PROVE IsMethod(ts[i])
    <3>1. PICK m : m = ms[i]
      OBVIOUS
    <3>2. ts[i] = Turned(m, e, T)
      BY <1>5, <3>1
    <3>3. IsMethod(Turned(m, e, T))
      BY MethodsTurn
    <3>4. QED BY <3>2, <3>3
  <2>2. ts = [i \in 1 .. n |-> ts[i]]
    BY <1>4
  <2>3. \A i \in 1 .. n : /\ ts[i].name = ms[i].name /\ ts[i].type = ms[i].type
                          /\ ts[i].account = IF Recovery \in T /\ e /\ ms[i].account = "address@chain"
                                             THEN "chain:address" ELSE ms[i].account
    <3> TAKE i \in 1 .. n
    <3>1. PICK m : m = ms[i]
      OBVIOUS
    <3>2. ts[i] = Turned(m, e, T)
      BY <1>5, <3>1
    <3>3. QED BY <3>1, <3>2 DEF Turned
  <2>4. \A i, j \in 1 .. n : ts[i].name = ts[j].name => i = j
    BY <1>1, <1>3, <2>3 DEF IsDocument
  <2>5. ASSUME NEW i \in 1 .. n
        PROVE  /\ ts[i].type = "EcdsaSecp256k1RecoveryMethod2020" =>
                    ts[i].account = "chain:address" \/ (e /\ ts[i].account = "address@chain")
               /\ ts[i].type = "Ed25519VerificationKey2020" => ts[i].account = "none"
    BY <1>1, <1>3, <2>3 DEF IsDocument
  <2>6. QED BY <1>5, <1>7, <2>1, <2>2, <2>4, <2>5 DEF IsDocument
<1>10. AfterTurns(d, {}) = d
  <2>1. [i \in 1 .. n |-> Turned(ms[i], e, {})] = [i \in 1 .. n |-> ms[i]]
    BY <1>3, MethodsTurn
  <2>2. QED BY <1>1, <1>2, <1>3, <2>1 DEF AfterTurns
<1>11. QED BY <1>8, <1>9, <1>10

LEMMA RecoveryTurns ==
  ASSUME NEW d, IsDocument(d)
  PROVE  Ld!ForEcdsaRecovery(d) = AfterTurns(d, {Recovery})
<1>1. PICK e, c, ms : d = [ethr |-> e, contexts |-> c, methods |-> ms]
  BY DEF IsDocument
<1>2. PICK new : new = [i \in DOMAIN ms |-> IF e /\ ms[i].account = "address@chain"
                                            THEN [ms[i] EXCEPT !.account = "chain:address"] ELSE ms[i]]
  OBVIOUS
<1>3. Ld!ForEcdsaRecovery(d) = [ethr |-> e, contexts |-> Fixed(c), methods |-> new]
  <2>1. PICK fc : fc = Fixed(c)
    OBVIOUS
  <2>2. [d EXCEPT !.contexts = fc, !.methods = new] = [ethr |-> e, contexts |-> fc, methods |-> new]
    <3>1. PICK x : x = [d EXCEPT !.contexts = fc, !.methods = new]
      OBVIOUS
    <3>2. PICK y : y = [ethr |-> e, contexts |-> fc, methods |-> new]
      OBVIOUS
    <3>3. DOMAIN x = {"ethr", "contexts", "methods"} /\ x.ethr = e /\ x.contexts = fc /\ x.methods = new
      BY <1>1, <3>1
    <3>4. DOMAIN y = {"ethr", "contexts", "methods"} /\ y.ethr = e /\ y.contexts = fc /\ y.methods = new
      BY <3>2
    <3>5. x = [f \in DOMAIN x |-> x[f]] /\ y = [f \in DOMAIN y |-> y[f]]
      BY <3>1, <3>2
    <3>6. QED BY <3>1, <3>2, <3>3, <3>4, <3>5
  <2>3. d.ethr = e /\ d.contexts = c /\ d.methods = ms
    BY <1>1
  <2>4. Ld!ForEcdsaRecovery(d) = [d EXCEPT !.contexts = fc, !.methods = new]
    BY <1>2, <2>1, <2>3 DEF Ld!ForEcdsaRecovery, Fixed
  <2>5. QED BY <2>1, <2>2, <2>4
<1>4. ASSUME NEW i \in DOMAIN ms PROVE new[i] = Turned(ms[i], e, {Recovery})
  <2>1. PICK m : m = ms[i]
    OBVIOUS
  <2>2. PICK v1, v2, v3, v4, v5, v6 :
          m = [name |-> v1, kid |-> v2, type |-> v3, account |-> v4, context |-> v5, multibase |-> v6]
    BY <1>1, <2>1 DEF IsDocument, IsMethod
  <2>3. [m EXCEPT !.account = "chain:address"]
          = [name |-> v1, kid |-> v2, type |-> v3, account |-> "chain:address", context |-> v5, multibase |-> v6]
    BY <2>2
  <2>4. Turned(m, e, {Recovery})
          = [name |-> v1, kid |-> v2, type |-> v3,
             account |-> IF e /\ v4 = "address@chain" THEN "chain:address" ELSE v4, context |-> v5, multibase |-> v6]
    BY <2>2 DEF Turned, Recovery, Of2020
  <2>5. new[i] = IF e /\ v4 = "address@chain" THEN [m EXCEPT !.account = "chain:address"] ELSE m
    <3>1. m.account = v4
      BY <2>2
    <3>2. QED BY <1>2, <2>1, <3>1
  <2>6. QED BY <2>1, <2>2, <2>3, <2>4, <2>5
<1>5. new = [i \in DOMAIN ms |-> Turned(ms[i], e, {Recovery})]
  BY <1>2, <1>4
<1>6. AfterTurns(d, {Recovery}) = [ethr |-> e, contexts |-> Fixed(c), methods |-> new]
  BY <1>1, <1>5 DEF AfterTurns
<1>7. QED BY <1>3, <1>6

LEMMA Of2020Turns ==
  ASSUME NEW d, IsDocument(d)
  PROVE  Ld!Transformed(d) = AfterTurns(d, {Of2020})
<1>1. PICK e, c, ms : d = [ethr |-> e, contexts |-> c, methods |-> ms]
  BY DEF IsDocument
<1>2. PICK new : new = [i \in DOMAIN ms |-> Ld!TransformVerificationMethod(ms[i])]
  OBVIOUS
<1>3. Ld!Transformed(d) = [ethr |-> e, contexts |-> c, methods |-> new]
  BY <1>1, <1>2 DEF Ld!Transformed
<1>4. ASSUME NEW i \in DOMAIN ms PROVE new[i] = Turned(ms[i], e, {Of2020})
  <2>1. PICK m : m = ms[i]
    OBVIOUS
  <2>2. PICK v1, v2, v3, v4, v5, v6 :
          m = [name |-> v1, kid |-> v2, type |-> v3, account |-> v4, context |-> v5, multibase |-> v6]
    BY <1>1, <2>1 DEF IsDocument, IsMethod
  <2>3. [m EXCEPT !.context = "ed25519-2020/v1", !.multibase = TRUE]
          = [name |-> v1, kid |-> v2, type |-> v3, account |-> v4, context |-> "ed25519-2020/v1", multibase |-> TRUE]
    <3>1. ASSUME NEW yes
          PROVE  [m EXCEPT !.context = "ed25519-2020/v1", !.multibase = yes]
                   = [name |-> v1, kid |-> v2, type |-> v3, account |-> v4, context |-> "ed25519-2020/v1", multibase |-> yes]
      <4>1. PICK cv : cv = "ed25519-2020/v1"
        OBVIOUS
      <4>2. PICK x : x = [m EXCEPT !.context = cv, !.multibase = yes]
        OBVIOUS
      <4>3. PICK y : y = [name |-> v1, kid |-> v2, type |-> v3, account |-> v4, context |-> cv, multibase |-> yes]
        OBVIOUS
      <4>4. /\ DOMAIN x = {"name", "kid", "type", "account", "context", "multibase"}
            /\ x.name = v1 /\ x.kid = v2 /\ x.type = v3 /\ x.account = v4 /\ x.context = cv /\ x.multibase = yes
        BY <2>2, <4>2
      <4>5. /\ DOMAIN y = {"name", "kid", "type", "account", "context", "multibase"}
            /\ y.name = v1 /\ y.kid = v2 /\ y.type = v3 /\ y.account = v4 /\ y.context = cv /\ y.multibase = yes
        BY <4>3
      <4>6. x = [f \in DOMAIN x |-> x[f]] /\ y = [f \in DOMAIN y |-> y[f]]
        BY <4>2, <4>3
      <4>7. x = y
        BY <4>4, <4>5, <4>6
      <4>8. QED BY <4>1, <4>2, <4>3, <4>7
    <3>2. QED BY <3>1
  <2>4. CASE v3 = "Ed25519VerificationKey2020"
    <3>1. Turned(m, e, {Of2020})
            = [name |-> v1, kid |-> v2, type |-> v3, account |-> v4, context |-> "ed25519-2020/v1", multibase |-> TRUE]
      BY <2>2, <2>4 DEF Turned, Recovery, Of2020
    <3>2. new[i] = [m EXCEPT !.context = "ed25519-2020/v1", !.multibase = TRUE]
      <4>1. new[i] = Ld!TransformVerificationMethod(m)
        BY <1>2, <2>1
      <4>2. m.type = v3
        BY <2>2
      <4>3. QED BY <2>4, <4>1, <4>2 DEF Ld!TransformVerificationMethod
    <3>3. QED BY <2>1, <2>3, <3>1, <3>2
  <2>5. CASE v3 # "Ed25519VerificationKey2020"
    <3>1. Turned(m, e, {Of2020}) = m
      BY <2>2, <2>5 DEF Turned, Recovery, Of2020
    <3>2. new[i] = m
      <4>1. new[i] = Ld!TransformVerificationMethod(m)
        BY <1>2, <2>1
      <4>2. m.type = v3
        BY <2>2
      <4>3. QED BY <2>5, <4>1, <4>2 DEF Ld!TransformVerificationMethod
    <3>3. QED BY <2>1, <3>1, <3>2
  <2>6. QED BY <2>4, <2>5
<1>5. new = [i \in DOMAIN ms |-> Turned(ms[i], e, {Of2020})]
  BY <1>2, <1>4
<1>6. AfterTurns(d, {Of2020}) = [ethr |-> e, contexts |-> c, methods |-> new]
  BY <1>1, <1>5 DEF AfterTurns, Recovery, Of2020
<1>7. QED BY <1>3, <1>6

\* getDIDComponentById finds a method with the name if there is one, the same
\* whichever suites had their turn.
LEMMA ComponentFound ==
  ASSUME NEW d, IsDocument(d), NEW name
  PROVE  \/ Ld!GetDIDComponentById(d, name) = 0 /\ \A i \in DOMAIN d.methods : d.methods[i].name # name
         \/ /\ Ld!GetDIDComponentById(d, name) \in DOMAIN d.methods \ {0}
            /\ d.methods[Ld!GetDIDComponentById(d, name)].name = name
<1>1. PICK n \in Nat : d.methods = [i \in 1 .. n |-> d.methods[i]]
  BY DEF IsDocument
<1>2. PICK ms : ms = d.methods
  OBVIOUS
<1>3. DOMAIN ms = 1 .. n /\ Len(ms) = n
  <2>1. ms = [i \in 1 .. n |-> ms[i]]
    BY <1>1, <1>2
  <2>2. QED BY <2>1
<1> DEFINE I == {i \in 1 .. Len(ms) : ms[i].name = name}
<1>4. Ld!GetDIDComponentById(d, name) = IF I # {} THEN Ld!Min(I) ELSE 0
  BY <1>2 DEF Ld!GetDIDComponentById, Ld!SelectInSeq
<1>5. CASE I = {}
  BY <1>2, <1>3, <1>4, <1>5
<1>6. CASE I # {}
  <2>1. I \in SUBSET Nat /\ I \subseteq 1 .. n
    BY <1>3
  <2> HIDE DEF I
  <2>2. \E x \in I : \A y \in I : x <= y
    BY <1>6, <2>1, Least
  <2>3. Ld!Min(I) \in I
    BY <2>2 DEF Ld!Min
  <2>4. PICK at : at = Ld!GetDIDComponentById(d, name)
    OBVIOUS
  <2>5. at \in I
    BY <1>4, <1>6, <2>3, <2>4
  <2>6. at \in DOMAIN ms \ {0} /\ ms[at].name = name
    BY <1>3, <2>1, <2>5 DEF I
  <2>7. QED BY <1>2, <2>4, <2>6
<1>7. QED BY <1>5, <1>6

LEMMA ComponentStays ==
  ASSUME NEW d, IsDocument(d), NEW had, NEW name
  PROVE  Ld!GetDIDComponentById(AfterTurns(d, had), name) = Ld!GetDIDComponentById(d, name)
<1>1. PICK n \in Nat : d.methods = [i \in 1 .. n |-> d.methods[i]]
  BY DEF IsDocument
<1>2. PICK ms : ms = d.methods
  OBVIOUS
<1>3. DOMAIN ms = 1 .. n /\ Len(ms) = n
  <2>1. ms = [i \in 1 .. n |-> ms[i]]
    BY <1>1, <1>2
  <2>2. QED BY <2>1
<1>4. PICK ts : ts = [i \in 1 .. n |-> Turned(ms[i], d.ethr, had)]
  OBVIOUS
<1>5. AfterTurns(d, had).methods = ts
  BY <1>2, <1>3, <1>4 DEF AfterTurns
<1>6. Len(ts) = n /\ \A i \in 1 .. n : ts[i].name = ms[i].name
  <2>1. Len(ts) = n /\ DOMAIN ts = 1 .. n
    BY <1>4
  <2>2. ASSUME NEW i \in 1 .. n PROVE ts[i].name = ms[i].name
    <3>1. PICK m : m = ms[i]
      OBVIOUS
    <3>2. ts[i] = Turned(m, d.ethr, had)
      BY <1>4, <3>1
    <3>3. QED BY <3>1, <3>2 DEF Turned
  <2>3. QED BY <2>1, <2>2
<1>7. {i \in 1 .. Len(ts) : ts[i].name = name} = {i \in 1 .. Len(ms) : ms[i].name = name}
  BY <1>3, <1>6
<1>8. QED BY <1>2, <1>5, <1>7 DEF Ld!GetDIDComponentById, Ld!SelectInSeq

\* The method that the suite of 2020 hands out alone
Own(d, name) ==
  /\ Ld!GetDIDComponentById(d, name) # 0
  /\ d.methods[Ld!GetDIDComponentById(d, name)].type = "Ed25519VerificationKey2020"
At(d, name, had) == IF Of2020 \in had /\ Own(d, name) THEN Ld!GetDIDComponentById(d, name) ELSE 0

LEMMA AtStays ==
  ASSUME NEW d, IsDocument(d), NEW T, NEW name, NEW had
  PROVE  (Own(AfterTurns(d, T), name) <=> Own(d, name)) /\ At(AfterTurns(d, T), name, had) = At(d, name, had)
<1>1. PICK at : at = Ld!GetDIDComponentById(d, name)
  OBVIOUS
<1>2. Ld!GetDIDComponentById(AfterTurns(d, T), name) = at
  BY <1>1, ComponentStays
<1>3. ASSUME at # 0 PROVE AfterTurns(d, T).methods[at].type = d.methods[at].type
  <2>1. at \in DOMAIN d.methods
    BY <1>1, <1>3, ComponentFound
  <2>2. PICK m : m = d.methods[at]
    OBVIOUS
  <2>3. AfterTurns(d, T).methods[at] = Turned(m, d.ethr, T)
    BY <2>1, <2>2 DEF AfterTurns
  <2>4. QED BY <2>2, <2>3 DEF Turned
<1>4. Own(AfterTurns(d, T), name) <=> Own(d, name)
  BY <1>1, <1>2, <1>3 DEF Own
<1>5. QED BY <1>1, <1>2, <1>4 DEF At

------------------------------------------------------------------------------
(* What the loader makes of a document                                     *)

IsLoading(f, all, name, d, n) ==
  f = [i \in 0 .. n |-> IF i = 0 THEN [document |-> d, at |-> 0]
                        ELSE Ld!PreDidResolutionModification(all[i], name, f[i - 1])]

LEMMA LoadingExists ==
  ASSUME NEW all, NEW name, NEW d, NEW n \in Nat
  PROVE  \E f : IsLoading(f, all, name, d, n)
<1> DEFINE T == {m \in Nat : ~ \E f : IsLoading(f, all, name, d, m)}
<1>1. SUFFICES ASSUME T # {} PROVE FALSE
  OBVIOUS
<1>2. PICK m \in T : \A k \in T : m <= k
  <2> HIDE DEF T
  <2>1. T \in SUBSET Nat BY DEF T
  <2>2. QED BY <1>1, <2>1, Least
<1>3. CASE m = 0
  <2> DEFINE f == [i \in 0 .. 0 |-> [document |-> d, at |-> 0]]
  <2>1. IsLoading(f, all, name, d, 0)
    BY DEF IsLoading
  <2>2. QED BY <2>1, <1>3, <1>2
<1>4. CASE m > 0
  <2>1. m - 1 \in Nat /\ m - 1 \notin T
    BY <1>2, <1>4
  <2>2. PICK f : IsLoading(f, all, name, d, m - 1)
    BY <2>1
  <2> DEFINE e == Ld!PreDidResolutionModification(all[m], name, f[m - 1])
             g == [i \in 0 .. m |-> IF i = m THEN e ELSE f[i]]
  <2>3. \A i \in 0 .. m : g[i] = IF i = 0 THEN [document |-> d, at |-> 0]
                                 ELSE Ld!PreDidResolutionModification(all[i], name, g[i - 1])
    <3> TAKE i \in 0 .. m
    <3>1. \A j \in 0 .. m - 1 : f[j] = IF j = 0 THEN [document |-> d, at |-> 0]
                                       ELSE Ld!PreDidResolutionModification(all[j], name, f[j - 1])
      BY <2>1, <2>2 DEF IsLoading
    <3>2. CASE i = m
      <4>1. g[m] = e /\ g[m - 1] = f[m - 1]
        BY <1>4
      <4>2. QED BY <4>1, <3>2, <1>4
    <3>3. CASE i # m
      <4>1. i \in 0 .. m - 1
        BY <3>3, <1>2
      <4>2. g[i] = f[i] /\ (i # 0 => g[i - 1] = f[i - 1])
        BY <4>1, <3>3, <1>2
      <4>3. QED BY <4>1, <4>2, <3>1
    <3>4. QED BY <3>2, <3>3
  <2>4. IsLoading(g, all, name, d, m)
    <3> HIDE DEF e
    <3>1. g = [i \in 0 .. m |-> g[i]] OBVIOUS
    <3> HIDE DEF g
    <3>2. QED BY <2>3, <3>1 DEF IsLoading
  <2>5. QED BY <2>4, <1>2
<1>5. QED BY <1>2, <1>3, <1>4

\* What is loaded after the suites of `proofs` were asked in some order: some of
\* them had their turn at the document, all unless there was a method alone.
LoadedBy(l, d, name, proofs) ==
  \E had \in SUBSET proofs :
     /\ l = [document |-> AfterTurns(d, had), at |-> At(d, name, proofs)]
     /\ IF At(d, name, proofs) = 0 THEN AfterTurns(d, had) = AfterTurns(d, proofs) ELSE Of2020 \in had

LEMMA AdaptersAre ==
  ASSUME NEW s \in Ld!Adapters
  PROVE  s.proof \in {Recovery, Of2020, "Ed25519Signature2018", "JsonWebSignature2020"}
BY DEF Ld!Adapters, Ld!Suite, Ld!EcdsaRecovery2020, Ld!Ed25519Of2018, Ld!Ed25519Of2020, Ld!JsonWebSignature2020,
       Recovery, Of2020

LEMMA LoadedStep ==
  ASSUME NEW d, IsDocument(d), NEW name, NEW proofs, NEW l, LoadedBy(l, d, name, proofs), NEW s \in Ld!Adapters
  PROVE  LoadedBy(Ld!PreDidResolutionModification(s, name, l), d, name, proofs \union {s.proof})
<1>1. PICK had \in SUBSET proofs :
         /\ l = [document |-> AfterTurns(d, had), at |-> At(d, name, proofs)]
         /\ IF At(d, name, proofs) = 0 THEN AfterTurns(d, had) = AfterTurns(d, proofs) ELSE Of2020 \in had
  BY DEF LoadedBy
<1>2. PICK more : more = proofs \union {s.proof}
  OBVIOUS
<1>3. PICK at : at = At(d, name, proofs)
  OBVIOUS
<1>4. PICK td : td = AfterTurns(d, had)
  OBVIOUS
<1>5. l = [document |-> td, at |-> at] /\ l.at = at /\ l.document = td /\ IsDocument(td)
  BY <1>1, <1>3, <1>4, DocumentsTurn
<1>6. CASE at # 0
  <2>1. Ld!PreDidResolutionModification(s, name, l) = l
    BY <1>5, <1>6, AdaptersAre DEF Ld!PreDidResolutionModification, Recovery, Of2020
  <2>2. At(d, name, more) = at
    BY <1>2, <1>3, <1>6 DEF At
  <2>3. had \in SUBSET more
    BY <1>2
  <2>4. QED BY <1>1, <1>2, <1>3, <1>6, <2>1, <2>2, <2>3 DEF LoadedBy
<1>7. CASE at = 0 /\ s.proof \in {"Ed25519Signature2018", "JsonWebSignature2020"}
  <2>1. Ld!PreDidResolutionModification(s, name, l) = l
    BY <1>5, <1>7 DEF Ld!PreDidResolutionModification
  <2>2. (Recovery \in more <=> Recovery \in proofs) /\ (Of2020 \in more <=> Of2020 \in proofs)
    BY <1>2, <1>7 DEF Recovery, Of2020
  <2>3. AfterTurns(d, proofs) = AfterTurns(d, more)
    BY <2>2, SameTurn
  <2>4. At(d, name, more) = at
    BY <1>3, <2>2 DEF At
  <2>5. had \in SUBSET more
    BY <1>2
  <2>6. QED BY <1>1, <1>2, <1>3, <1>7, <2>1, <2>3, <2>4, <2>5 DEF LoadedBy
<1>8. CASE at = 0 /\ s.proof = Recovery
  <2>1. Ld!PreDidResolutionModification(s, name, l) = [l EXCEPT !.document = Ld!ForEcdsaRecovery(td)]
    BY <1>5, <1>8 DEF Ld!PreDidResolutionModification, Recovery
  <2>2. Ld!ForEcdsaRecovery(td) = AfterTurns(td, {Recovery})
    BY <1>5, RecoveryTurns
  <2>3. td = AfterTurns(d, proofs)
    BY <1>1, <1>3, <1>4, <1>8
  <2>4. AfterTurns(td, {Recovery}) = AfterTurns(d, more)
    BY <1>2, <1>8, <2>3, DocumentsTurn
  <2>5. PICK nd : nd = AfterTurns(d, more)
    OBVIOUS
  <2>6. [l EXCEPT !.document = nd] = [document |-> nd, at |-> 0]
    <3>1. PICK x : x = [l EXCEPT !.document = nd]
      OBVIOUS
    <3>2. DOMAIN x = {"document", "at"} /\ x.document = nd /\ x.at = 0
      BY <1>5, <1>8, <3>1
    <3>3. x = [f \in DOMAIN x |-> x[f]]
      BY <3>1
    <3>4. QED BY <3>1, <3>2, <3>3
  <2>7. At(d, name, more) = 0
    <3>1. Of2020 \in more <=> Of2020 \in proofs
      BY <1>2, <1>8 DEF Recovery, Of2020
    <3>2. QED BY <1>3, <1>8, <3>1 DEF At
  <2>8. Ld!PreDidResolutionModification(s, name, l) = [document |-> AfterTurns(d, more), at |-> At(d, name, more)]
    BY <2>1, <2>2, <2>4, <2>5, <2>6, <2>7
  <2>9. QED BY <1>2, <2>7, <2>8 DEF LoadedBy
<1>9. CASE at = 0 /\ s.proof = Of2020
  <2>1. Ld!PreDidResolutionModification(s, name, l) = Ld!ForEd25519Of2020(td, name)
    BY <1>5, <1>9 DEF Ld!PreDidResolutionModification, Of2020
  <2>2. Ld!Transformed(td) = AfterTurns(td, {Of2020})
    BY <1>5, Of2020Turns
  <2>3. td = AfterTurns(d, proofs)
    BY <1>1, <1>3, <1>4, <1>9
  <2>4. AfterTurns(td, {Of2020}) = AfterTurns(d, more)
    BY <1>2, <1>9, <2>3, DocumentsTurn
  <2>5. PICK x : x = Ld!GetDIDComponentById(td, name)
    OBVIOUS
  <2>6. x = Ld!GetDIDComponentById(d, name)
    BY <2>3, <2>5, ComponentStays
  <2>7. PICK y : y = IF Own(td, name) THEN x ELSE 0
    OBVIOUS
  <2>8. Ld!ForEd25519Of2020(td, name) = [document |-> AfterTurns(d, more), at |-> y]
    BY <2>2, <2>4, <2>5, <2>7 DEF Ld!ForEd25519Of2020, Own
  <2>9. Of2020 \in more
    BY <1>2, <1>9
  <2>10. y = At(d, name, more)
    BY <2>3, <2>6, <2>7, <2>9, AtStays DEF At
  <2>11. QED BY <1>2, <2>1, <2>8, <2>9, <2>10 DEF LoadedBy
<1>10. QED BY <1>6, <1>7, <1>8, <1>9, AdaptersAre

ProofsOf(set) == {s.proof : s \in set}

LEMMA LoadedOfPrefixes ==
  ASSUME NEW d, IsDocument(d), NEW name, NEW all \in Seq(Ld!Adapters), NEW f, IsLoading(f, all, name, d, Len(all))
  PROVE  \A i \in 0 .. Len(all) : LoadedBy(f[i], d, name, ProofsOf(Firsts(all, i)))
<1> DEFINE Right(i) == LoadedBy(f[i], d, name, ProofsOf(Firsts(all, i)))
           T == {i \in 0 .. Len(all) : ~ Right(i)}
<1>1. SUFFICES ASSUME T # {} PROVE FALSE
  OBVIOUS
<1>2. PICK m \in T : \A k \in T : m <= k
  <2> HIDE DEF T
  <2>1. T \in SUBSET Nat BY DEF T
  <2>2. QED BY <1>1, <2>1, Least
<1>3. /\ m \in 0 .. Len(all)
      /\ f[m] = IF m = 0 THEN [document |-> d, at |-> 0]
                ELSE Ld!PreDidResolutionModification(all[m], name, f[m - 1])
  BY DEF IsLoading
<1>4. CASE m = 0
  <2>1. Firsts(all, m) = {}
    BY <1>4 DEF Firsts
  <2>2. PICK none : none = ProofsOf(Firsts(all, m))
    OBVIOUS
  <2>3. none = {}
    BY <2>1, <2>2 DEF ProofsOf
  <2>4. At(d, name, none) = 0 /\ AfterTurns(d, none) = d
    BY <2>3, DocumentsTurn DEF At
  <2>5. Right(m)
    BY <1>3, <1>4, <2>2, <2>3, <2>4 DEF LoadedBy
  <2>6. QED BY <2>5
<1>5. CASE m # 0
  <2>1. m - 1 \in 0 .. Len(all) /\ Right(m - 1)
    BY <1>2, <1>3, <1>5
  <2>2. PICK s : s = all[m]
    OBVIOUS
  <2>3. s \in Ld!Adapters /\ Firsts(all, m) = Firsts(all, m - 1) \union {s}
    BY <1>3, <1>5, <2>2 DEF Firsts
  <2>4. ProofsOf(Firsts(all, m)) = ProofsOf(Firsts(all, m - 1)) \union {s.proof}
    BY <2>3 DEF ProofsOf
  <2>5. PICK l : l = f[m - 1]
    OBVIOUS
  <2>6. LoadedBy(Ld!PreDidResolutionModification(s, name, l), d, name, ProofsOf(Firsts(all, m - 1)) \union {s.proof})
    BY <2>1, <2>3, <2>5, LoadedStep
  <2>7. f[m] = Ld!PreDidResolutionModification(s, name, l)
    BY <1>3, <1>5, <2>2, <2>5
  <2>8. Right(m)
    BY <2>4, <2>6, <2>7
  <2>9. QED BY <2>8
<1>6. QED BY <1>4, <1>5

LEMMA LoadsAre ==
  ASSUME NEW d, IsDocument(d), NEW name, NEW all \in Seq(Ld!Adapters)
  PROVE  LoadedBy(Ld!Loads(all, name, d), d, name, ProofsOf(Elements(all)))
<1> DEFINE f == CHOOSE g : IsLoading(g, all, name, d, Len(all))
<1>1. IsLoading(f, all, name, d, Len(all))
  <2>1. Len(all) \in Nat
    OBVIOUS
  <2>2. \E g : IsLoading(g, all, name, d, Len(all))
    BY <2>1, LoadingExists
  <2>3. QED BY <2>2
<1>2. Ld!Loads(all, name, d) = f[Len(all)]
  BY DEF Ld!Loads, IsLoading
<1> HIDE DEF f
<1>3. Len(all) \in 0 .. Len(all) /\ Elements(all) = Firsts(all, Len(all))
  BY DEF Elements, Firsts
<1>4. LoadedBy(f[Len(all)], d, name, ProofsOf(Firsts(all, Len(all))))
  BY <1>1, <1>3, LoadedOfPrefixes
<1>5. QED BY <1>2, <1>3, <1>4

\* What is loaded, whatever the order of the suites with these proofs
Canonical(d, name, proofs) ==
  IF At(d, name, proofs) = 0
  THEN [whole |-> TRUE, is |-> AfterTurns(d, proofs).contexts, of |-> AfterTurns(d, proofs).methods]
  ELSE [whole |-> FALSE, is |-> {}, of |-> <<Turned(d.methods[At(d, name, proofs)], d.ethr, {Of2020})>>]

LEMMA OwnAccount ==
  ASSUME NEW d, IsDocument(d), NEW name, NEW proofs, NEW at, at = At(d, name, proofs), at # 0
  PROVE  /\ at \in DOMAIN d.methods /\ d.methods[at].name = name /\ d.methods[at].account = "none"
         /\ d.methods[at].type = "Ed25519VerificationKey2020"
<1>1. at = Ld!GetDIDComponentById(d, name) /\ Own(d, name)
  BY DEF At
<1>2. at \in DOMAIN d.methods /\ d.methods[at].name = name
  BY <1>1, ComponentFound
<1>3. QED BY <1>1, <1>2 DEF Own, IsDocument

LEMMA LoadedIsCanonical ==
  ASSUME NEW d, IsDocument(d), NEW name, NEW proofs, NEW l, LoadedBy(l, d, name, proofs)
  PROVE  Ld!Result(l) = Canonical(d, name, proofs)
<1>1. PICK had \in SUBSET proofs :
         /\ l = [document |-> AfterTurns(d, had), at |-> At(d, name, proofs)]
         /\ IF At(d, name, proofs) = 0 THEN AfterTurns(d, had) = AfterTurns(d, proofs) ELSE Of2020 \in had
  BY DEF LoadedBy
<1>2. PICK at : at = At(d, name, proofs)
  OBVIOUS
<1>3. l.at = at /\ l.document = AfterTurns(d, had)
  BY <1>1, <1>2
<1>4. CASE at = 0
  BY <1>1, <1>2, <1>3, <1>4 DEF Ld!Result, Canonical
<1>5. CASE at # 0
  <2>1. PICK m : m = d.methods[at]
    OBVIOUS
  <2>2. at \in DOMAIN d.methods /\ m.account = "none"
    BY <1>2, <1>5, <2>1, OwnAccount
  <2>3. l.document.methods[at] = Turned(m, d.ethr, had)
    BY <1>3, <2>1, <2>2 DEF AfterTurns
  <2>4. Turned(m, d.ethr, had) = Turned(m, d.ethr, {Of2020})
    BY <1>1, <1>2, <1>5, <2>2, OwnMethodTurned
  <2>5. QED BY <1>2, <1>3, <1>5, <2>1, <2>3, <2>4 DEF Ld!Result, Canonical
<1>6. QED BY <1>4, <1>5

LEMMA TurnsChangeNoResult ==
  ASSUME NEW d, IsDocument(d), NEW name, NEW proofs, NEW had \in SUBSET proofs
  PROVE  Canonical(AfterTurns(d, had), name, proofs) = Canonical(d, name, proofs)
<1>1. PICK td : td = AfterTurns(d, had)
  OBVIOUS
<1>2. PICK at : at = At(d, name, proofs)
  OBVIOUS
<1>3. At(td, name, proofs) = at /\ td.ethr = d.ethr
  <2>1. At(td, name, proofs) = at
    BY <1>1, <1>2, AtStays
  <2>2. td.ethr = d.ethr
    BY <1>1 DEF AfterTurns
  <2>3. QED BY <2>1, <2>2
<1>4. AfterTurns(td, proofs) = AfterTurns(d, proofs)
  <2>1. AfterTurns(td, proofs) = AfterTurns(d, had \union proofs)
    BY <1>1, DocumentsTurn
  <2>2. had \union proofs = proofs
    OBVIOUS
  <2>3. QED BY <2>1, <2>2
<1>5. CASE at = 0
  BY <1>1, <1>2, <1>3, <1>4, <1>5 DEF Canonical
<1>6. CASE at # 0
  <2>1. PICK m : m = d.methods[at]
    OBVIOUS
  <2>2. at \in DOMAIN d.methods /\ m.account = "none"
    BY <1>2, <1>6, <2>1, OwnAccount
  <2>3. td.methods[at] = Turned(m, d.ethr, had)
    BY <1>1, <2>1, <2>2 DEF AfterTurns
  <2>4. Turned(Turned(m, d.ethr, had), d.ethr, {Of2020}) = Turned(m, d.ethr, had \union {Of2020})
    BY MethodsTurn
  <2>5. Turned(m, d.ethr, had \union {Of2020}) = Turned(m, d.ethr, {Of2020})
    BY <2>2, OwnMethodTurned
  <2>6. QED BY <1>1, <1>2, <1>3, <1>6, <2>1, <2>3, <2>4, <2>5 DEF Canonical
<1>7. QED BY <1>5, <1>6

\* What the loader answers, and what it leaves of the document
LEMMA LoadsResult ==
  ASSUME NEW d, IsDocument(d), NEW name, NEW installed \in Seq(Ld!Adapters)
  PROVE  LET loaded == Ld!Loads(Ld!AllSuites(installed), name, d) IN
         /\ Ld!Result(loaded) = Canonical(d, name, ProofsOf(Elements(installed)))
         /\ \E had \in SUBSET ProofsOf(Elements(installed)) : loaded.document = AfterTurns(d, had)
<1>1. PICK all : all = Ld!AllSuites(installed)
  OBVIOUS
<1>2. all \in Seq(Ld!Adapters) /\ Elements(all) = Elements(installed)
  BY <1>1, AllSuitesAre
<1>3. PICK l : l = Ld!Loads(all, name, d)
  OBVIOUS
<1>4. PICK proofs : proofs = ProofsOf(Elements(installed))
  OBVIOUS
<1>5. LoadedBy(l, d, name, proofs)
  BY <1>2, <1>3, <1>4, LoadsAre
<1>6. Ld!Result(l) = Canonical(d, name, proofs)
  BY <1>5, LoadedIsCanonical
<1>7. \E had \in SUBSET proofs : l.document = AfterTurns(d, had)
  BY <1>5 DEF LoadedBy
<1>8. QED BY <1>1, <1>3, <1>4, <1>6, <1>7

\* The order in which the suites were installed, and what was loaded before,
\* change nothing of what is loaded.
LEMMA TurnsDoNotMatterNow ==
  ASSUME suites \in Seq(Ld!Adapters), IsDocument(resolved)
  PROVE  Ld!TurnsDoNotMatter
<1>1. PICK proofs : proofs = ProofsOf(Elements(suites))
  OBVIOUS
<1> DEFINE four == <<Ld!EcdsaRecovery2020, Ld!Ed25519Of2018, Ld!Ed25519Of2020, Ld!JsonWebSignature2020>>
           ordered == Ld!Without(four, Ld!Adapters \ Ld!Range(suites))
<1>2. four \in Seq(Ld!Adapters) /\ Elements(four) = Ld!Adapters
  <2>1. ASSUME NEW S, NEW a \in S, NEW b \in S, NEW c \in S, NEW d \in S
        PROVE  <<a, b, c, d>> \in Seq(S) /\ Elements(<<a, b, c, d>>) = {a, b, c, d}
    BY DEF Elements
  <2>2. /\ Ld!EcdsaRecovery2020 \in Ld!Adapters /\ Ld!Ed25519Of2018 \in Ld!Adapters
        /\ Ld!Ed25519Of2020 \in Ld!Adapters /\ Ld!JsonWebSignature2020 \in Ld!Adapters
    BY DEF Ld!Adapters
  <2>3. QED BY <2>1, <2>2, ZenonT(40) DEF Ld!Adapters
<1>3. ordered \in Seq(Ld!Adapters) /\ Elements(ordered) = Elements(suites)
  <2>1. PICK gone : gone = Ld!Adapters \ Ld!Range(suites)
    OBVIOUS
  <2>2. PICK s : s = four
    OBVIOUS
  <2>3. ordered = Without(s, gone)
    BY <2>1, <2>2 DEF Ld!Without, Without
  <2> HIDE DEF four
  <2>4. s \in Seq(Ld!Adapters) /\ Elements(s) = Ld!Adapters
    BY <1>2, <2>2
  <2>5. Without(s, gone) \in Seq(Ld!Adapters) /\ Elements(Without(s, gone)) = Ld!Adapters \ gone
    BY <2>4, WithoutElements
  <2>6. Ld!Range(suites) = Elements(suites)
    BY DEF Ld!Range, Elements
  <2>7. Elements(suites) \subseteq Ld!Adapters
    BY ElementsInSet
  <2>8. QED BY <2>1, <2>3, <2>5, <2>6, <2>7
<1>4. ASSUME NEW name
      PROVE  Ld!Result(Ld!Loads(Ld!AllSuites(ordered), name, resolved))
               = Ld!Result(Ld!Loads(Ld!AllSuites(suites), name, resolved))
  <2> HIDE DEF ordered
  <2>1. QED BY <1>3, LoadsResult
<1>5. ASSUME NEW name, NEW other
      PROVE  Ld!Result(Ld!Loads(Ld!AllSuites(suites), name, Ld!Loads(Ld!AllSuites(suites), other, resolved).document))
               = Ld!Result(Ld!Loads(Ld!AllSuites(suites), name, resolved))
  <2>1. PICK d : d = Ld!Loads(Ld!AllSuites(suites), other, resolved).document
    OBVIOUS
  <2>2. PICK had \in SUBSET proofs : d = AfterTurns(resolved, had)
    BY <1>1, <2>1, LoadsResult
  <2>3. IsDocument(d)
    BY <2>2, DocumentsTurn
  <2>4. Canonical(d, name, proofs) = Canonical(resolved, name, proofs)
    BY <2>2, TurnsChangeNoResult
  <2>5. QED BY <1>1, <2>1, <2>3, <2>4, LoadsResult
<1> HIDE DEF ordered
<1>6. QED BY <1>4, <1>5 DEF Ld!TurnsDoNotMatter, ordered

\* What a suite signed for an entry of the document, it reads again from what is
\* loaded, unless the suite of 2020 signed for an entry of 2018.
LEMMA SignedReads ==
  ASSUME NEW d, IsDocument(d), NEW n \in DOMAIN d.methods, NEW name, name = d.methods[n].name, NEW proofs,
         NEW s \in Ld!Adapters, s.proof \in proofs, Ld!Contains(s.types, d.methods[n].type),
         ~(s.proof = Of2020 /\ d.methods[n].type = "Ed25519VerificationKey2018")
  PROVE  Ld!Reads(s, name, Canonical(d, name, proofs))
<1>1. PICK m : m = d.methods[n]
  OBVIOUS
<1>2. n # 0
  BY DEF IsDocument
<1>3. Ld!GetDIDComponentById(d, name) = n
  BY ComponentFound DEF IsDocument
<1>4. At(d, name, proofs) = IF Of2020 \in proofs /\ m.type = "Ed25519VerificationKey2020" THEN n ELSE 0
  BY <1>1, <1>2, <1>3 DEF At, Own
<1>5. PICK l : l = Canonical(d, name, proofs)
  OBVIOUS
<1>6. ASSUME At(d, name, proofs) = 0
      PROVE  /\ l.is = AfterTurns(d, proofs).contexts /\ n \in DOMAIN l.of
             /\ l.of[n] = Turned(m, d.ethr, proofs)
  <2>1. l.is = AfterTurns(d, proofs).contexts /\ l.of = AfterTurns(d, proofs).methods
    BY <1>5, <1>6 DEF Canonical
  <2>2. n \in DOMAIN AfterTurns(d, proofs).methods /\ AfterTurns(d, proofs).methods[n] = Turned(m, d.ethr, proofs)
    BY <1>1 DEF AfterTurns
  <2>3. QED BY <2>1, <2>2
<1>7. /\ Turned(m, d.ethr, proofs).name = name
      /\ Turned(m, d.ethr, proofs).type = m.type
  BY <1>1 DEF Turned
<1>8. CASE s = Ld!EcdsaRecovery2020
  <2>1. s.proof = Recovery /\ m.type = "EcdsaSecp256k1RecoveryMethod2020"
    BY <1>1, <1>8 DEF Ld!EcdsaRecovery2020, Ld!Suite, Ld!Contains, Recovery
  <2>2. At(d, name, proofs) = 0
    BY <1>4, <2>1
  <2>3. PICK t : t = Turned(m, d.ethr, proofs)
    OBVIOUS
  <2>4. t.account = "chain:address"
    <3>1. m.account = "chain:address" \/ (d.ethr /\ m.account = "address@chain")
      BY <1>1, <2>1 DEF IsDocument
    <3>2. t.account = IF Recovery \in proofs /\ d.ethr /\ m.account = "address@chain" THEN "chain:address" ELSE m.account
      BY <2>3 DEF Turned
    <3>3. QED BY <2>1, <3>1, <3>2
  <2>5. l.is = Fixed(d.contexts)
    <3>1. AfterTurns(d, proofs).contexts = Fixed(d.contexts)
      BY <2>1 DEF AfterTurns
    <3>2. QED BY <1>6, <2>2, <3>1
  <2>6. "legacy" \notin l.is /\ ~({"security/v3-unstable", "recovery/v2"} \subseteq l.is)
    BY <2>5, FixedOnce
  <2>7. n \in DOMAIN l.of /\ l.of[n] = t /\ t.name = name /\ t.type = m.type
    BY <1>6, <1>7, <2>2, <2>3
  <2>8. s.proof # "Ed25519Signature2020"
    BY <2>1 DEF Recovery
  <2>9. QED BY <1>1, <1>5, <2>4, <2>6, <2>7, <2>8 DEF Ld!Reads
<1>9. CASE s \in {Ld!Ed25519Of2018, Ld!JsonWebSignature2020}
  <2>1. /\ s.proof \notin {"EcdsaSecp256k1RecoverySignature2020", "Ed25519Signature2020"}
        /\ m.type \in {"Ed25519VerificationKey2018", "JsonWebKey2020"}
    BY <1>1, <1>9 DEF Ld!Ed25519Of2018, Ld!JsonWebSignature2020, Ld!Suite, Ld!Contains
  <2>2. At(d, name, proofs) = 0
    BY <1>4, <2>1
  <2>3. PICK t : t = Turned(m, d.ethr, proofs)
    OBVIOUS
  <2>4. n \in DOMAIN l.of /\ l.of[n] = t /\ t.name = name /\ t.type = m.type
    BY <1>6, <1>7, <2>2, <2>3
  <2>5. QED BY <1>1, <1>5, <2>1, <2>4 DEF Ld!Reads
<1>10. CASE s = Ld!Ed25519Of2020
  <2>1. s.proof = Of2020 /\ m.type = "Ed25519VerificationKey2020"
    BY <1>1, <1>10 DEF Ld!Ed25519Of2020, Ld!Suite, Ld!Contains, Of2020
  <2>2. At(d, name, proofs) = n
    BY <1>4, <2>1
  <2>3. PICK t : t = Turned(m, d.ethr, {Of2020})
    OBVIOUS
  <2>4. /\ t.name = name /\ t.type = m.type /\ t.context = "ed25519-2020/v1" /\ t.multibase = TRUE
    BY <1>1, <2>1, <2>3 DEF Turned
  <2>5. l.whole = FALSE /\ l.of = <<t>>
    BY <1>1, <1>2, <1>5, <2>2, <2>3 DEF Canonical
  <2>6. 1 \in DOMAIN l.of /\ l.of[1] = t
    BY <2>5
  <2>7. s.proof # "EcdsaSecp256k1RecoverySignature2020"
    BY <2>1 DEF Of2020
  <2>8. QED BY <1>1, <1>5, <2>4, <2>5, <2>6, <2>7 DEF Ld!Reads
<1>11. QED BY <1>8, <1>9, <1>10 DEF Ld!Adapters

------------------------------------------------------------------------------
(* The invariant                                                           *)

\* What is signed, an installed suite signed for a method of the document that
\* it supports.
SignedForMethod ==
  \E s \in Elements(suites), n \in DOMAIN resolved.methods :
     /\ proof.suite = s.proof /\ Ld!Contains(s.types, proof.type)
     /\ proof.name = resolved.methods[n].name /\ proof.type = resolved.methods[n].type

LdInv ==
  /\ suites \in Seq(Ld!Adapters)
  /\ IsDocument(resolved)
  /\ proof.suite # "threw"
  /\ proof.suite # "none" => SignedForMethod
  /\ proof.suite = "none" => verifies
  /\ Ld!SignedVerifies

LEMMA NoDocumentIsOne == IsDocument(Ld!NoDocument)
<1>1. PICK d : d = Ld!NoDocument
  OBVIOUS
<1>2. PICK ms : ms = <<>>
  OBVIOUS
<1>3. d = [ethr |-> FALSE, contexts |-> {}, methods |-> ms]
  BY <1>1, <1>2 DEF Ld!NoDocument
<1>4. DOMAIN ms = {} /\ ms = [i \in 1 .. 0 |-> ms[i]]
  BY <1>2
<1>5. d = [ethr |-> d.ethr, contexts |-> d.contexts, methods |-> d.methods] /\ d.methods = ms
  BY <1>3
<1>6. QED BY <1>1, <1>4, <1>5 DEF IsDocument

LEMMA DocumentsAre ==
  ASSUME Ld!LdAssumption, NEW d \in Documents
  PROVE  IsDocument(d)
<1>1. d \in Ld!Document
  BY DEF Ld!LdAssumption
<1>2. /\ d = [ethr |-> d.ethr, contexts |-> d.contexts, methods |-> d.methods]
      /\ d.methods \in Seq(Ld!Method)
  BY <1>1 DEF Ld!Document
<1>3. PICK S : S = Ld!Method
  OBVIOUS
<1>4. PICK ms : ms = d.methods
  OBVIOUS
<1>5. ms \in Seq(S)
  BY <1>2, <1>3, <1>4
<1>6. Len(ms) \in Nat /\ ms = [i \in 1 .. Len(ms) |-> ms[i]]
  BY <1>5
<1>7. \A i \in DOMAIN ms : IsMethod(ms[i])
  <2>1. \A i \in DOMAIN ms : ms[i] \in S
    BY <1>5, ElementOfSeq
  <2>2. \A m \in S : IsMethod(m)
    BY <1>3 DEF Ld!Method, IsMethod
  <2>3. QED BY <2>1, <2>2
<1>8. QED BY <1>2, <1>4, <1>6, <1>7 DEF Ld!LdAssumption, IsDocument

\* The suites that sign with a key are installed, and support its entry.
LEMMA SigningSuitesSupport ==
  ASSUME suites \in Seq(Ld!Adapters), NEW method, NEW found, found = Ld!SigningSuites(method), found # <<>>
  PROVE  /\ found[1] \in Elements(suites) /\ Ld!Contains(found[1].types, method.type)
         /\ method # Ld!NoMethod /\ Ld!Supported(method)
<1>1. method # Ld!NoMethod
  BY DEF Ld!SigningSuites
<1>2. found = Ld!SuitesFor(suites, SuiteKeys[method.kid], method.type)
  BY <1>1 DEF Ld!SigningSuites
<1>3. /\ found \in Seq(Ld!Adapters)
      /\ Elements(found) = {s \in Elements(suites) : s.keyType = SuiteKeys[method.kid] /\ Ld!Contains(s.types, method.type)}
  BY <1>2, SuitesForAre
<1>4. PICK s : s = found[1]
  OBVIOUS
<1>5. s \in Elements(found)
  BY <1>3, <1>4 DEF Elements
<1>6. s \in Elements(suites) /\ Ld!Contains(s.types, method.type)
  BY <1>3, <1>5
<1>7. Ld!Supported(method)
  <2>1. PICK n \in DOMAIN suites : suites[n] = s
    BY <1>6 DEF Elements
  <2>2. s \in Ld!Adapters
    BY <2>1, ElementOfSeq
  <2>3. method.type \in Ld!Range(s.types)
    BY <1>6 DEF Ld!Contains, Ld!Range
  <2>4. QED BY <2>1, <2>3 DEF Ld!Supported, Ld!AllTypes
<1>8. QED BY <1>1, <1>4, <1>6, <1>7

\* findSigningKeyWithId finds an entry of the document, or none.
LEMMA FoundIsThere ==
  ASSUME IsDocument(resolved), NEW ref
  PROVE  \/ Ld!FindSigningKeyWithId(ref) = Ld!NoMethod
         \/ \E n \in DOMAIN resolved.methods : Ld!FindSigningKeyWithId(ref) = resolved.methods[n]
<1>1. PICK ms : ms = resolved.methods
  OBVIOUS
<1>2. PICK n \in Nat : ms = [i \in 1 .. n |-> ms[i]]
  BY <1>1 DEF IsDocument
<1>3. DOMAIN ms = 1 .. n /\ Len(ms) = n
  BY <1>2
<1>4. ASSUME NEW I, I \subseteq 1 .. Len(ms), I # {}
      PROVE  Ld!Min(I) \in DOMAIN ms
  <2>1. \E x \in I : \A y \in I : x <= y
    BY <1>3, <1>4, Least
  <2>2. QED BY <1>3, <1>4, <2>1 DEF Ld!Min
<1> DEFINE There(m) == m = Ld!NoMethod \/ \E i \in DOMAIN ms : m = ms[i]
<1>5. There(Ld!FirstWhere(ms, LAMBDA m : m.kid = ref))
  <2> DEFINE I == {i \in 1 .. Len(ms) : ms[i].kid = ref}
  <2>1. I = {} \/ Ld!Min(I) \in DOMAIN ms
    <3>1. I \subseteq 1 .. Len(ms)
      OBVIOUS
    <3> HIDE DEF I
    <3>2. QED BY <1>4, <3>1
  <2>2. QED BY <2>1 DEF Ld!FirstWhere, Ld!SelectInSeq
<1>6. There(Ld!FirstWhere(ms, Ld!Supported))
  <2> DEFINE I == {i \in 1 .. Len(ms) : Ld!Supported(ms[i])}
  <2>1. I = {} \/ Ld!Min(I) \in DOMAIN ms
    <3>1. I \subseteq 1 .. Len(ms)
      OBVIOUS
    <3> HIDE DEF I
    <3>2. QED BY <1>4, <3>1
  <2>2. QED BY <2>1 DEF Ld!FirstWhere, Ld!SelectInSeq
<1>7. QED BY <1>1, <1>5, <1>6 DEF Ld!FindSigningKeyWithId

LEMMA AskedSigns ==
  ASSUME LdInv
  PROVE  Ld!AskedKeySigns
<1> SUFFICES ASSUME NEW ref \in DOMAIN SuiteKeys, NEW own, own = Ld!FirstWhere(resolved.methods, LAMBDA m : m.kid = ref),
                    Ld!SigningSuites(own) # <<>>
             PROVE  Ld!FindSigningKeyWithId(ref) = own
  BY DEF LdInv, Ld!AskedKeySigns
<1>1. Ld!Supported(own)
  BY SigningSuitesSupport DEF LdInv
<1>2. QED BY <1>1 DEF Ld!FindSigningKeyWithId

\* What createVerifiablePresentationLD prepares, the library signs.
LEMMA PreparedIsSignable ==
  ASSUME NEW payload
  PROVE  Ld!Signable(Ld!Prepared(payload))
BY DEF Ld!Signable, Ld!Prepared, Ld!Range

LEMMA SigningKeepsInv ==
  ASSUME LdInv, NEW ref, NEW method, method = Ld!FindSigningKeyWithId(ref), NEW payload,
         Ld!SigningSuites(method) # <<>>, proof = Ld!NoProof,
         proof' = Ld!Signed(method, payload), UNCHANGED <<suites, resolved, verifies>>
  PROVE  LdInv'
<1>1. PICK found : found = Ld!SigningSuites(method)
  OBVIOUS
<1>2. PICK s : s = found[1]
  OBVIOUS
<1>3. s \in Elements(suites) /\ Ld!Contains(s.types, method.type) /\ method # Ld!NoMethod
  BY <1>1, <1>2, SigningSuitesSupport DEF LdInv
<1>4. PICK n \in DOMAIN resolved.methods : method = resolved.methods[n]
  BY <1>3, FoundIsThere DEF LdInv
<1>5. proof' = [suite |-> s.proof, name |-> method.name, kid |-> method.kid, type |-> method.type, contents |-> payload]
  BY <1>1, <1>2 DEF Ld!Signed
<1>6. proof'.suite = s.proof /\ proof'.name = method.name /\ proof'.type = method.type
  BY <1>5
<1>7. SignedForMethod'
  BY <1>3, <1>4, <1>6 DEF SignedForMethod
<1>8. s \in Ld!Adapters
  BY <1>3, ElementsInSet DEF LdInv
<1>9. proof'.suite \notin {"none", "threw"}
  BY <1>6, <1>8, AdaptersAre DEF Recovery, Of2020
<1>10. Ld!SignedVerifies'
  BY DEF Ld!SignedVerifies, LdInv, Ld!NoProof
<1>11. QED BY <1>7, <1>9, <1>10 DEF LdInv

\* What was signed for stays in the document.
LEMMA LoadingKeepsInv ==
  ASSUME LdInv, NEW had, resolved' = AfterTurns(resolved, had), UNCHANGED <<suites, proof>>
  PROVE  IsDocument(resolved)' /\ (proof.suite # "none" => SignedForMethod)'
<1>1. IsDocument(resolved')
  BY DocumentsTurn DEF LdInv
<1>2. ASSUME NEW n \in DOMAIN resolved.methods
      PROVE  /\ n \in DOMAIN resolved'.methods
             /\ resolved'.methods[n].name = resolved.methods[n].name
             /\ resolved'.methods[n].type = resolved.methods[n].type
  <2>1. PICK m : m = resolved.methods[n]
    OBVIOUS
  <2>2. n \in DOMAIN AfterTurns(resolved, had).methods /\ AfterTurns(resolved, had).methods[n] = Turned(m, resolved.ethr, had)
    BY <2>1 DEF AfterTurns
  <2>3. QED BY <2>1, <2>2 DEF Turned
<1>3. ASSUME SignedForMethod PROVE SignedForMethod'
  BY <1>2, <1>3 DEF SignedForMethod
<1>4. QED BY <1>1, <1>3 DEF LdInv

LEMMA LdStep ==
  ASSUME Ld!LdAssumption, LdInv, [Ld!Next]_(Ld!vars)
  PROVE  LdInv'
<1>1. ASSUME NEW installed \in Installations, NEW document \in Documents, Ld!Construct(installed, document)
      PROVE LdInv'
  <2>1. installed \in Seq({s.proof : s \in Ld!Adapters})
    BY DEF Ld!LdAssumption
  <2>2. \A i \in DOMAIN installed : \E s \in Ld!Adapters : s.proof = installed[i]
    BY <2>1, ElementOfSeq
  <2>3. \A i \in DOMAIN installed : (CHOOSE s \in Ld!Adapters : s.proof = installed[i]) \in Ld!Adapters
    BY <2>2
  <2>4. suites' \in Seq(Ld!Adapters)
    <3>1. PICK new : new = [i \in DOMAIN installed |-> CHOOSE s \in Ld!Adapters : s.proof = installed[i]]
      OBVIOUS
    <3>2. DOMAIN installed = 1 .. Len(installed) /\ Len(installed) \in Nat
      BY <2>1
    <3>3. new \in [1 .. Len(installed) -> Ld!Adapters]
      BY <2>3, <3>1, <3>2
    <3>4. new \in Seq(Ld!Adapters)
      BY <3>2, <3>3, SeqDef
    <3>5. QED BY <1>1, <3>1, <3>4 DEF Ld!Construct
  <2>5. resolved' = document /\ proof' = proof /\ verifies' = verifies /\ suites = <<>>
    BY <1>1 DEF Ld!Construct
  <2>6. IsDocument(resolved')
    BY <2>5, DocumentsAre
  <2>7. Elements(suites) = {}
    BY <2>5 DEF Elements
  <2>8. proof.suite = "none"
    BY <2>7 DEF LdInv, SignedForMethod
  <2>9. Ld!SignedVerifies'
    BY <2>5, <2>8 DEF Ld!SignedVerifies
  <2>10. QED BY <2>4, <2>5, <2>6, <2>8, <2>9 DEF LdInv
<1>2. ASSUME NEW name, Ld!Load(name) PROVE LdInv'
  <2>1. resolved' = Ld!Loads(Ld!AllSuites(suites), name, resolved).document /\ UNCHANGED <<suites, proof, verifies>>
    BY <1>2 DEF Ld!Load
  <2>2. PICK had : resolved' = AfterTurns(resolved, had)
    BY <2>1, LoadsResult DEF LdInv
  <2>3. IsDocument(resolved)' /\ (proof.suite # "none" => SignedForMethod)'
    BY <2>1, <2>2, LoadingKeepsInv
  <2>4. Ld!SignedVerifies'
    BY <2>1 DEF LdInv, Ld!SignedVerifies
  <2>5. QED BY <2>1, <2>3, <2>4 DEF LdInv
<1>3. ASSUME NEW ref, Ld!Issue(ref) PROVE LdInv'
  <2>1. PICK method : method = Ld!FindSigningKeyWithId(ref)
    OBVIOUS
  <2>2. /\ Ld!SigningSuites(method) # <<>> /\ proof = Ld!NoProof
        /\ proof' = Ld!Signed(method, "credential") /\ UNCHANGED <<suites, resolved, verifies>>
    BY <1>3, <2>1 DEF Ld!Issue
  <2>3. QED BY <2>1, <2>2, SigningKeepsInv
<1>4. ASSUME NEW ref, NEW p, Ld!Present(ref, p) PROVE LdInv'
  <2>1. PICK method : method = Ld!FindSigningKeyWithId(ref)
    OBVIOUS
  <2>2. Ld!Signable(Ld!Prepared(p))
    BY PreparedIsSignable
  <2>3. PICK prepared : prepared = Ld!Prepared(p)
    OBVIOUS
  <2>4. /\ Ld!SigningSuites(method) # <<>> /\ proof = Ld!NoProof
        /\ proof' = Ld!Signed(method, prepared) /\ UNCHANGED <<suites, resolved, verifies>>
    BY <1>4, <2>1, <2>2, <2>3 DEF Ld!Present
  <2>5. QED BY <2>1, <2>4, SigningKeepsInv
<1>5. ASSUME Ld!Verify PROVE LdInv'
  <2>1. PICK loaded : loaded = Ld!Loads(Ld!AllSuites(suites), proof.name, resolved)
    OBVIOUS
  <2>2. /\ proof.suite \notin {"none", "threw"} /\ resolved' = loaded.document /\ UNCHANGED <<suites, proof>>
        /\ verifies' = \E i \in DOMAIN suites :
                          suites[i].proof = proof.suite /\ Ld!Reads(suites[i], proof.name, Ld!Result(loaded))
    BY <1>5, <2>1 DEF Ld!Verify
  <2>3. PICK had : resolved' = AfterTurns(resolved, had)
    BY <2>1, <2>2, LoadsResult DEF LdInv
  <2>4. IsDocument(resolved)' /\ (proof.suite # "none" => SignedForMethod)'
    BY <2>2, <2>3, LoadingKeepsInv
  <2>5. Ld!SignedVerifies'
    <3>1. PICK s \in Elements(suites), n \in DOMAIN resolved.methods :
            /\ proof.suite = s.proof /\ Ld!Contains(s.types, proof.type)
            /\ proof.name = resolved.methods[n].name /\ proof.type = resolved.methods[n].type
      BY <2>2 DEF LdInv, SignedForMethod
    <3>2. CASE s.proof = Of2020 /\ proof.type = "Ed25519VerificationKey2018"
      BY <2>2, <3>1, <3>2 DEF Ld!SignedVerifies, Of2020
    <3>3. CASE ~(s.proof = Of2020 /\ proof.type = "Ed25519VerificationKey2018")
      <4>1. PICK proofs : proofs = ProofsOf(Elements(suites))
        OBVIOUS
      <4>2. s \in Ld!Adapters /\ s.proof \in proofs
        BY <3>1, <4>1, ElementsInSet DEF LdInv, ProofsOf
      <4>3. PICK name : name = proof.name
        OBVIOUS
      <4>4. Ld!Reads(s, name, Canonical(resolved, name, proofs))
        BY <3>1, <3>3, <4>2, <4>3, SignedReads DEF LdInv
      <4>5. Ld!Result(loaded) = Canonical(resolved, name, proofs)
        BY <2>1, <4>1, <4>3, LoadsResult DEF LdInv
      <4>6. PICK i \in DOMAIN suites : suites[i] = s
        BY <3>1 DEF Elements
      <4>7. \E j \in DOMAIN suites :
              suites[j].proof = proof.suite /\ Ld!Reads(suites[j], proof.name, Ld!Result(loaded))
        BY <3>1, <4>3, <4>4, <4>5, <4>6
      <4>8. verifies'
        BY <2>2, <4>7
      <4>9. QED BY <4>8 DEF Ld!SignedVerifies
    <3>4. QED BY <3>2, <3>3
  <2>6. QED BY <2>2, <2>4, <2>5 DEF LdInv
<1>6. ASSUME UNCHANGED Ld!vars PROVE LdInv'
  BY <1>6 DEF LdInv, Ld!vars, SignedForMethod, Ld!SignedVerifies
<1>7. QED BY <1>1, <1>2, <1>3, <1>4, <1>5, <1>6 DEF Ld!Next

(* The key that createVerifiableCredentialLD is asked for signs, if a suite
   supports its first entry in the document, and createVerifiablePresentationLD
   never throws at what it prepared; what was signed verifies, however often the
   document was loaded and altered in place before; and neither the order in
   which the suites were installed nor an earlier load changes what the
   document loader answers. *)
THEOREM SuitesAlwaysServe ==
  ASSUME Ld!LdAssumption
  PROVE  Ld!Spec => []SuitesServe
<1>1. Ld!Init => LdInv
  <2>1. <<>> \in Seq(Ld!Adapters)
    OBVIOUS
  <2>2. QED BY <2>1, NoDocumentIsOne DEF Ld!Init, LdInv, Ld!NoProof, Ld!SignedVerifies
<1>2. LdInv /\ [Ld!Next]_(Ld!vars) => LdInv'
  BY LdStep
<1>3. LdInv => SuitesServe
  BY AskedSigns, TurnsDoNotMatterNow DEF LdInv, SuitesServe
<1>4. QED BY <1>1, <1>2, <1>3, PTL DEF Ld!Spec
==============================================================================
