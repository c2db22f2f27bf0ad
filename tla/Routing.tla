------------------------------- MODULE Routing -------------------------------
(***************************************************************************)
(* RoutingMessageHandler (routing-message-handler.ts) at a mediator: a     *)
(* forward message is queued, once per recipient of the packed message it  *)
(* carries, when the DID it names in `next` has been granted mediation by  *)
(* version 3 of the coordination protocol or, failing that, by version 2.  *)
(* The two checks and every save are awaited, and mediation is granted,    *)
(* denied, registered and withdrawn meanwhile (CoordinateMediation); what  *)
(* is queued is what MessagePickup delivers.                               *)
(***************************************************************************)
EXTENDS MediationManager

CONSTANTS
  Kids,         \* the key ids messages are encrypted to
  Forwards,     \* the forward messages that senders send
  NextOf,       \* NextOf[f]: body.next of f
  KidsOf,       \* KidsOf[f]: the recipients in the header of its attachment
  Workers,      \* bound: forward messages being handled at the same time
  MaxClock,     \* bound: the last instant, in the resolution of created_time
  MaxArrivals,  \* bound: forward messages that arrive
  MaxChanges,   \* bound: changes of mediation
  MaxFaults     \* bound: calls that throw

ASSUME ForwardsAssumption ==
  /\ NextOf \in [Forwards -> DIDs]
  /\ \A f \in Forwards : KidsOf[f] \in Seq(Kids) /\ Len(KidsOf[f]) > 0

ASSUME BoundsAssumption == {MaxClock, MaxArrivals, MaxChanges, MaxFaults} \subseteq Nat

VARIABLES
  now,          \* the clock that created_time is read from
  responses,    \* v2 grants and denials in the data store
  task,         \* task[w]: the forward that worker w is handling
  log,          \* messages saved with QUEUE_MESSAGE_TYPE, oldest first
  refused,      \* history: the handlings that found no mediation
  finished,     \* history: the handlings that returned after queueing
  past,         \* history: what was granted after each change
  arrivals,     \* forward messages that have arrived
  faults        \* faults so far

routingVars == <<task, log, refused, finished, arrivals, faults>>
vars == <<managerVars, now, responses, past, routingVars>>

Response == [to : DIDs, type : {"grant", "deny"}, at : 0 .. MaxClock]
Idle == [stage |-> "idle"]
\* `run` tells the handlings of one forward apart; `since` is the length of
\* `past` when the message arrived.
Handling == [run : 1 .. MaxArrivals, forward : Forwards, since : Nat]
Task == [stage : {"v3", "v2"}, handling : Handling]
        \union [stage : {"save"}, handling : Handling, next : Nat]
Entry == [handling : Handling, to : Kids, position : Nat, until : Nat]

\* isV2MediationGranted looks at the first of the responses to `next`, latest
\* first: which one it is, among those of the same instant, is not determined.
Latest(d) == {r \in responses : /\ r.to = d
                                /\ \A q \in responses : q.to = d => q.at <= r.at}
V2Answers(d) == IF Latest(d) = {} THEN {FALSE} ELSE {r.type = "grant" : r \in Latest(d)}

Granted == [v3 |-> {d \in DIDs : IsMediationGranted(d)}, v2 |-> [d \in DIDs |-> V2Answers(d)]]

TypeOK ==
  /\ ManagerTypeOK
  /\ now \in 0 .. MaxClock
  /\ responses \subseteq Response
  /\ task \in [Workers -> {Idle} \union Task]
  /\ log \in Seq(Entry)
  /\ refused \subseteq [handling : Handling, until : Nat]
  /\ finished \subseteq Handling
  /\ past \in Seq([v3 : SUBSET DIDs, v2 : [DIDs -> SUBSET BOOLEAN]])
  /\ arrivals \in 0 .. MaxArrivals
  /\ faults \in 0 .. MaxFaults

Init ==
  /\ ManagerInit
  /\ now = 0
  /\ responses = {}
  /\ task = [w \in Workers |-> Idle]
  /\ log = <<>>
  /\ refused = {}
  /\ finished = {}
  /\ past = <<Granted>>
  /\ arrivals = 0
  /\ faults = 0

------------------------------------------------------------------------------
(* Mediation changes while forwards are handled.                           *)

Tick == now < MaxClock /\ now' = now + 1 /\ UNCHANGED <<managerVars, responses, past, routingVars>>

Changed ==
  /\ Len(past) <= MaxChanges
  /\ past' = Append(past, Granted')
  /\ UNCHANGED <<policies, mediations, now, routingVars>>

Register(d) == AddRecipientDid(d, d) /\ UNCHANGED responses /\ Changed
Unregister(d) == IsMediationGranted(d) /\ RemoveRecipientDid(d) /\ UNCHANGED responses /\ Changed
Respond(d, type) ==
  /\ responses' = responses \union {[to |-> d, type |-> type, at |-> now]}
  /\ UNCHANGED recipientDids
  /\ Changed

------------------------------------------------------------------------------
(* The handler.                                                            *)

Advance(w, next) == task' = [task EXCEPT ![w] = next]

\* The same forward may arrive again: senders repeat it over every transport.
ReceiveForward(w, f) ==
  /\ task[w] = Idle
  /\ arrivals < MaxArrivals
  /\ arrivals' = arrivals + 1
  /\ Advance(w, [stage |-> "v3",
                 handling |-> [run |-> arrivals + 1, forward |-> f, since |-> Len(past)]])
  /\ UNCHANGED <<managerVars, now, responses, past, log, refused, finished, faults>>

Check(w, stage) ==
  /\ task[w].stage = stage
  /\ UNCHANGED <<managerVars, now, responses, past, log, finished, arrivals, faults>>

NextDid(w) == NextOf[task[w].handling.forward]

Queueing(w) == [stage |-> "save", handling |-> task[w].handling, next |-> 1]

\* Mutant: only version 3 is asked.
CheckV3Only(w) ==
  /\ Check(w, "v3")
  /\ \/ /\ IsMediationGranted(NextDid(w))
        /\ Advance(w, Queueing(w))
        /\ UNCHANGED refused
     \/ /\ ~IsMediationGranted(NextDid(w))
        /\ Advance(w, Idle)
        /\ refused' = refused \union {[handling |-> task[w].handling, until |-> Len(past)]}

CheckV3(w) ==
  /\ Check(w, "v3")
  /\ Advance(w, IF IsMediationGranted(NextDid(w)) THEN Queueing(w)
                ELSE [stage |-> "v2", handling |-> task[w].handling])
  /\ UNCHANGED refused

\* Mutant: any response is taken for a grant.
CheckV2AnyResponse(w) ==
  /\ Check(w, "v2")
  /\ Advance(w, IF Latest(NextDid(w)) = {} THEN Idle ELSE Queueing(w))
  /\ UNCHANGED refused

CheckV2(w) ==
  /\ Check(w, "v2")
  /\ \/ /\ TRUE \in V2Answers(NextDid(w))
        /\ Advance(w, Queueing(w))
        /\ UNCHANGED refused
     \/ /\ FALSE \in V2Answers(NextDid(w))
        /\ Advance(w, Idle)
        /\ refused' = refused \union {[handling |-> task[w].handling, until |-> Len(past)]}

\* Mutant: every copy goes to the first recipient.
SaveQueuedForFirst(w) ==
  LET t == task[w]
      kids == KidsOf[t.handling.forward] IN
  /\ t.stage = "save"
  /\ t.next <= Len(kids)
  /\ log' = Append(log, [handling |-> t.handling, to |-> kids[1],
                         position |-> t.next, until |-> Len(past)])
  /\ task' = [task EXCEPT ![w].next = @ + 1]
  /\ UNCHANGED <<managerVars, now, responses, past, refused, finished, arrivals, faults>>

\* Mutant: the copy is addressed to the DID in `next`.
SaveQueuedForNext(w) ==
  LET t == task[w]
      kids == KidsOf[t.handling.forward] IN
  /\ t.stage = "save"
  /\ t.next <= Len(kids)
  /\ log' = Append(log, [handling |-> t.handling, to |-> NextDid(w),
                         position |-> t.next, until |-> Len(past)])
  /\ task' = [task EXCEPT ![w].next = @ + 1]
  /\ UNCHANGED <<managerVars, now, responses, past, refused, finished, arrivals, faults>>

\* One recipient: the message is saved (and an event is emitted, not awaited).
SaveQueued(w) ==
  LET t == task[w]
      kids == KidsOf[t.handling.forward] IN
  /\ t.stage = "save"
  /\ t.next <= Len(kids)
  /\ log' = Append(log, [handling |-> t.handling, to |-> kids[t.next],
                         position |-> t.next, until |-> Len(past)])
  /\ task' = [task EXCEPT ![w].next = @ + 1]
  /\ UNCHANGED <<managerVars, now, responses, past, refused, finished, arrivals, faults>>

RouteDone(w) ==
  /\ task[w].stage = "save"
  /\ task[w].next > Len(KidsOf[task[w].handling.forward])
  /\ finished' = finished \union {task[w].handling}
  /\ Advance(w, Idle)
  /\ UNCHANGED <<managerVars, now, responses, past, log, refused, arrivals, faults>>

\* A check or a save throws: what is left of the forward is given up, and the
\* sender is told nothing.
RouteFails(w) ==
  /\ task[w] # Idle
  /\ faults < MaxFaults
  /\ faults' = faults + 1
  /\ Advance(w, Idle)
  /\ UNCHANGED <<managerVars, now, responses, past, log, refused, finished, arrivals>>

------------------------------------------------------------------------------

Mediation ==
  \E d \in DIDs : \/ Register(d)
                  \/ Unregister(d)
                  \/ \E type \in {"grant", "deny"} : Respond(d, type)

Next ==
  \/ Tick
  \/ Mediation
  \/ \E w \in Workers :
       \/ \E f \in Forwards : ReceiveForward(w, f)
       \/ CheckV3(w)
       \/ CheckV2(w)
       \/ SaveQueued(w)
       \/ RouteDone(w)
       \/ RouteFails(w)

Spec == Init /\ [][Next]_vars

------------------------------------------------------------------------------
(* Properties                                                              *)

(***************************************************************************)
(* A message is queued only for a forward whose `next` was granted         *)
(* mediation at some instant while the forward was handled.                *)
(***************************************************************************)
QueuedOnlyWhenMediated ==
  \A i \in DOMAIN log :
    LET h == log[i].handling
        d == NextOf[h.forward] IN
    \E k \in h.since .. log[i].until : d \in past[k].v3 \/ TRUE \in past[k].v2[d]

(***************************************************************************)
(* A forward is refused only when neither version granted mediation to its *)
(* `next` all the time it was handled: the two checks are made one after   *)
(* the other, and a grant that stays in place is never overlooked.         *)
(***************************************************************************)
RefusedOnlyWithoutMediation ==
  \A r \in refused :
    LET d == NextOf[r.handling.forward] IN
    \E j \in r.handling.since .. r.until :
      /\ d \notin past[j].v3
      /\ \E k \in j .. r.until : FALSE \in past[k].v2[d]

(***************************************************************************)
(* Whether a forward is queued or refused follows the mediation of its     *)
(* `next`, although the two versions are asked one after the other.        *)
(***************************************************************************)
FollowsMediation == QueuedOnlyWhenMediated /\ RefusedOnlyWithoutMediation

(***************************************************************************)
(* What a handling queues is the beginning of the list of recipients, each *)
(* once and in order, and the whole list once it has returned without an   *)
(* error: handlings of the same forward do not mix.                        *)
(***************************************************************************)
QueuedInFull ==
  /\ \A i \in DOMAIN log :
       LET e == log[i]
           before == {j \in 1 .. i - 1 : log[j].handling = e.handling} IN
       /\ e.position \in DOMAIN KidsOf[e.handling.forward]
       /\ e.to = KidsOf[e.handling.forward][e.position]
       /\ \A j \in before : log[j].position < e.position
       /\ e.position = 1 \/ \E j \in before : log[j].position = e.position - 1
  /\ \A h \in finished :
       \E i \in DOMAIN log : /\ log[i].handling = h
                             /\ log[i].position = Len(KidsOf[h.forward])

==============================================================================
