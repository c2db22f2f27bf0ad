----------------------------- MODULE AgentEvents -----------------------------
(***************************************************************************)
(* The events of an Agent (core/src/agent.ts): `emit` calls the listeners  *)
(* of an event type and queues their promises, and then awaits, one by     *)
(* one, whatever is in the queue, which all running emits share.  When a   *)
(* listener's promise rejects, a callback emits an error event; when a     *)
(* listener of error events rejects, it queues a rejected promise that     *)
(* makes the emit that takes it throw.                                     *)
(*                                                                         *)
(* An emit runs without interruption until it awaits a promise, so each    *)
(* action below goes from one await to the next.  What a listener does is  *)
(* taken to come after an await of its own.                                *)
(***************************************************************************)
EXTENDS Naturals, Sequences, FiniteSets

CONSTANTS
  Types,        \* event types
  ErrorType,    \* CoreEvents.error
  Listeners,    \* Listeners[t]: the plugins listening to t, as registered
  AwaitInside,  \* whether listeners may await an emit of their own
  MaxEmits,     \* bound: calls of emit
  MaxFailures   \* bound: listeners that fail

ASSUME EventsAssumption ==
  /\ ErrorType \in Types
  /\ \A t \in Types : Listeners[t] \in Seq(STRING)
  /\ AwaitInside \in BOOLEAN
  /\ MaxEmits \in Nat /\ MaxFailures \in Nat

VARIABLES
  eventQueue,   \* promises not yet taken by an emit
  promises,     \* history: every promise ever queued, by its number
  emits         \* history: every call of emit

vars == <<eventQueue, promises, emits>>

Calls == 1 .. Len(promises)
Emits == 1 .. Len(emits)

\* `hooked`: its catch callback has run.  `inside`: the emit the listener
\* awaits, or 0.  The promise made for a failing error listener has type
\* "crash" and nothing attached to it.
Promise == [type : Types \union {"crash"}, state : {"pending", "resolved", "rejected"},
            hooked : BOOLEAN, inside : Nat]
Emit == [state : {"awaiting", "returned", "threw"}, on : Nat]

TypeOK ==
  /\ promises \in Seq(Promise)
  /\ emits \in Seq(Emit)
  /\ eventQueue \in Seq(Calls)
  /\ \A e \in Emits : emits[e].on \in Calls \union {0}
  /\ \A p \in Calls : promises[p].inside \in Emits \union {0}

Init ==
  /\ eventQueue = <<>>
  /\ promises = <<>>
  /\ emits = <<>>

Crash == [type |-> "crash", state |-> "rejected", hooked |-> TRUE, inside |-> 0]
Called(type) == [type |-> type, state |-> "pending", hooked |-> FALSE, inside |-> 0]

\* The promises of the listeners of an event, and their numbers.
Invoked(type) == [i \in DOMAIN Listeners[type] |-> Called(type)]
NumbersOffByOne(new) == [i \in DOMAIN new |-> Len(promises) + i + 1]
Numbers(new) == [i \in DOMAIN new |-> Len(promises) + i]

\* An emit takes the first promise of a queue and awaits it, or returns.
Take(queue) ==
  IF queue = <<>> THEN [state |-> "returned", on |-> 0]
                  ELSE [state |-> "awaiting", on |-> Head(queue)]
TakenWithoutShift(queue) == queue
Taken(queue) == IF queue = <<>> THEN <<>> ELSE Tail(queue)

------------------------------------------------------------------------------
(* emit                                                                    *)

\* The synchronous part of emit, up to its first await or its end.
StartEmit(type) ==
  LET queue == eventQueue \o Numbers(Invoked(type)) IN
  /\ Len(emits) < MaxEmits
  /\ emits' = Append(emits, Take(queue))
  /\ eventQueue' = Taken(queue)

\* The application emits, or a listener that goes on without awaiting.
FireAndForget(type) ==
  /\ StartEmit(type)
  /\ promises' = promises \o Invoked(type)

\* A listener awaits the promise of an emit of its own.
EmitInside(p, type) ==
  /\ AwaitInside
  /\ promises[p].state = "pending" /\ promises[p].inside = 0
  /\ StartEmit(type)
  /\ promises' = [promises EXCEPT ![p].inside = Len(emits) + 1] \o Invoked(type)

SettledWhenFulfilled(p) == promises[p].state = "resolved" /\ promises[p].hooked
Settled(p) == promises[p].state # "pending" /\ promises[p].hooked

\* An `if` where the code has a `while`: the emit returns after one promise.
ContinueOnce(e) ==
  /\ emits[e].state = "awaiting"
  /\ Settled(emits[e].on)
  /\ emits' = [emits EXCEPT ![e] = [state |-> "returned", on |-> 0]]
  /\ UNCHANGED <<eventQueue, promises>>

\* The awaited promise is settled.  Its catch callback was attached before the
\* emit awaited it, so it has run.
Continue(e) ==
  LET p == emits[e].on IN
  /\ emits[e].state = "awaiting"
  /\ Settled(p)
  /\ IF promises[p].type = "crash"
     THEN /\ emits' = [emits EXCEPT ![e] = [state |-> "threw", on |-> 0]]
          /\ UNCHANGED eventQueue
     ELSE /\ emits' = [emits EXCEPT ![e] = Take(eventQueue)]
          /\ eventQueue' = Taken(eventQueue)
  /\ UNCHANGED promises

------------------------------------------------------------------------------
(* Listeners and the callbacks of their promises                           *)

Failures == {p \in Calls : promises[p].state = "rejected" /\ promises[p].type # "crash"}

Settle(p, state) ==
  /\ promises[p].state = "pending"
  /\ promises[p].inside = 0
  /\ state = "rejected" => Cardinality(Failures) < MaxFailures
  /\ promises' = [promises EXCEPT ![p] = [@ EXCEPT !.state = state, !.hooked = (state = "resolved")]]
  /\ UNCHANGED <<eventQueue, emits>>

\* An error thrown by the inner emit is caught by the listener, or rejects it.
Resume(p) ==
  LET e == promises[p].inside IN
  /\ e # 0
  /\ emits[e].state # "awaiting"
  /\ \/ promises' = [promises EXCEPT ![p].inside = 0]
     \/ /\ emits[e].state = "threw"
        /\ promises' = [promises EXCEPT ![p] = [@ EXCEPT !.inside = 0, !.state = "rejected"]]
  /\ UNCHANGED <<eventQueue, emits>>

\* The listeners of the error event are called but not queued.
RunCatchUnqueued(p) ==
  /\ promises[p].state = "rejected"
  /\ ~promises[p].hooked
  /\ promises' = [promises EXCEPT ![p].hooked = TRUE] \o Invoked(ErrorType)
  /\ UNCHANGED <<eventQueue, emits>>

\* promise?.catch(...) of a listener
RunCatch(p) ==
  LET new == IF promises[p].type = ErrorType THEN <<Crash>> ELSE Invoked(ErrorType) IN
  /\ promises[p].state = "rejected"
  /\ ~promises[p].hooked
  /\ promises' = [promises EXCEPT ![p].hooked = TRUE] \o new
  /\ eventQueue' = eventQueue \o Numbers(new)
  /\ UNCHANGED emits

------------------------------------------------------------------------------

ListenerEnds(p) == Settle(p, "resolved") \/ Settle(p, "rejected")

Next ==
  \/ \E type \in Types : FireAndForget(type)
  \/ \E p \in Calls, type \in Types : EmitInside(p, type)
  \/ \E e \in Emits : Continue(e)
  \/ \E p \in Calls : ListenerEnds(p)
  \/ \E p \in Calls : Resume(p)
  \/ \E p \in Calls : RunCatch(p)

Spec == Init /\ [][Next]_vars

\* The event loop runs what can run; that listeners come to an end is the
\* assumption on the plugins.
Fairness ==
  /\ WF_vars(\E e \in Emits : Continue(e))
  /\ WF_vars(\E p \in Calls : ListenerEnds(p))
  /\ WF_vars(\E p \in Calls : Resume(p))
  /\ WF_vars(\E p \in Calls : RunCatch(p))

FairSpec == Spec /\ Fairness

------------------------------------------------------------------------------
(* Properties                                                              *)

Awaited(p) == \E e \in Emits : emits[e].state = "awaiting" /\ emits[e].on = p
Queued(p) == \E i \in DOMAIN eventQueue : eventQueue[i] = p

(***************************************************************************)
(* No listener is forgotten: until its promise is settled and its failure  *)
(* reported, it is awaited by an emit or waits in the queue for one.       *)
(***************************************************************************)
NobodyForgotten == \A p \in Calls : Settled(p) \/ Awaited(p) \/ Queued(p)

(***************************************************************************)
(* The queue never waits for nobody: while it holds a promise some emit is *)
(* at work, unless an emit has thrown the error of an error listener and   *)
(* left the rest of the queue to the next one.                             *)
(***************************************************************************)
QueueIsDrained ==
  eventQueue # <<>> => \E e \in Emits : emits[e].state \in {"awaiting", "threw"}

(***************************************************************************)
(* A promise is taken by one emit only, and no longer queued: the emits    *)
(* that share the queue never await the same listener.                     *)
(***************************************************************************)
TakenOnce ==
  /\ \A d, e \in Emits :
       emits[d].state = "awaiting" /\ emits[e].state = "awaiting" /\ emits[d].on = emits[e].on
         => d = e
  /\ \A e \in Emits : emits[e].state = "awaiting" => ~Queued(emits[e].on)
  /\ \A i, j \in DOMAIN eventQueue : eventQueue[i] = eventQueue[j] => i = j

\* Emits that wait for one another: each awaits a listener that awaits the next.
WaitingInACircle(e) ==
  \E S \in SUBSET Emits :
    /\ e \in S
    /\ \A d \in S : emits[d].state = "awaiting" /\ promises[emits[d].on].inside \in S

(***************************************************************************)
(* Every emit ends, also when listeners of errors fail, unless listeners   *)
(* that await emits have taken their own promises off the shared queue and *)
(* wait for themselves: nothing else keeps an emit from ending.            *)
(***************************************************************************)
EveryEmitEnds ==
  \A e \in 1 .. MaxEmits :
    (e \in Emits /\ emits[e].state = "awaiting") ~>
      (e \in Emits /\ (emits[e].state # "awaiting" \/ WaitingInACircle(e)))

==============================================================================
