-------------------------- MODULE AgentEvents_proofs -------------------------
(***************************************************************************)
(* Proofs about the events of an agent, for every set of event types, any  *)
(* listeners and any number of emits and failures: the bookkeeping of the  *)
(* queue that all emits share.                                             *)
(* Below, about the SQL stores of an agent, for any records, callers and   *)
(* crashes: SqlStores, Migrations, the layout of their database, and       *)
(* Records, the columns of its rows.                                       *)
(***************************************************************************)
EXTENDS DataRecords, AgentEvents, Integers, Filters_proofs, TLAPS

In(queue, p) == \E i \in DOMAIN queue : queue[i] = p
From(n, m) == [i \in 1 .. m |-> n + i]
Distinct(queue) == \A i, j \in DOMAIN queue : queue[i] = queue[j] => i = j

\* What holds of a queue and the emits that share it, with n promises.
Shared(queue, ems, n) ==
  /\ queue \in Seq(1 .. n)
  /\ ems \in Seq(Emit)
  /\ Distinct(queue)
  /\ \A e \in 1 .. Len(ems) : ems[e].on \in 1 .. n \union {0}
  /\ \A e \in 1 .. Len(ems) : ems[e].state = "awaiting" => ems[e].on # 0 /\ ~In(queue, ems[e].on)
  /\ \A d, e \in 1 .. Len(ems) :
       ems[d].state = "awaiting" /\ ems[e].state = "awaiting" /\ ems[d].on = ems[e].on => d = e

PromisesInv ==
  /\ promises \in Seq(Promise)
  /\ \A p \in Calls : promises[p].inside \in Emits \union {0}
  /\ \A p \in Calls : promises[p].inside # 0 => promises[p].state = "pending"

EventsInv ==
  /\ Shared(eventQueue, emits, Len(promises))
  /\ PromisesInv
  /\ NobodyForgotten
  /\ QueueIsDrained

------------------------------------------------------------------------------
(* Queues                                                                  *)

\* Shifting a queue of distinct promises.
LEMMA Shift ==
  ASSUME NEW S, NEW queue \in Seq(S), queue # <<>>, Distinct(queue)
  PROVE  /\ Head(queue) \in S
         /\ Tail(queue) \in Seq(S)
         /\ Distinct(Tail(queue))
         /\ ~In(Tail(queue), Head(queue))
         /\ \A p : In(queue, p) <=> p = Head(queue) \/ In(Tail(queue), p)
<1>1. /\ Len(queue) \in Nat \ {0} /\ Head(queue) = queue[1]
      /\ Head(queue) \in S /\ Tail(queue) \in Seq(S)
  OBVIOUS
<1>2. /\ DOMAIN queue = 1 .. Len(queue)
      /\ DOMAIN Tail(queue) = 1 .. Len(queue) - 1
      /\ \A i \in DOMAIN Tail(queue) : Tail(queue)[i] = queue[i + 1]
  BY <1>1
<1>3. Distinct(Tail(queue)) /\ ~In(Tail(queue), Head(queue))
  BY <1>1, <1>2 DEF Distinct, In
<1>4. ASSUME NEW p, In(queue, p)  PROVE p = Head(queue) \/ In(Tail(queue), p)
  <2>1. PICK i \in DOMAIN queue : queue[i] = p
    BY <1>4 DEF In
  <2>2. CASE i = 1
    BY <2>1, <2>2, <1>1
  <2>3. CASE i # 1
    <3>1. i - 1 \in DOMAIN Tail(queue) /\ Tail(queue)[i - 1] = p
      BY <2>1, <2>3, <1>1, <1>2
    <3> QED  BY <3>1 DEF In
  <2> QED  BY <2>2, <2>3
<1>5. ASSUME NEW p, p = Head(queue) \/ In(Tail(queue), p)  PROVE In(queue, p)
  <2>1. CASE p = Head(queue)
    BY <2>1, <1>1, <1>2 DEF In
  <2>2. CASE In(Tail(queue), p)
    <3>1. PICK i \in DOMAIN Tail(queue) : Tail(queue)[i] = p
      BY <2>2 DEF In
    <3>2. i + 1 \in DOMAIN queue /\ queue[i + 1] = p
      BY <3>1, <1>1, <1>2
    <3> QED  BY <3>2 DEF In
  <2> QED  BY <1>5, <2>1, <2>2
<1> QED  BY <1>1, <1>3, <1>4, <1>5

LEMMA Concatenation ==
  ASSUME NEW S, NEW s \in Seq(S), NEW t \in Seq(S)
  PROVE  /\ s \o t \in Seq(S)
         /\ Len(s \o t) = Len(s) + Len(t)
         /\ \A i \in 1 .. Len(s) : (s \o t)[i] = s[i]
         /\ \A i \in Len(s) + 1 .. Len(s) + Len(t) :
              (s \o t)[i] = t[i - Len(s)] /\ i - Len(s) \in 1 .. Len(t)
OBVIOUS

\* Queueing m new promises behind k of the first n, by the indices.
LEMMA QueueingByIndex ==
  ASSUME NEW n \in Nat, NEW m \in Nat, NEW k \in Nat, NEW queue, NEW longer,
         DOMAIN queue = 1 .. k, DOMAIN longer = 1 .. k + m, Distinct(queue),
         \A i \in 1 .. k : longer[i] = queue[i] /\ queue[i] \in 1 .. n,
         \A i \in k + 1 .. k + m : longer[i] = n + i - k
  PROVE  /\ Distinct(longer)
         /\ \A p : In(longer, p) <=> In(queue, p) \/ p \in n + 1 .. n + m
<1>1. ASSUME NEW i \in 1 .. k + m, NEW j \in 1 .. k + m, longer[i] = longer[j]  PROVE i = j
  <2>1. CASE i \in 1 .. k /\ j \in 1 .. k
    BY <2>1, <1>1 DEF Distinct
  <2>2. CASE i \in 1 .. k /\ j \in k + 1 .. k + m
    BY <2>2, <1>1
  <2>3. CASE i \in k + 1 .. k + m /\ j \in 1 .. k
    BY <2>3, <1>1
  <2>4. CASE i \in k + 1 .. k + m /\ j \in k + 1 .. k + m
    BY <2>4, <1>1
  <2> QED  BY <2>1, <2>2, <2>3, <2>4
<1>2. ASSUME NEW p, In(longer, p)  PROVE In(queue, p) \/ p \in n + 1 .. n + m
  <2>1. PICK i \in 1 .. k + m : longer[i] = p
    BY <1>2 DEF In
  <2>2. CASE i \in 1 .. k
    BY <2>1, <2>2 DEF In
  <2>3. CASE i \in k + 1 .. k + m
    BY <2>1, <2>3
  <2> QED  BY <2>2, <2>3
<1>3. ASSUME NEW p, In(queue, p)  PROVE In(longer, p)
  <2>1. PICK i \in 1 .. k : queue[i] = p
    BY <1>3 DEF In
  <2>2. i \in 1 .. k + m /\ longer[i] = p
    BY <2>1
  <2> QED  BY <2>2 DEF In
<1>4. ASSUME NEW p \in n + 1 .. n + m  PROVE In(longer, p)
  <2>1. p - n + k \in k + 1 .. k + m /\ p - n + k \in 1 .. k + m /\ n + (p - n + k) - k = p
    OBVIOUS
  <2>2. longer[p - n + k] = p
    BY <2>1
  <2> QED  BY <2>1, <2>2 DEF In
<1> QED  BY <1>1, <1>2, <1>3, <1>4 DEF Distinct

\* Queueing the promises of m newly called listeners.
LEMMA Queueing ==
  ASSUME NEW n \in Nat, NEW m \in Nat, NEW queue \in Seq(1 .. n), Distinct(queue)
  PROVE  /\ queue \o From(n, m) \in Seq(1 .. n + m)
         /\ Distinct(queue \o From(n, m))
         /\ \A p : In(queue \o From(n, m), p) <=> In(queue, p) \/ p \in n + 1 .. n + m
<1> DEFINE longer == queue \o From(n, m)
           k == Len(queue)
<1>1. k \in Nat /\ DOMAIN queue = 1 .. k /\ \A i \in 1 .. k : queue[i] \in 1 .. n
  OBVIOUS
<1>2. From(n, m) \in Seq(1 .. n + m) /\ Len(From(n, m)) = m /\ queue \in Seq(1 .. n + m)
  BY DEF From
<1>3. /\ longer \in Seq(1 .. n + m) /\ Len(longer) = k + m
      /\ \A i \in 1 .. k : longer[i] = queue[i]
      /\ \A i \in k + 1 .. k + m : longer[i] = From(n, m)[i - k] /\ i - k \in 1 .. m
  <2> DEFINE new == From(n, m)
  <2>1. new \in Seq(1 .. n + m) /\ Len(new) = m
    BY <1>2
  <2> HIDE DEF new
  <2>2. /\ queue \o new \in Seq(1 .. n + m)
        /\ Len(queue \o new) = Len(queue) + Len(new)
        /\ \A i \in 1 .. Len(queue) : (queue \o new)[i] = queue[i]
        /\ \A i \in Len(queue) + 1 .. Len(queue) + Len(new) :
             (queue \o new)[i] = new[i - Len(queue)] /\ i - Len(queue) \in 1 .. Len(new)
    BY <1>2, <2>1, Concatenation
  <2> QED  BY <2>1, <2>2 DEF new
<1>4. \A i \in k + 1 .. k + m : longer[i] = n + i - k
  <2> SUFFICES ASSUME NEW i \in k + 1 .. k + m  PROVE From(n, m)[i - k] = n + i - k
    BY <1>3
  <2>1. i - k \in 1 .. m
    BY <1>3
  <2> QED  BY <1>1, <2>1 DEF From
<1>5. DOMAIN longer = 1 .. k + m
  BY <1>3
<1> HIDE DEF k, longer
<1>6. Distinct(longer) /\ \A p : In(longer, p) <=> In(queue, p) \/ p \in n + 1 .. n + m
  BY <1>1, <1>3, <1>4, <1>5, QueueingByIndex
<1> QED  BY <1>3, <1>6 DEF longer

\* The promises of the listeners of an event.
LEMMA InvokedType ==
  ASSUME EventsAssumption, NEW type \in Types
  PROVE  /\ Invoked(type) \in Seq(Promise)
         /\ \A i \in 1 .. Len(Invoked(type)) : Invoked(type)[i] = Called(type)
<1>1. Called(type) \in Promise
  BY DEF Called, Promise
<1>2. /\ DOMAIN Listeners[type] = 1 .. Len(Listeners[type])
      /\ Len(Listeners[type]) \in Nat
  BY DEF EventsAssumption
<1> HIDE DEF Called
<1> QED  BY <1>1, <1>2 DEF Invoked

------------------------------------------------------------------------------
(* Emits at the shared queue                                               *)

LEMMA Longer ==
  ASSUME NEW n \in Nat, NEW m \in Nat, NEW queue, NEW ems, Shared(queue, ems, n),
         NEW longer, longer = queue \o From(n, m)
  PROVE  /\ Shared(longer, ems, n + m)
         /\ \A p : In(queue, p) => In(longer, p)
         /\ \A p \in n + 1 .. n + m : In(longer, p)
<1>1. /\ longer \in Seq(1 .. n + m) /\ Distinct(longer)
      /\ \A p : In(longer, p) <=> In(queue, p) \/ p \in n + 1 .. n + m
  BY Queueing DEF Shared
<1>2. \A e \in 1 .. Len(ems) : ems[e].on \in 1 .. n + m \union {0}
  BY DEF Shared
<1>3. ASSUME NEW e \in 1 .. Len(ems), ems[e].state = "awaiting"  PROVE ~In(longer, ems[e].on)
  <2>1. ems[e].on \in 1 .. n /\ ~In(queue, ems[e].on)
    BY <1>3 DEF Shared
  <2> QED  BY <2>1, <1>1
<1> QED  BY <1>1, <1>2, <1>3 DEF Shared

\* What an emit that takes from a queue leaves, and what it awaits.
LEMMA Taking ==
  ASSUME NEW n \in Nat, NEW queue, NEW ems, Shared(queue, ems, n)
  PROVE  /\ Taken(queue) \in Seq(1 .. n) /\ Distinct(Taken(queue))
         /\ Take(queue) \in Emit /\ Take(queue).on \in 1 .. n \union {0}
         /\ \A p : In(queue, p) <=>
              In(Taken(queue), p) \/ (Take(queue).state = "awaiting" /\ Take(queue).on = p)
         /\ Take(queue).state = "awaiting" =>
              Take(queue).on # 0 /\ In(queue, Take(queue).on) /\ ~In(Taken(queue), Take(queue).on)
         /\ Taken(queue) # <<>> => Take(queue).state = "awaiting"
<1>1. CASE queue = <<>>
  <2>1. Taken(queue) = <<>> /\ Take(queue) = [state |-> "returned", on |-> 0]
    BY <1>1 DEF Taken, Take
  <2>2. Distinct(Taken(queue)) /\ \A p : ~In(queue, p)
    BY <1>1, <2>1 DEF Distinct, In
  <2>3. Taken(queue) \in Seq(1 .. n)
    BY <2>1
  <2>4. Take(queue) \in Emit /\ Take(queue).on = 0 /\ Take(queue).state # "awaiting"
    BY <2>1 DEF Emit
  <2>5. \A p : ~In(Taken(queue), p)
    BY <1>1, <2>1, <2>2
  <2> QED  BY <2>1, <2>2, <2>3, <2>4, <2>5
<1>2. CASE queue # <<>>
  <2>1. /\ Taken(queue) = Tail(queue)
        /\ Take(queue) = [state |-> "awaiting", on |-> Head(queue)]
    BY <1>2 DEF Taken, Take
  <2>2. /\ Head(queue) \in 1 .. n
        /\ Tail(queue) \in Seq(1 .. n)
        /\ Distinct(Tail(queue))
        /\ ~In(Tail(queue), Head(queue))
        /\ \A p : In(queue, p) <=> p = Head(queue) \/ In(Tail(queue), p)
    BY <1>2, Shift DEF Shared
  <2> QED  BY <2>1, <2>2 DEF Emit
<1> QED  BY <1>1, <1>2

\* The emits when one of them, e, has taken from the queue.
LEMMA TakingKeepsShared ==
  ASSUME NEW n \in Nat, NEW queue, NEW ems, NEW new, Shared(queue, ems, n),
         new \in Seq(Emit),
         NEW e \in 1 .. Len(new), new[e] = Take(queue),
         \A d \in 1 .. Len(new) : d # e => d \in 1 .. Len(ems) /\ new[d] = ems[d]
  PROVE  Shared(Taken(queue), new, n)
<1>1. /\ Taken(queue) \in Seq(1 .. n) /\ Distinct(Taken(queue))
      /\ Take(queue).on \in 1 .. n \union {0}
      /\ \A p : In(Taken(queue), p) => In(queue, p)
      /\ Take(queue).state = "awaiting" =>
           Take(queue).on # 0 /\ In(queue, Take(queue).on) /\ ~In(Taken(queue), Take(queue).on)
  BY Taking
<1>2. \A d \in 1 .. Len(new) : new[d].on \in 1 .. n \union {0}
  BY <1>1 DEF Shared
<1>3. \A d \in 1 .. Len(new) :
        new[d].state = "awaiting" => new[d].on # 0 /\ ~In(Taken(queue), new[d].on)
  BY <1>1 DEF Shared
<1>4. ASSUME NEW c \in 1 .. Len(new), NEW d \in 1 .. Len(new),
             new[c].state = "awaiting", new[d].state = "awaiting", new[c].on = new[d].on
      PROVE  c = d
  <2>1. CASE c # e /\ d # e
    BY <2>1, <1>4 DEF Shared
  <2>2. CASE c = e /\ d # e
    BY <2>2, <1>1, <1>4 DEF Shared
  <2>3. CASE c # e /\ d = e
    BY <2>3, <1>1, <1>4 DEF Shared
  <2> QED  BY <2>1, <2>2, <2>3
<1> QED  BY <1>1, <1>2, <1>3, <1>4 DEF Shared

------------------------------------------------------------------------------
(* The invariant is inductive                                              *)

LEMMA InitInv == Init => EventsInv
BY DEF Init, EventsInv, Shared, PromisesInv, NobodyForgotten, QueueIsDrained,
       Calls, Emits, Distinct

\* A call of emit, whose listeners' promises join those of old, which differ
\* from the promises so far at most in what they await.
LEMMA StartKeepsInv ==
  ASSUME EventsAssumption, EventsInv, NEW type \in Types, StartEmit(type),
         NEW old \in Seq(Promise), Len(old) = Len(promises),
         \A p \in Calls : /\ old[p].state = promises[p].state
                          /\ old[p].hooked = promises[p].hooked
                          /\ old[p].inside \in 1 .. Len(emits) + 1 \union {0}
                          /\ old[p].inside # 0 => old[p].state = "pending",
         promises' = old \o Invoked(type)
  PROVE  EventsInv'
<1> DEFINE n == Len(promises)
           m == Len(Invoked(type))
           queue == eventQueue \o Numbers(Invoked(type))
<1>1. /\ n \in Nat /\ m \in Nat /\ emits \in Seq(Emit) /\ Len(emits) \in Nat
      /\ Invoked(type) \in Seq(Promise)
      /\ \A i \in 1 .. m : Invoked(type)[i] = Called(type)
  BY InvokedType DEF EventsInv, PromisesInv, Shared
<1>2. queue = eventQueue \o From(n, m)
  <2>1. DOMAIN Invoked(type) = 1 .. m
    BY <1>1
  <2> QED  BY <2>1 DEF Numbers, From
<1>3. /\ emits' = Append(emits, Take(queue))
      /\ eventQueue' = Taken(queue)
  BY DEF StartEmit
<1>4. /\ promises' \in Seq(Promise) /\ Len(promises') = n + m
      /\ \A p \in 1 .. n : promises'[p] = old[p]
      /\ \A p \in n + 1 .. n + m : promises'[p] = Called(type)
  <2> DEFINE new == Invoked(type)
  <2>1. new \in Seq(Promise) /\ \A i \in 1 .. Len(new) : new[i] = Called(type)
    BY <1>1
  <2>2. promises' = old \o new
    OBVIOUS
  <2> HIDE DEF new
  <2>3. /\ old \o new \in Seq(Promise)
        /\ Len(old \o new) = Len(old) + Len(new)
        /\ \A i \in 1 .. Len(old) : (old \o new)[i] = old[i]
        /\ \A i \in Len(old) + 1 .. Len(old) + Len(new) :
             (old \o new)[i] = new[i - Len(old)] /\ i - Len(old) \in 1 .. Len(new)
    BY <2>1, Concatenation
  <2> QED  BY <2>1, <2>2, <2>3 DEF new
<1> HIDE DEF n, m, queue
<1>5. /\ Shared(queue, emits, n + m)
      /\ \A p : In(eventQueue, p) => In(queue, p)
      /\ \A p \in n + 1 .. n + m : In(queue, p)
  <2>1. Shared(eventQueue, emits, n)
    BY DEF EventsInv, n
  <2> QED  BY <1>1, <1>2, <2>1, Longer
<1>6. /\ Take(queue) \in Emit
      /\ \A p : In(queue, p) =>
           In(Taken(queue), p) \/ (Take(queue).state = "awaiting" /\ Take(queue).on = p)
      /\ Taken(queue) # <<>> => Take(queue).state = "awaiting"
  BY <1>1, <1>5, Taking
<1>7. /\ emits' \in Seq(Emit) /\ Len(emits') = Len(emits) + 1
      /\ emits'[Len(emits) + 1] = Take(queue)
      /\ \A e \in 1 .. Len(emits) : emits'[e] = emits[e]
  BY <1>1, <1>3, <1>6
<1>8. Shared(eventQueue, emits, Len(promises))'
  <2>1. Len(emits) + 1 \in 1 .. Len(emits')
    BY <1>1, <1>7
  <2>2. \A d \in 1 .. Len(emits') :
          d # Len(emits) + 1 => d \in 1 .. Len(emits) /\ emits'[d] = emits[d]
    BY <1>1, <1>7
  <2>3. Shared(Taken(queue), emits', n + m)
    <3>1. n + m \in Nat
      BY <1>1
    <3> QED  BY <3>1, <1>5, <1>7, <2>1, <2>2, TakingKeepsShared
  <2> QED  BY <2>3, <1>3, <1>4 DEF Shared, In, Distinct, Emit
<1>9. PromisesInv'
  <2>1. Called(type).inside = 0
    BY DEF Called
  <2>2. ASSUME NEW p \in 1 .. n + m  PROVE promises'[p].inside \in 1 .. Len(emits') \union {0}
    <3>1. CASE p \in 1 .. n
      BY <3>1, <1>4, <1>7 DEF Calls, n
    <3>2. CASE p \in n + 1 .. n + m
      BY <3>2, <1>4, <2>1
    <3>3. p \in 1 .. n \/ p \in n + 1 .. n + m
      BY <1>1
    <3> QED  BY <3>1, <3>2, <3>3
  <2>3. ASSUME NEW p \in 1 .. n + m, promises'[p].inside # 0  PROVE promises'[p].state = "pending"
    <3>1. CASE p \in 1 .. n
      BY <3>1, <2>3, <1>4 DEF Calls, n
    <3>2. CASE p \in n + 1 .. n + m
      BY <3>2, <2>3, <1>4, <2>1
    <3>3. p \in 1 .. n \/ p \in n + 1 .. n + m
      BY <1>1
    <3> QED  BY <3>1, <3>2, <3>3
  <2> QED  BY <2>2, <2>3, <1>4 DEF PromisesInv, Calls, Emits
<1>10. NobodyForgotten'
  <2> SUFFICES ASSUME NEW p \in 1 .. n + m
               PROVE  (Settled(p) \/ Awaited(p) \/ Queued(p))'
    BY <1>4 DEF NobodyForgotten, Calls
  <2>1. ASSUME In(queue, p)  PROVE (Awaited(p) \/ Queued(p))'
    <3>1. CASE In(Taken(queue), p)
      BY <3>1, <1>3 DEF In, Queued
    <3>2. CASE Take(queue).state = "awaiting" /\ Take(queue).on = p
      <4>1. Len(emits) + 1 \in 1 .. Len(emits')
        BY <1>1, <1>7
      <4> QED  BY <3>2, <4>1, <1>7 DEF Awaited, Emits
    <3> QED  BY <2>1, <3>1, <3>2, <1>6
  <2>2. CASE p \in 1 .. n
    <3>1. CASE Settled(p)
      BY <2>2, <3>1, <1>4 DEF Settled, Calls, n
    <3>2. CASE Awaited(p)
      <4>1. PICK e \in 1 .. Len(emits) : emits[e].state = "awaiting" /\ emits[e].on = p
        BY <3>2 DEF Awaited, Emits
      <4>2. e \in 1 .. Len(emits') /\ emits'[e] = emits[e]
        BY <1>1, <1>7
      <4> QED  BY <4>1, <4>2 DEF Awaited, Emits
    <3>3. CASE Queued(p)
      <4>1. In(eventQueue, p)
        BY <3>3 DEF Queued, In
      <4> QED  BY <4>1, <2>1, <1>5
    <3> QED  BY <2>2, <3>1, <3>2, <3>3 DEF EventsInv, NobodyForgotten, Calls, n
  <2>3. CASE p \in n + 1 .. n + m
    BY <2>1, <2>3, <1>5
  <2> QED  BY <2>2, <2>3, <1>1
<1>11. QueueIsDrained'
  <2>1. Len(emits) + 1 \in 1 .. Len(emits')
    BY <1>1, <1>7
  <2> QED  BY <2>1, <1>3, <1>6, <1>7 DEF QueueIsDrained, Emits
<1> QED  BY <1>8, <1>9, <1>10, <1>11 DEF EventsInv

LEMMA FireAndForgetKeepsInv ==
  ASSUME EventsAssumption, EventsInv, NEW type \in Types, FireAndForget(type)
  PROVE  EventsInv'
<1>1. promises \in Seq(Promise) /\ Len(emits) \in Nat
  BY DEF EventsInv, PromisesInv, Shared
<1>2. \A p \in Calls : /\ promises[p].inside \in 1 .. Len(emits) + 1 \union {0}
                       /\ promises[p].inside # 0 => promises[p].state = "pending"
  BY <1>1 DEF EventsInv, PromisesInv, Emits
<1> QED  BY <1>1, <1>2, StartKeepsInv DEF FireAndForget

LEMMA EmitInsideKeepsInv ==
  ASSUME EventsAssumption, EventsInv, NEW p \in Calls, NEW type \in Types, EmitInside(p, type)
  PROVE  EventsInv'
<1> DEFINE new == [promises[p] EXCEPT !.inside = Len(emits) + 1]
           old == [promises EXCEPT ![p] = new]
<1>1. promises \in Seq(Promise) /\ Len(emits) \in Nat
  BY DEF EventsInv, PromisesInv, Shared
<1>2. old \in Seq(Promise) /\ Len(old) = Len(promises)
  <2>1. promises[p] \in Promise
    BY <1>1 DEF Calls
  <2>2. new \in Promise
    <3> DEFINE k == Len(emits) + 1
    <3>1. k \in Nat
      BY <1>1
    <3> HIDE DEF k
    <3>2. [promises[p] EXCEPT !.inside = k] \in Promise
      BY <2>1, <3>1 DEF Promise
    <3> QED  BY <3>2 DEF k
  <2> HIDE DEF new
  <2> QED  BY <1>1, <2>2 DEF Calls
<1>3. \A q \in Calls : /\ old[q].state = promises[q].state
                       /\ old[q].hooked = promises[q].hooked
                       /\ old[q].inside \in 1 .. Len(emits) + 1 \union {0}
                       /\ old[q].inside # 0 => old[q].state = "pending"
  BY <1>1 DEF EmitInside, EventsInv, PromisesInv, Emits, Calls, Promise
<1>4. StartEmit(type) /\ promises' = old \o Invoked(type)
  BY DEF EmitInside
<1> HIDE DEF old
<1> QED  BY <1>2, <1>3, <1>4, StartKeepsInv

\* An emit that stops because of a failing error listener.
LEMMA ThrowingKeepsShared ==
  ASSUME NEW n \in Nat, NEW queue, NEW ems, Shared(queue, ems, n), NEW e \in 1 .. Len(ems)
  PROVE  Shared(queue, [ems EXCEPT ![e] = [state |-> "threw", on |-> 0]], n)
BY DEF Shared, Emit

LEMMA ContinueKeepsInv ==
  ASSUME EventsInv, NEW e \in Emits, Continue(e)
  PROVE  EventsInv'
<1> DEFINE n == Len(promises)
<1>1. /\ promises' = promises /\ n \in Nat
      /\ Shared(eventQueue, emits, n) /\ emits \in Seq(Emit)
      /\ emits[e].state = "awaiting" /\ Settled(emits[e].on)
  BY DEF EventsInv, PromisesInv, Shared, Continue
<1> HIDE DEF n
<1>2. CASE /\ emits' = [emits EXCEPT ![e] = [state |-> "threw", on |-> 0]]
           /\ eventQueue' = eventQueue
  <2>1. Shared(eventQueue', emits', n)
    BY <1>1, <1>2, ThrowingKeepsShared DEF Emits
  <2>2. Len(emits') = Len(emits) /\ \A d \in Emits : d # e => emits'[d] = emits[d]
    BY <1>1, <1>2 DEF Emits
  <2>3. emits'[e].state = "threw"
    BY <1>1, <1>2 DEF Emits
  <2>4. ASSUME NEW p \in Calls  PROVE (Settled(p) \/ Awaited(p) \/ Queued(p))'
    BY <1>1, <1>2, <2>2 DEF EventsInv, NobodyForgotten, Settled, Awaited, Queued, Emits
  <2> QED  BY <1>1, <2>1, <2>2, <2>3, <2>4
           DEF EventsInv, PromisesInv, NobodyForgotten, QueueIsDrained, Calls, Emits, n,
               Shared, Distinct, In, Emit
<1>3. CASE emits' = [emits EXCEPT ![e] = Take(eventQueue)] /\ eventQueue' = Taken(eventQueue)
  <2>1. /\ Take(eventQueue) \in Emit
        /\ \A p : In(eventQueue, p) =>
             \/ In(Taken(eventQueue), p)
             \/ Take(eventQueue).state = "awaiting" /\ Take(eventQueue).on = p
        /\ Taken(eventQueue) # <<>> => Take(eventQueue).state = "awaiting"
    BY <1>1, Taking
  <2>2. /\ emits' \in Seq(Emit) /\ Len(emits') = Len(emits) /\ emits'[e] = Take(eventQueue)
        /\ \A d \in 1 .. Len(emits) : d # e => emits'[d] = emits[d]
    BY <1>1, <1>3, <2>1 DEF Emits
  <2>3. Shared(eventQueue', emits', n)
    BY <1>1, <1>3, <2>2, TakingKeepsShared DEF Emits
  <2>4. ASSUME NEW p \in Calls  PROVE (Settled(p) \/ Awaited(p) \/ Queued(p))'
    <3>1. CASE Settled(p)
      BY <3>1, <1>1 DEF Settled
    <3>2. CASE Queued(p) /\ In(Taken(eventQueue), p)
      BY <3>2, <1>3 DEF Queued, In
    <3>3. CASE Queued(p) /\ Take(eventQueue).state = "awaiting" /\ Take(eventQueue).on = p
      BY <3>3, <2>2 DEF Awaited, Emits
    <3>4. CASE Awaited(p) /\ ~Settled(p)
      <4>1. PICK d \in Emits : emits[d].state = "awaiting" /\ emits[d].on = p
        BY <3>4 DEF Awaited
      <4>2. d # e
        BY <4>1, <3>4, <1>1
      <4> QED  BY <4>1, <4>2, <2>2 DEF Awaited, Emits
    <3>5. Queued(p) <=> In(eventQueue, p)
      BY DEF Queued, In
    <3> QED  BY <3>1, <3>2, <3>3, <3>4, <3>5, <2>1 DEF EventsInv, NobodyForgotten
  <2>5. QueueIsDrained'
    BY <1>3, <2>1, <2>2 DEF QueueIsDrained, Emits
  <2> QED  BY <1>1, <2>2, <2>3, <2>4, <2>5
           DEF EventsInv, PromisesInv, NobodyForgotten, Calls, Emits, n,
               Shared, Distinct, In, Emit
<1> QED  BY <1>2, <1>3 DEF Continue

\* A listener or its callback changes promises only, forgetting none.
LEMMA PromiseChangeKeepsInv ==
  ASSUME EventsInv, UNCHANGED <<eventQueue, emits>>,
         promises' \in Seq(Promise), Len(promises') = Len(promises),
         \A p \in Calls : /\ promises'[p].inside \in Emits \union {0}
                          /\ promises'[p].inside # 0 => promises'[p].state = "pending"
                          /\ Settled(p) => Settled(p)'
  PROVE  EventsInv'
<1>1. NobodyForgotten'
  BY DEF EventsInv, NobodyForgotten, Awaited, Queued, Emits, Calls
<1>2. Shared(eventQueue, emits, Len(promises))'
  BY DEF EventsInv, Shared, Distinct, In, Emit
<1> QED  BY <1>1, <1>2 DEF EventsInv, PromisesInv, QueueIsDrained, Calls, Emits

LEMMA ListenerEndsKeepsInv ==
  ASSUME EventsInv, NEW p \in Calls, ListenerEnds(p)
  PROVE  EventsInv'
<1>1. /\ promises \in Seq(Promise) /\ promises[p] \in Promise
      /\ \A q \in Calls : promises[q].inside \in Emits \union {0}
      /\ \A q \in Calls : promises[q].inside # 0 => promises[q].state = "pending"
  BY DEF EventsInv, PromisesInv, Calls
<1>2. PICK state \in {"resolved", "rejected"} : Settle(p, state)
  BY DEF ListenerEnds
<1> DEFINE new == [promises[p] EXCEPT !.state = state, !.hooked = (state = "resolved")]
<1>3. /\ promises' = [promises EXCEPT ![p] = new]
      /\ promises[p].state = "pending" /\ promises[p].inside = 0
  BY <1>2 DEF Settle
<1>4. new \in Promise /\ new.inside = 0
  BY <1>1, <1>3 DEF Promise
<1> HIDE DEF new
<1>5. /\ promises' \in Seq(Promise) /\ Len(promises') = Len(promises)
      /\ \A q \in Calls : promises'[q] = IF q = p THEN new ELSE promises[q]
  BY <1>1, <1>3, <1>4 DEF Calls
<1>6. \A q \in Calls : Settled(q) => Settled(q)'
  BY <1>3, <1>5 DEF Settled
<1> QED  BY <1>1, <1>2, <1>4, <1>5, <1>6, PromiseChangeKeepsInv DEF Settle

LEMMA ResumeKeepsInv ==
  ASSUME EventsInv, NEW p \in Calls, Resume(p)
  PROVE  EventsInv'
<1>1. /\ promises \in Seq(Promise) /\ promises[p] \in Promise
      /\ \A q \in Calls : promises[q].inside \in Emits \union {0}
      /\ \A q \in Calls : promises[q].inside # 0 => promises[q].state = "pending"
  BY DEF EventsInv, PromisesInv, Calls
<1>2. PICK new \in Promise :
        promises' = [promises EXCEPT ![p] = new] /\ new.inside = 0
  <2> DEFINE goesOn == [promises[p] EXCEPT !.inside = 0]
             rejects == [promises[p] EXCEPT !.inside = 0, !.state = "rejected"]
  <2>1. goesOn \in Promise /\ goesOn.inside = 0 /\ rejects \in Promise /\ rejects.inside = 0
    BY <1>1 DEF Promise
  <2>2. \/ promises' = [promises EXCEPT ![p] = goesOn]
        \/ promises' = [promises EXCEPT ![p] = rejects]
    BY DEF Resume
  <2> QED  BY <2>1, <2>2
<1>3. /\ promises' \in Seq(Promise) /\ Len(promises') = Len(promises)
      /\ \A q \in Calls : promises'[q] = IF q = p THEN new ELSE promises[q]
  BY <1>1, <1>2 DEF Calls
<1>4. ~Settled(p)
  BY <1>1 DEF Resume, Settled
<1>5. \A q \in Calls : Settled(q) => Settled(q)'
  BY <1>3, <1>4 DEF Settled
<1> QED  BY <1>1, <1>2, <1>3, <1>5, PromiseChangeKeepsInv DEF Resume

\* The callback queues the listeners of the error, or the crash.
LEMMA RunCatchKeepsInv ==
  ASSUME EventsAssumption, EventsInv, NEW p \in Calls, RunCatch(p)
  PROVE  EventsInv'
<1> DEFINE new == IF promises[p].type = ErrorType THEN <<Crash>> ELSE Invoked(ErrorType)
           hooked == [promises[p] EXCEPT !.hooked = TRUE]
           old == [promises EXCEPT ![p] = hooked]
           n == Len(promises)
           m == Len(new)
<1> HIDE DEF new, hooked, old, m
<1>1. /\ promises \in Seq(Promise) /\ promises[p] \in Promise /\ n \in Nat
      /\ \A q \in Calls : promises[q].inside \in Emits \union {0}
      /\ \A q \in Calls : promises[q].inside # 0 => promises[q].state = "pending"
  BY DEF EventsInv, PromisesInv, Calls
<1>2. new \in Seq(Promise) /\ \A i \in 1 .. Len(new) : new[i].inside = 0
  <2>1. CASE promises[p].type = ErrorType
    <3>1. Crash \in Promise /\ Crash.inside = 0
      BY DEF Crash, Promise
    <3> HIDE DEF Crash
    <3>2. new = <<Crash>>
      BY <2>1 DEF new
    <3>3. new \in Seq(Promise) /\ Len(new) = 1 /\ new[1] = Crash
      BY <3>1, <3>2
    <3> QED  BY <3>1, <3>3
  <2>2. CASE promises[p].type # ErrorType
    <3>1. /\ Invoked(ErrorType) \in Seq(Promise)
          /\ \A i \in 1 .. Len(Invoked(ErrorType)) : Invoked(ErrorType)[i] = Called(ErrorType)
      BY InvokedType DEF EventsAssumption
    <3>2. Called(ErrorType).inside = 0
      BY DEF Called
    <3>3. new = Invoked(ErrorType)
      BY <2>2 DEF new
    <3> QED  BY <3>1, <3>2, <3>3
  <2> QED  BY <2>1, <2>2
<1> m \in Nat /\ m = Len(new) /\ DOMAIN new = 1 .. m
  BY <1>2 DEF m
<1>3. /\ promises' = old \o new /\ eventQueue' = eventQueue \o Numbers(new)
      /\ emits' = emits
      /\ promises[p].state = "rejected" /\ ~promises[p].hooked
  BY DEF RunCatch, new, old, hooked
<1>4. hooked \in Promise /\ hooked.inside = promises[p].inside /\ hooked.state = "rejected"
  BY <1>1, <1>3 DEF Promise, hooked
<1>5. /\ old \in Seq(Promise) /\ Len(old) = n
      /\ \A q \in Calls : old[q] = IF q = p THEN hooked ELSE promises[q]
  BY <1>1, <1>4 DEF Calls, old
<1>6. /\ promises' \in Seq(Promise) /\ Len(promises') = n + m
      /\ \A q \in 1 .. n : promises'[q] = old[q]
      /\ \A q \in n + 1 .. n + m : promises'[q].inside = 0
  <2>1. /\ old \o new \in Seq(Promise)
        /\ Len(old \o new) = Len(old) + Len(new)
        /\ \A i \in 1 .. Len(old) : (old \o new)[i] = old[i]
        /\ \A i \in Len(old) + 1 .. Len(old) + Len(new) :
             (old \o new)[i] = new[i - Len(old)] /\ i - Len(old) \in 1 .. Len(new)
    BY <1>2, <1>5, Concatenation
  <2> QED  BY <2>1, <1>2, <1>3, <1>5
<1>7. Numbers(new) = From(n, m)
  BY <1>2 DEF Numbers, From
<1> HIDE DEF n
<1>8. /\ Shared(eventQueue', emits, n + m)
      /\ \A q : In(eventQueue, q) => In(eventQueue', q)
      /\ \A q \in n + 1 .. n + m : In(eventQueue', q)
  <2>1. Shared(eventQueue, emits, n) /\ eventQueue' = eventQueue \o From(n, m)
    BY <1>3, <1>7 DEF EventsInv, n
  <2> QED  BY <2>1, <1>1, <1>2, Longer
<1>9. Shared(eventQueue, emits, Len(promises))'
  BY <1>3, <1>6, <1>8, SMTT(40) DEF Shared, Distinct, In, Emit
<1>10. PromisesInv'
  <2>1. ASSUME NEW q \in 1 .. n + m
        PROVE  /\ promises'[q].inside \in Emits \union {0}
               /\ promises'[q].inside # 0 => promises'[q].state = "pending"
    <3>1. CASE q \in 1 .. n
      BY <3>1, <1>1, <1>3, <1>4, <1>5, <1>6 DEF Calls, n
    <3>2. CASE q \in n + 1 .. n + m
      BY <3>2, <1>6
    <3>3. q \in 1 .. n \/ q \in n + 1 .. n + m
      BY <1>1, <1>2
    <3> QED  BY <3>1, <3>2, <3>3
  <2> QED  BY <2>1, <1>3, <1>6 DEF PromisesInv, Calls, Emits
<1>11. NobodyForgotten'
  <2> SUFFICES ASSUME NEW q \in 1 .. n + m
               PROVE  (Settled(q) \/ Awaited(q) \/ Queued(q))'
    BY <1>6 DEF NobodyForgotten, Calls
  <2>1. \A r : In(eventQueue', r) => Queued(r)'
    BY DEF In, Queued
  <2>2. CASE q \in 1 .. n
    <3>1. CASE Settled(q)
      BY <2>2, <3>1, <1>3, <1>5, <1>6 DEF Settled, Calls, n
    <3>2. CASE Awaited(q)
      BY <3>2, <1>3 DEF Awaited, Emits
    <3>3. CASE Queued(q)
      BY <3>3, <2>1, <1>8 DEF Queued, In
    <3> QED  BY <2>2, <3>1, <3>2, <3>3 DEF EventsInv, NobodyForgotten, Calls, n
  <2>3. CASE q \in n + 1 .. n + m
    BY <2>1, <2>3, <1>8
  <2> QED  BY <2>2, <2>3, <1>1, <1>2
<1>12. QueueIsDrained'
  <2>1. ~Settled(p)
    BY <1>3 DEF Settled
  <2>2. Awaited(p) \/ Queued(p)
    BY <2>1 DEF EventsInv, NobodyForgotten
  <2>3. \E e \in Emits : emits[e].state \in {"awaiting", "threw"}
    <3>1. CASE Awaited(p)
      BY <3>1 DEF Awaited
    <3>2. CASE Queued(p)
      BY <3>2 DEF Queued, EventsInv, QueueIsDrained
    <3> QED  BY <2>2, <3>1, <3>2
  <2> QED  BY <2>3, <1>3 DEF QueueIsDrained, Emits
<1> QED  BY <1>9, <1>10, <1>11, <1>12 DEF EventsInv

LEMMA NextKeepsInv ==
  ASSUME EventsAssumption, EventsInv, [Next]_vars
  PROVE  EventsInv'
<1>1. CASE \E type \in Types : FireAndForget(type)
  BY <1>1, FireAndForgetKeepsInv
<1>2. CASE \E p \in Calls, type \in Types : EmitInside(p, type)
  BY <1>2, EmitInsideKeepsInv
<1>3. CASE \E e \in Emits : Continue(e)
  BY <1>3, ContinueKeepsInv
<1>4. CASE \E p \in Calls : ListenerEnds(p)
  BY <1>4, ListenerEndsKeepsInv
<1>5. CASE \E p \in Calls : Resume(p)
  BY <1>5, ResumeKeepsInv
<1>6. CASE \E p \in Calls : RunCatch(p)
  BY <1>6, RunCatchKeepsInv
<1>7. CASE UNCHANGED vars
  BY <1>7 DEF vars, EventsInv, Shared, Distinct, In, Emit, PromisesInv, Calls, Emits,
              NobodyForgotten, Settled, Awaited, Queued, QueueIsDrained
<1> QED  BY <1>1, <1>2, <1>3, <1>4, <1>5, <1>6, <1>7 DEF Next

------------------------------------------------------------------------------
(* Theorems                                                                *)

(***************************************************************************)
(* The bookkeeping of Agent.emit holds in every reachable state.           *)
(***************************************************************************)
THEOREM EventsInvariance == Spec => []EventsInv
<1>1. EventsInv /\ [Next]_vars => EventsInv'
  BY NextKeepsInv, EventsAssumption
<1> QED  BY InitInv, <1>1, PTL DEF Spec

(***************************************************************************)
(* The queue and the histories of Agent.emit are always well typed.        *)
(***************************************************************************)
THEOREM TypeCorrect == Spec => []TypeOK
<1>1. EventsInv => TypeOK
  BY DEF EventsInv, Shared, PromisesInv, TypeOK, Calls, Emits
<1> QED  BY EventsInvariance, <1>1, PTL

(***************************************************************************)
(* Whatever emits, listeners and failures there are, every listener that   *)
(* has not ended and been reported is awaited by an emit or queued for one,*)
(* although all emits shift promises off one queue.                        *)
(***************************************************************************)
THEOREM NobodyIsForgotten == Spec => []NobodyForgotten
<1>1. EventsInv => NobodyForgotten
  BY DEF EventsInv
<1> QED  BY EventsInvariance, <1>1, PTL

(***************************************************************************)
(* While promises are queued some emit is at work, unless one has thrown.  *)
(***************************************************************************)
THEOREM QueueDrained == Spec => []QueueIsDrained
<1>1. EventsInv => QueueIsDrained
  BY DEF EventsInv
<1> QED  BY EventsInvariance, <1>1, PTL

(***************************************************************************)
(* No two emits ever await the same listener.                              *)
(***************************************************************************)
THEOREM EachTakenOnce == Spec => []TakenOnce
<1>1. EventsInv => TakenOnce
  BY DEF EventsInv, Shared, Distinct, In, TakenOnce, Queued, Emits
<1> QED  BY EventsInvariance, <1>1, PTL

------------------------------------------------------------------------------
(* The store that handled messages are saved in (SqlStores): whatever      *)
(* callers save and delete at a time, and wherever a deletion stops.       *)

\* The credentials whose claims are gone before they are.
Bared(c) == \E k \in StoreCallers : deletions[k].at = "claims" /\ c \in deletions[k].creds

\* Stronger than CredentialsHaveClaims: a deletion of an identifier that found a
\* credential has taken nothing from it yet.
OnlyBaredLackClaims == \A c \in creds : Bared(c) \/ c \in partial \/ c \in claims

SqlInv ==
    /\ Sql!TypeOK
    /\ OnlyBaredLackClaims
    /\ Sql!ReferencesResolve

LEMMA SqlInit ==
    ASSUME Sql!Init
    PROVE  SqlInv
<1>1. Sql!TypeOK
    BY DEF Sql!Init, Sql!TypeOK, Sql!Call, Sql!Idle
<1>2. QED BY <1>1 DEF Sql!Init, SqlInv, OnlyBaredLackClaims, Sql!ReferencesResolve

\* Saving
LEMMA SqlSaves ==
    ASSUME Sql!SqlAssumption, SqlInv,
           \/ \E did \in DIDs, ks \in SUBSET Keys : Sql!ImportDID(did, ks)
           \/ \E c \in Creds : Sql!SaveCredential(c)
           \/ \E from, to \in DIDs : Sql!SaveMessage(from, to)
           \/ \E m \in messages : Sql!DeleteMessage(m)
    PROVE  SqlInv'
<1> USE DEF SqlInv, Sql!TypeOK, OnlyBaredLackClaims, Bared, Sql!ReferencesResolve
<1>1. ASSUME NEW did \in DIDs, NEW ks \in SUBSET Keys, Sql!ImportDID(did, ks) PROVE SqlInv'
    BY <1>1 DEF Sql!ImportDID
<1>2. ASSUME NEW c \in Creds, Sql!SaveCredential(c) PROVE SqlInv'
    BY <1>2 DEF Sql!SaveCredential, Sql!Mentioned, Sql!Claimed, Sql!SqlAssumption
<1>3. ASSUME NEW from \in DIDs, NEW to \in DIDs, Sql!SaveMessage(from, to) PROVE SqlInv'
    BY <1>3 DEF Sql!SaveMessage, Sql!Mentioned
<1>4. ASSUME NEW m \in messages, Sql!DeleteMessage(m) PROVE SqlInv'
    BY <1>4 DEF Sql!DeleteMessage
<1>5. QED
    <2> HIDE DEF SqlInv
    <2>1. QED BY <1>1, <1>2, <1>3, <1>4

\* Deleting a credential, in two transactions
LEMMA SqlDeletesCredential ==
    ASSUME SqlInv, NEW k \in StoreCallers,
           (\E c \in Creds : Sql!StartDeleteCredential(k, c)) \/ Sql!RemoveCredential(k)
    PROVE  SqlInv'
<1> USE DEF SqlInv, Sql!TypeOK, Sql!ReferencesResolve
<1>1. ASSUME NEW c \in Creds, Sql!StartDeleteCredential(k, c) PROVE SqlInv'
    <2> DEFINE call == [Sql!Idle EXCEPT !.at = "claims", !.creds = {c}]
    <2>1. call \in Sql!Call /\ call.at = "claims" /\ call.creds = {c}
        BY DEF Sql!Call, Sql!Idle
    <2>2. /\ deletions' = [deletions EXCEPT ![k] = call]
          /\ deletions[k].at = "idle"
        <3>1. deletions' = [deletions EXCEPT ![k] = call]
            BY <1>1 DEF Sql!StartDeleteCredential
        <3>2. Sql!Idle.at = "idle"
            BY DEF Sql!Idle
        <3>3. QED BY <1>1, <3>1, <3>2 DEF Sql!StartDeleteCredential
    <2> HIDE DEF call
    <2>3. OnlyBaredLackClaims'
        BY <1>1, <2>1, <2>2 DEF OnlyBaredLackClaims, Bared, Sql!StartDeleteCredential
    <2>4. QED BY <1>1, <2>1, <2>2, <2>3 DEF Sql!StartDeleteCredential
<1>2. ASSUME Sql!RemoveCredential(k) PROVE SqlInv'
    <2>1. Sql!Idle \in Sql!Call
        BY DEF Sql!Call, Sql!Idle
    <2>2. OnlyBaredLackClaims'
        BY <1>2 DEF OnlyBaredLackClaims, Bared, Sql!RemoveCredential
    <2>3. QED BY <1>2, <2>1, <2>2 DEF Sql!RemoveCredential
<1>3. QED BY <1>1, <1>2

\* Deleting an identifier, in three
LEMMA SqlDeletesDID ==
    ASSUME Sql!SqlAssumption, SqlInv, NEW k \in StoreCallers,
           \/ \E did \in DIDs : Sql!StartDeleteDID(k, did)
           \/ Sql!RemoveIssued(k) \/ Sql!RemoveDID(k) \/ Sql!Stop(k)
    PROVE  SqlInv'
<1> USE DEF SqlInv, Sql!TypeOK, Sql!ReferencesResolve
<1>0. Sql!Idle \in Sql!Call /\ Sql!Idle.at = "idle"
    BY DEF Sql!Call, Sql!Idle
<1>1. ASSUME NEW did \in DIDs, Sql!StartDeleteDID(k, did) PROVE SqlInv'
    <2> DEFINE call == [at |-> "found", did |-> did, creds |-> {c \in creds : Issuer[c] = did}]
    <2>1. call \in Sql!Call /\ call.at = "found"
        BY DEF Sql!Call
    <2>2. deletions' = [deletions EXCEPT ![k] = call] /\ deletions[k].at = "idle"
        BY <1>0, <1>1 DEF Sql!StartDeleteDID
    <2> HIDE DEF call
    <2>3. OnlyBaredLackClaims'
        BY <1>1, <2>1, <2>2 DEF OnlyBaredLackClaims, Bared, Sql!StartDeleteDID
    <2>4. QED BY <1>1, <2>1, <2>2, <2>3 DEF Sql!StartDeleteDID
<1>2. ASSUME Sql!RemoveIssued(k) PROVE SqlInv'
    <2>1. deletions' \in [StoreCallers -> Sql!Call]
        BY <1>2 DEF Sql!RemoveIssued, Sql!Call
    <2>2. OnlyBaredLackClaims'
        BY <1>2 DEF OnlyBaredLackClaims, Bared, Sql!RemoveIssued, Sql!Call
    <2>3. QED BY <1>2, <2>1, <2>2 DEF Sql!RemoveIssued
<1>3. ASSUME Sql!RemoveDID(k) PROVE SqlInv'
    <2>1. deletions' \in [StoreCallers -> Sql!Call]
        BY <1>0, <1>3 DEF Sql!RemoveDID
    <2>2. OnlyBaredLackClaims'
        BY <1>0, <1>3 DEF OnlyBaredLackClaims, Bared, Sql!RemoveDID
    <2>3. CASE ~(Sql!HeldBy(deletions[k].did) = {} /\ Sql!MessagesHolding(deletions[k].did) = {})
        BY <1>3, <2>1, <2>2, <2>3 DEF Sql!RemoveDID
    <2>4. CASE Sql!HeldBy(deletions[k].did) = {} /\ Sql!MessagesHolding(deletions[k].did) = {}
        BY <1>3, <2>1, <2>2, <2>4 DEF Sql!RemoveDID, Sql!HeldBy, Sql!GoesWith, Sql!SqlAssumption
    <2>5. QED BY <2>3, <2>4
<1>4. ASSUME Sql!Stop(k) PROVE SqlInv'
    <2>1. deletions' \in [StoreCallers -> Sql!Call]
        BY <1>0, <1>4 DEF Sql!Stop
    <2>2. OnlyBaredLackClaims'
        BY <1>0, <1>4 DEF OnlyBaredLackClaims, Bared, Sql!Stop
    <2>3. QED BY <1>4, <2>1, <2>2 DEF Sql!Stop, Sql!Call
<1>5. QED BY <1>1, <1>2, <1>3, <1>4

LEMMA SqlStep ==
    ASSUME Sql!SqlAssumption, SqlInv, [Sql!Next]_(Sql!vars)
    PROVE  SqlInv'
<1>1. CASE Sql!Next
    BY <1>1, SqlSaves, SqlDeletesCredential, SqlDeletesDID DEF Sql!Next
<1>2. CASE UNCHANGED Sql!vars
    BY <1>2 DEF Sql!vars, SqlInv, Sql!TypeOK, OnlyBaredLackClaims, Bared, Sql!ReferencesResolve
<1>3. QED BY <1>1, <1>2

LEMMA SqlInductive ==
    ASSUME Sql!SqlAssumption
    PROVE  Sql!Spec => []SqlInv
<1>1. Sql!Init => SqlInv
    BY SqlInit
<1>2. SqlInv /\ [Sql!Next]_(Sql!vars) => SqlInv'
    BY SqlStep
<1>3. QED BY <1>1, <1>2, PTL DEF Sql!Spec

(* The rows and the deletions under way stay of their type, for any identifiers,
   credentials and number of callers. *)
THEOREM SqlTypeCorrect ==
    ASSUME Sql!SqlAssumption
    PROVE  Sql!Spec => []Sql!TypeOK
<1>1. SqlInv => Sql!TypeOK
    BY DEF SqlInv
<1>2. QED BY <1>1, SqlInductive, PTL

(* No credential of the SQL store is without its claims, but for one that is being
   deleted or whose deletion stopped halfway, and every row refers to rows that are
   there: saveCredential, saveMessage and the deletions of DataStore and DIDStore. *)
THEOREM RowsResolve ==
    ASSUME Sql!SqlAssumption
    PROVE  Sql!Spec => [](Sql!CredentialsHaveClaims /\ Sql!ReferencesResolve)
<1>1. SqlInv => Sql!CredentialsHaveClaims /\ Sql!ReferencesResolve
    BY DEF SqlInv, OnlyBaredLackClaims, Bared, Sql!CredentialsHaveClaims, Sql!BeingDeleted
<1>2. QED BY <1>1, SqlInductive, PTL

(* No step of any call takes an identifier out of management but the deletion of
   that identifier, nor a credential but its own deletion or its issuer's. *)
THEOREM NothingElseGoes ==
    Sql!Spec => OnlyItsOwnGoes
<1> DEFINE StaysManaged == \A did \in managed \ managed' : \E k \in StoreCallers : deletions[k].did = did
           StaysThere == \A c \in creds \ creds' : \E k \in StoreCallers :
                            c \in deletions[k].creds \/ deletions[k].did = Issuer[c]
<1>1. ASSUME [Sql!Next]_(Sql!vars) PROVE [StaysManaged]_(Sql!vars) /\ [StaysThere]_(Sql!vars)
    <2>1. ASSUME NEW k \in StoreCallers, Sql!RemoveDID(k) PROVE StaysManaged /\ StaysThere
        BY <2>1 DEF Sql!RemoveDID, Sql!GoesWith
    <2>2. ASSUME NEW k \in StoreCallers, Sql!RemoveCredential(k) \/ Sql!RemoveIssued(k) \/ Sql!Stop(k)
          PROVE  StaysManaged /\ StaysThere
        BY <2>2 DEF Sql!RemoveCredential, Sql!RemoveIssued, Sql!Stop
    <2>3. QED BY <1>1, <2>1, <2>2 DEF Sql!vars, Sql!Next, Sql!ImportDID, Sql!SaveCredential, Sql!SaveMessage,
            Sql!DeleteMessage, Sql!StartDeleteCredential, Sql!StartDeleteDID, Sql!Mentioned
<1>2. QED BY <1>1, PTL DEF Sql!Spec, OnlyItsOwnGoes, Sql!OnlyItsOwnGoes, Sql!ManagedUntilDeleted, Sql!OthersCredentialsStay

------------------------------------------------------------------------------
(* The migrations of the database (Migrations), for any keys, presentations *)
(* and number of runs.                                                     *)

\* A script, and what is left of it: the statements from the i-th on, before the k-th
Statements(script) == {script[i] : i \in DOMAIN script}
Part(q, script, i, k) ==
    /\ q \in Seq(Statements(script)) /\ i \in Nat /\ k \in Nat /\ i <= k
    /\ Len(q) = k - i /\ \A j \in 1 .. k - i : q[j] = script[i + j - 1]

LEMMA JoinedParts ==
  ASSUME NEW script, NEW p, NEW q, NEW i, NEW k, NEW m, Part(p, script, i, k), Part(q, script, k, m)
  PROVE  Part(p \o q, script, i, m)
<1> DEFINE S == Statements(script)
<1>1. p \in Seq(S) /\ q \in Seq(S) /\ i \in Nat /\ k \in Nat /\ m \in Nat /\ i <= k /\ k <= m
      /\ Len(p) = k - i /\ Len(q) = m - k
  BY DEF Part
<1> HIDE DEF S
<1>2. p \o q \in Seq(S) /\ Len(p \o q) = m - i
  BY <1>1
<1>3. ASSUME NEW j \in 1 .. m - i PROVE (p \o q)[j] = script[i + j - 1]
  <2>1. CASE j <= k - i
    <3>1. (p \o q)[j] = p[j]
      BY <1>1, <2>1
    <3>2. QED BY <1>1, <2>1, <3>1 DEF Part
  <2>2. CASE j > k - i
    <3>1. (p \o q)[j] = q[j - (k - i)] /\ j - (k - i) \in 1 .. m - k
      BY <1>1, <2>2
    <3>2. q[j - (k - i)] = script[k + (j - (k - i)) - 1]
      BY <3>1 DEF Part
    <3>3. k + (j - (k - i)) - 1 = i + j - 1
      BY <1>1
    <3>4. QED BY <3>1, <3>2, <3>3
  <2>3. QED BY <1>1, <2>1, <2>2
<1>4. QED BY <1>1, <1>2, <1>3 DEF Part, S

LEMMA NextOfPart ==
  ASSUME NEW script, NEW q, NEW i, NEW k, Part(q, script, i, k), q # <<>>
  PROVE  i < k /\ Head(q) = script[i] /\ Part(Tail(q), script, i + 1, k)
<1> DEFINE S == Statements(script)
<1>1. q \in Seq(S) /\ i \in Nat /\ k \in Nat /\ i <= k /\ Len(q) = k - i
  BY DEF Part
<1> HIDE DEF S
<1>2. i < k
  BY <1>1
<1>3. Head(q) = q[1] /\ Tail(q) \in Seq(S) /\ Len(Tail(q)) = k - (i + 1)
  BY <1>1, <1>2
<1>4. q[1] = script[i]
  <2>1. 1 \in 1 .. k - i /\ i + 1 - 1 = i
    BY <1>1, <1>2
  <2>2. QED BY <2>1 DEF Part
<1>5. ASSUME NEW j \in 1 .. k - (i + 1) PROVE Tail(q)[j] = script[i + 1 + j - 1]
  <2>1. Tail(q)[j] = q[j + 1] /\ j + 1 \in 1 .. k - i
    BY <1>1, <1>2
  <2>2. q[j + 1] = script[i + (j + 1) - 1]
    BY <2>1 DEF Part
  <2>3. i + (j + 1) - 1 = i + 1 + j - 1
    BY <1>1
  <2>4. QED BY <2>1, <2>2, <2>3
<1>6. QED BY <1>1, <1>2, <1>3, <1>4, <1>5 DEF Part, S

Begin == Mig!Do("begin", "all")
Commit == Mig!Do("commit", "all")
Record(n) == Mig!Do("record", n)
Unenforce == Mig!Do("enforce", FALSE)
Enforce == Mig!Do("enforce", TRUE)
CreateAll == Mig!Do("create all", "tables")
CreatePrivate == Mig!Do("create", "private-key")
CopyKeys == Mig!Do("copy keys", "key")
DropColumn == Mig!Do("drop column", "key")
RequireDate == Mig!Do("required", Mig!IssuanceDate)
AddColumn == Mig!Do("add column", "key")
CopyBack == Mig!Do("copy back", "key")
DropPrivate == Mig!Do("drop", "private-key")
OfKey == Mig!Change("key", "identifierDid")
OfService == Mig!Change("service", "identifierDid")
KeyOptional == Mig!Do("optional", OfKey)
ServiceOptional == Mig!Do("optional", OfService)
DateOptional == Mig!Do("optional", Mig!IssuanceDate)

\* All migrations with SQLite and without
UpSqlite == <<
    CreateAll, Record(1),
    KeyOptional, ServiceOptional, Record(2),
    CreatePrivate, CopyKeys, DropColumn, Record(3),
    Commit, Unenforce, Begin, DateOptional,
    Commit, Enforce, Begin, Record(4), Commit >>
UpOther == <<
    CreateAll, Record(1),
    KeyOptional, ServiceOptional, Record(2),
    CreatePrivate, CopyKeys, DropColumn, Record(3),
    DateOptional, Record(4), Commit >>
\* and what reverses the fourth and the third
Down4Sqlite == <<
    Commit, Unenforce, Begin, RequireDate,
    Commit, Enforce, Begin, Record(3), Commit >>
Down4Other == << RequireDate, Record(3), Commit >>
Down3 == << AddColumn, CopyBack, DropPrivate, Record(2), Commit >>

Up == IF driver = "sqlite" THEN UpSqlite ELSE UpOther
\* Where the statements of the migrations after the n-th begin
Starts(n) == CASE n = 0 -> 1 [] n = 1 -> 3 [] n = 2 -> 6 [] n = 3 -> 10 [] n = 4 -> IF driver = "sqlite" THEN 18 ELSE 12

\* The migrations from the n-th on
Onwards(n, rest) == Mig!Up(n) \o << Record(n) >> \o rest

LEMMA PendingUnfolds ==
  ASSUME NEW from \in 0 .. 3
  PROVE  Mig!Pending(4) = <<>> /\ Mig!Pending(from) = Onwards(from + 1, Mig!Pending(from + 1))
<1> DEFINE F(r) == [n \in 1 .. 5 |-> IF n = 5 THEN <<>> ELSE Onwards(n, r[n + 1])]
           Run == CHOOSE r : r = F(r)
<1>1. \E r : r = F(r)
  <2> DEFINE r4 == Onwards(4, <<>>)
             r3 == Onwards(3, r4)
             r2 == Onwards(2, r3)
             r1 == Onwards(1, r2)
             r == [n \in 1 .. 5 |-> IF n = 1 THEN r1 ELSE IF n = 2 THEN r2 ELSE IF n = 3 THEN r3 ELSE IF n = 4 THEN r4 ELSE <<>>]
  <2>1. r[5] = <<>> /\ r[4] = r4 /\ r[3] = r3 /\ r[2] = r2 /\ r[1] = r1
    <3> HIDE DEF r4, r3, r2, r1
    <3>1. QED OBVIOUS
  <2>2. \A n \in 1 .. 5 : r[n] = F(r)[n]
    <3>1. F(r)[5] = <<>> /\ \A n \in 1 .. 4 : F(r)[n] = Onwards(n, r[n + 1])
      <4> HIDE DEF r
      <4>1. QED OBVIOUS
    <3>2. ASSUME NEW n \in 1 .. 5 PROVE r[n] = F(r)[n]
      <4>1. n = 1 \/ n = 2 \/ n = 3 \/ n = 4 \/ n = 5 OBVIOUS
      <4>2. 1 + 1 = 2 /\ 2 + 1 = 3 /\ 3 + 1 = 4 /\ 4 + 1 = 5 OBVIOUS
      <4> HIDE DEF r, F
      <4>3. QED BY <4>1, <4>2, <2>1, <3>1
    <3>3. QED BY <3>2
  <2>3. r = F(r)
    <3> DEFINE g == F(r)
    <3>1. g = [n \in 1 .. 5 |-> g[n]]
      OBVIOUS
    <3>2. r = [n \in 1 .. 5 |-> r[n]]
      OBVIOUS
    <3> HIDE DEF r, g
    <3>3. (\A n \in 1 .. 5 : r[n] = g[n]) => r = g
      BY <3>1, <3>2
    <3>4. QED BY <2>2, <3>3 DEF g
  <2>4. QED BY <2>3
<1>2. Run = F(Run)
  BY <1>1
<1>3. Run[5] = <<>> /\ \A n \in 1 .. 4 : Run[n] = Onwards(n, Run[n + 1])
  <2> DEFINE R == Run
  <2>1. R = F(R)
    BY <1>2
  <2> HIDE DEF R
  <2>2. F(R)[5] = <<>> /\ \A n \in 1 .. 4 : F(R)[n] = Onwards(n, R[n + 1])
    OBVIOUS
  <2>3. R[5] = <<>> /\ \A n \in 1 .. 4 : R[n] = Onwards(n, R[n + 1])
    BY <2>1, <2>2
  <2>4. QED BY <2>3 DEF R
<1>4. \A n \in 0 .. 4 : Mig!Pending(n) = Run[n + 1]
  BY DEF Mig!Pending, Record, Onwards
<1> HIDE DEF Run
<1>5. from + 1 \in 1 .. 4 /\ from + 1 \in 0 .. 4 /\ from \in 0 .. 4 /\ 4 \in 0 .. 4 /\ 4 + 1 = 5
  OBVIOUS
<1>6. QED BY <1>3, <1>4, <1>5

LEMMA PartLiterally ==
  ASSUME NEW script, NEW q, NEW i \in Nat, NEW n \in Nat, i >= 1, Len(q) = n, DOMAIN q = 1 .. n,
         \A j \in 1 .. n : i + j - 1 \in DOMAIN script /\ q[j] = script[i + j - 1],
         \A S : (\A j \in 1 .. n : q[j] \in S) => q \in Seq(S)
  PROVE  Part(q, script, i, i + n)
<1> DEFINE S == Statements(script)
<1>1. \A j \in 1 .. n : q[j] \in S
  BY DEF Statements
<1>2. q \in Seq(S)
  <2> HIDE DEF S
  <2>1. QED BY <1>1
<1>3. i + n \in Nat /\ i <= i + n /\ (i + n) - i = n
  OBVIOUS
<1>4. QED BY <1>2, <1>3 DEF Part, S

LEMMA UpSqliteStatements ==
  /\ DOMAIN UpSqlite = 1 .. 18
  /\ UpSqlite[1] = CreateAll /\ UpSqlite[2] = Record(1)
  /\ UpSqlite[3] = KeyOptional /\ UpSqlite[4] = ServiceOptional /\ UpSqlite[5] = Record(2)
  /\ UpSqlite[6] = CreatePrivate /\ UpSqlite[7] = CopyKeys
  /\ UpSqlite[8] = DropColumn /\ UpSqlite[9] = Record(3)
  /\ UpSqlite[10] = Commit /\ UpSqlite[11] = Unenforce /\ UpSqlite[12] = Begin
  /\ UpSqlite[13] = DateOptional /\ UpSqlite[14] = Commit
  /\ UpSqlite[15] = Enforce /\ UpSqlite[16] = Begin
  /\ UpSqlite[17] = Record(4) /\ UpSqlite[18] = Commit
BY DEF UpSqlite

LEMMA UpOtherStatements ==
  /\ DOMAIN UpOther = 1 .. 12
  /\ UpOther[1] = CreateAll /\ UpOther[2] = Record(1)
  /\ UpOther[3] = KeyOptional /\ UpOther[4] = ServiceOptional /\ UpOther[5] = Record(2)
  /\ UpOther[6] = CreatePrivate /\ UpOther[7] = CopyKeys
  /\ UpOther[8] = DropColumn /\ UpOther[9] = Record(3)
  /\ UpOther[10] = DateOptional /\ UpOther[11] = Record(4) /\ UpOther[12] = Commit
BY DEF UpOther

LEMMA Down4SqliteStatements ==
  /\ DOMAIN Down4Sqlite = 1 .. 9
  /\ Down4Sqlite[1] = Commit /\ Down4Sqlite[2] = Unenforce /\ Down4Sqlite[3] = Begin
  /\ Down4Sqlite[4] = RequireDate /\ Down4Sqlite[5] = Commit
  /\ Down4Sqlite[6] = Enforce /\ Down4Sqlite[7] = Begin
  /\ Down4Sqlite[8] = Record(3) /\ Down4Sqlite[9] = Commit
BY DEF Down4Sqlite

LEMMA Down4OtherStatements ==
  /\ DOMAIN Down4Other = 1 .. 3
  /\ Down4Other[1] = RequireDate /\ Down4Other[2] = Record(3) /\ Down4Other[3] = Commit
BY DEF Down4Other

LEMMA Down3Statements ==
  /\ DOMAIN Down3 = 1 .. 5
  /\ Down3[1] = AddColumn /\ Down3[2] = CopyBack
  /\ Down3[3] = DropPrivate /\ Down3[4] = Record(2) /\ Down3[5] = Commit
BY DEF Down3

\* The statements of a migration, in their place in the script
LEMMA PartsOfUp ==
  /\ Part(Mig!Up(1), Up, 1, 2) /\ Part(Mig!Up(2), Up, 3, 5) /\ Part(Mig!Up(3), Up, 6, 9)
  /\ Part(Mig!Up(4), Up, 10, Starts(4) - 1)
  /\ \A n \in 1 .. 4 : Part(<< Record(n) >>, Up, Starts(n) - 1, Starts(n))
  /\ Part(<< Commit >>, Up, Starts(4), Starts(4) + 1)
<1>0. Up = UpSqlite \/ Up = UpOther
  BY DEF Up
<1>1. Part(Mig!Up(1), Up, 1, 2)
  <2> DEFINE q == << CreateAll >>
             first == 1
             n == 1
  <2>1. Mig!Up(1) = q
    BY 1 # 2, 1 # 3, 1 # 4, Zenon DEF Mig!Up, CreateAll
  <2>2. \A j \in 1 .. n : first + j - 1 \in DOMAIN Up /\ q[j] = Up[first + j - 1]
    BY <1>0, UpSqliteStatements, UpOtherStatements
  <2>3. Len(q) = n /\ DOMAIN q = 1 .. n /\ \A S : (\A j \in 1 .. n : q[j] \in S) => q \in Seq(S)
    OBVIOUS
  <2>0. first \in Nat /\ first >= 1 /\ n \in Nat
    OBVIOUS
  <2> HIDE DEF q, first, n
  <2>4. Part(q, Up, first, first + n)
    BY <2>2, <2>3, <2>0, PartLiterally
  <2>5. first = 1 /\ first + n = 2
    BY DEF first, n
  <2>6. QED BY <2>1, <2>4, <2>5
<1>2. Part(Mig!Up(2), Up, 3, 5)
  <2> DEFINE q == << KeyOptional, ServiceOptional >>
             first == 3
             n == 2
  <2>1. Mig!Up(2) = q
    BY 2 # 1, 2 # 3, 2 # 4, Zenon DEF Mig!Up, KeyOptional, ServiceOptional, OfKey, OfService
  <2>2. \A j \in 1 .. n : first + j - 1 \in DOMAIN Up /\ q[j] = Up[first + j - 1]
    BY <1>0, UpSqliteStatements, UpOtherStatements
  <2>3. Len(q) = n /\ DOMAIN q = 1 .. n /\ \A S : (\A j \in 1 .. n : q[j] \in S) => q \in Seq(S)
    OBVIOUS
  <2>0. first \in Nat /\ first >= 1 /\ n \in Nat
    OBVIOUS
  <2> HIDE DEF q, first, n
  <2>4. Part(q, Up, first, first + n)
    BY <2>2, <2>3, <2>0, PartLiterally
  <2>5. first = 3 /\ first + n = 5
    BY DEF first, n
  <2>6. QED BY <2>1, <2>4, <2>5
<1>3. Part(Mig!Up(3), Up, 6, 9)
  <2> DEFINE q == << CreatePrivate, CopyKeys, DropColumn >>
             first == 6
             n == 3
  <2>1. Mig!Up(3) = q
    BY 3 # 1, 3 # 2, 3 # 4, Zenon DEF Mig!Up, Mig!MovesKeys, CreatePrivate, CopyKeys, DropColumn
  <2>2. \A j \in 1 .. n : first + j - 1 \in DOMAIN Up /\ q[j] = Up[first + j - 1]
    BY <1>0, UpSqliteStatements, UpOtherStatements
  <2>3. Len(q) = n /\ DOMAIN q = 1 .. n /\ \A S : (\A j \in 1 .. n : q[j] \in S) => q \in Seq(S)
    OBVIOUS
  <2>0. first \in Nat /\ first >= 1 /\ n \in Nat
    OBVIOUS
  <2> HIDE DEF q, first, n
  <2>4. Part(q, Up, first, first + n)
    BY <2>2, <2>3, <2>0, PartLiterally
  <2>5. first = 6 /\ first + n = 9
    BY DEF first, n
  <2>6. QED BY <2>1, <2>4, <2>5
<1>4. Part(Mig!Up(4), Up, 10, Starts(4) - 1)
  <2>1. CASE driver = "sqlite"
    <3> DEFINE q == << Commit, Unenforce, Begin, DateOptional, Commit, Enforce, Begin >>
               first == 10
               n == 7
    <3>1. Mig!Up(4) = q
      BY 4 # 1, 4 # 2, 4 # 3, <2>1, Zenon DEF Mig!Up, Mig!Unenforced, Commit, Unenforce, Begin, DateOptional, Enforce
    <3>2. \A j \in 1 .. n : first + j - 1 \in DOMAIN UpSqlite /\ q[j] = UpSqlite[first + j - 1]
      BY UpSqliteStatements
    <3>3. Len(q) = n /\ DOMAIN q = 1 .. n /\ \A S : (\A j \in 1 .. n : q[j] \in S) => q \in Seq(S)
      OBVIOUS
    <3>4. Up = UpSqlite /\ Starts(4) = 18
      BY <2>1 DEF Up, Starts
    <3>0. first \in Nat /\ first >= 1 /\ n \in Nat
      OBVIOUS
    <3> HIDE DEF q, first, n
    <3>5. Part(q, UpSqlite, first, first + n)
      BY <3>2, <3>3, <3>0, PartLiterally
    <3>6. first = 10 /\ first + n = 18 - 1
      BY DEF first, n
    <3>7. QED BY <3>1, <3>4, <3>5, <3>6
  <2>2. CASE driver # "sqlite"
    <3> DEFINE q == << DateOptional >>
               first == 10
               n == 1
    <3>1. Mig!Up(4) = q
      BY 4 # 1, 4 # 2, 4 # 3, <2>2, Zenon DEF Mig!Up, Mig!Unenforced, DateOptional
    <3>2. \A j \in 1 .. n : first + j - 1 \in DOMAIN UpOther /\ q[j] = UpOther[first + j - 1]
      BY UpOtherStatements
    <3>3. Len(q) = n /\ DOMAIN q = 1 .. n /\ \A S : (\A j \in 1 .. n : q[j] \in S) => q \in Seq(S)
      OBVIOUS
    <3>4. Up = UpOther /\ Starts(4) = 12
      BY <2>2 DEF Up, Starts
    <3>0. first \in Nat /\ first >= 1 /\ n \in Nat
      OBVIOUS
    <3> HIDE DEF q, first, n
    <3>5. Part(q, UpOther, first, first + n)
      BY <3>2, <3>3, <3>0, PartLiterally
    <3>6. first = 10 /\ first + n = 12 - 1
      BY DEF first, n
    <3>7. QED BY <3>1, <3>4, <3>5, <3>6
  <2>3. QED BY <2>1, <2>2
<1>5. Starts(4) \in {12, 18} /\ (Starts(4) = 18 => Up = UpSqlite) /\ (Starts(4) = 12 => Up = UpOther)
  BY DEF Starts, Up
<1>6. ASSUME NEW n \in 1 .. 4 PROVE Part(<< Record(n) >>, Up, Starts(n) - 1, Starts(n))
  <2> DEFINE q == << Record(n) >>
  <2>1. /\ Starts(n) - 1 \in Nat /\ Starts(n) - 1 >= 1 /\ Starts(n) \in Nat
        /\ Starts(n) - 1 \in DOMAIN Up /\ Up[Starts(n) - 1] = Record(n)
    <3>1. n = 1 \/ n = 2 \/ n = 3 \/ n = 4
      OBVIOUS
    <3>2. Starts(1) = 3 /\ Starts(2) = 6 /\ Starts(3) = 10
      BY DEF Starts
    <3>3. QED BY <3>1, <3>2, <1>0, <1>5, UpSqliteStatements, UpOtherStatements
  <2> DEFINE i == Starts(n) - 1
  <2>2. Len(q) = 1 /\ DOMAIN q = 1 .. 1 /\ q[1] = Record(n) /\ \A S : (\A j \in 1 .. 1 : q[j] \in S) => q \in Seq(S)
    OBVIOUS
  <2>3. i \in Nat /\ i >= 1 /\ i \in DOMAIN Up /\ Up[i] = Record(n) /\ i + 1 = Starts(n)
    BY <2>1
  <2> HIDE DEF q, i
  <2>4. \A j \in 1 .. 1 : i + j - 1 = i /\ j = 1
    BY <2>3
  <2>5. Part(q, Up, i, i + 1)
    BY <2>2, <2>3, <2>4, PartLiterally
  <2>6. QED BY <2>3, <2>5 DEF q, i
<1>7. Part(<< Commit >>, Up, Starts(4), Starts(4) + 1)
  <2> DEFINE q == << Commit >>
  <2>1. Len(q) = 1 /\ DOMAIN q = 1 .. 1 /\ q[1] = Commit /\ \A S : (\A j \in 1 .. 1 : q[j] \in S) => q \in Seq(S)
    OBVIOUS
  <2>2. Starts(4) \in DOMAIN Up /\ Up[Starts(4)] = Commit /\ Starts(4) \in Nat /\ Starts(4) >= 1
    BY <1>5, UpSqliteStatements, UpOtherStatements
  <2> HIDE DEF q
  <2>3. \A j \in 1 .. 1 : Starts(4) + j - 1 = Starts(4) /\ j = 1
    BY <2>2
  <2>4. QED BY <2>1, <2>2, <2>3, PartLiterally DEF q
<1>8. QED BY <1>1, <1>2, <1>3, <1>4, <1>6, <1>7

LEMMA PendingInScript ==
  ASSUME NEW r \in 0 .. 3
  PROVE  Part(Mig!Pending(r) \o << Commit >>, Up, Starts(r), Starts(4) + 1) /\ Mig!Pending(r) \in Seq(Statements(Up))
<1>1. Starts(0) = 1 /\ Starts(1) = 3 /\ Starts(2) = 6 /\ Starts(3) = 10 /\ Starts(4) \in {12, 18}
  BY DEF Starts
<1>2. ASSUME NEW n \in 0 .. 3, NEW first,
             Part(Mig!Up(n + 1), Up, first, Starts(n + 1) - 1),
             Part(Mig!Pending(n + 1), Up, Starts(n + 1), Starts(4))
      PROVE  Part(Mig!Pending(n), Up, first, Starts(4))
  <2> DEFINE m == n + 1
             statements == Mig!Up(m)
             record == << Record(m) >>
             rest == Mig!Pending(m)
  <2>1. Part(record, Up, Starts(m) - 1, Starts(m))
    BY PartsOfUp
  <2>2. Mig!Pending(n) = statements \o record \o rest
    BY PendingUnfolds DEF Onwards
  <2>3. Part(statements, Up, first, Starts(m) - 1) /\ Part(rest, Up, Starts(m), Starts(4))
    BY <1>2
  <2> HIDE DEF m, statements, record, rest
  <2>4. Part(statements \o record, Up, first, Starts(m))
    BY <2>1, <2>3, JoinedParts
  <2>5. QED BY <2>2, <2>3, <2>4, JoinedParts
<1>3. Part(Mig!Pending(4), Up, Starts(4), Starts(4))
  <2> DEFINE n == Starts(4)
  <2>1. n \in Nat /\ Mig!Pending(4) = <<>>
    BY <1>1, PendingUnfolds
  <2> HIDE DEF n
  <2>2. Part(<<>>, Up, n, n)
    BY <2>1 DEF Part
  <2>3. QED BY <2>1, <2>2 DEF n
<1>4. Part(Mig!Pending(3), Up, Starts(3), Starts(4))
  BY <1>1, <1>2, <1>3, PartsOfUp, 3 + 1 = 4
<1>5. Part(Mig!Pending(2), Up, Starts(2), Starts(4))
  BY <1>1, <1>2, <1>4, PartsOfUp, 2 + 1 = 3, 10 - 1 = 9
<1>6. Part(Mig!Pending(1), Up, Starts(1), Starts(4))
  BY <1>1, <1>2, <1>5, PartsOfUp, 1 + 1 = 2, 6 - 1 = 5
<1>7. Part(Mig!Pending(0), Up, Starts(0), Starts(4))
  BY <1>1, <1>2, <1>6, PartsOfUp, 0 + 1 = 1, 3 - 1 = 2
<1>8. Part(Mig!Pending(r), Up, Starts(r), Starts(4))
  <2>1. r = 0 \/ r = 1 \/ r = 2 \/ r = 3
    OBVIOUS
  <2>2. QED BY <2>1, <1>4, <1>5, <1>6, <1>7
<1>9. Part(Mig!Pending(r) \o << Commit >>, Up, Starts(r), Starts(4) + 1)
  BY <1>8, PartsOfUp, JoinedParts
<1>10. QED BY <1>8, <1>9 DEF Part

Down4 == IF driver = "sqlite" THEN Down4Sqlite ELSE Down4Other
Down4Ends == IF driver = "sqlite" THEN 10 ELSE 4

LEMMA OneStatement ==
  ASSUME NEW script, NEW i \in Nat, i >= 1, i \in DOMAIN script
  PROVE  Part(<< script[i] >>, script, i, i + 1)
<1> DEFINE q == << script[i] >>
<1>1. Len(q) = 1 /\ DOMAIN q = 1 .. 1 /\ q[1] = script[i] /\ \A S : (\A j \in 1 .. 1 : q[j] \in S) => q \in Seq(S)
  OBVIOUS
<1> HIDE DEF q
<1>2. \A j \in 1 .. 1 : i + j - 1 = i /\ j = 1
  OBVIOUS
<1>3. Part(q, script, i, i + 1)
  BY <1>1, <1>2, PartLiterally
<1>4. QED BY <1>3 DEF q

LEMMA WithItsRecord ==
  ASSUME NEW script, NEW q, NEW i, NEW k \in Nat, k >= 1, Part(q, script, i, k),
         k \in DOMAIN script, k + 1 \in DOMAIN script
  PROVE  /\ Part(q \o << script[k] >> \o << script[k + 1] >>, script, i, k + 2)
         /\ q \o << script[k] >> \in Seq(Statements(script))
<1>1. Part(<< script[k] >>, script, k, k + 1)
  BY OneStatement
<1> DEFINE m == k + 1
<1>2. m \in Nat /\ m >= 1 /\ m \in DOMAIN script /\ k + 2 = m + 1
  OBVIOUS
<1> HIDE DEF m
<1>3. Part(<< script[m] >>, script, m, m + 1)
  BY <1>2, OneStatement
<1>4. Part(q \o << script[k] >>, script, i, m)
  BY <1>1, JoinedParts DEF m
<1>5. Part(q \o << script[k] >> \o << script[m] >>, script, i, m + 1)
  BY <1>3, <1>4, JoinedParts
<1>6. q \o << script[k] >> \in Seq(Statements(script))
  BY <1>4 DEF Part
<1>7. QED BY <1>2, <1>5, <1>6 DEF m

LEMMA DownInScript ==
  /\ Part(Mig!Down(4) \o << Record(3) >> \o << Commit >>, Down4, 1, Down4Ends)
  /\ Mig!Down(4) \o << Record(3) >> \in Seq(Statements(Down4))
  /\ Part(Mig!Down(3) \o << Record(2) >> \o << Commit >>, Down3, 1, 6)
  /\ Mig!Down(3) \o << Record(2) >> \in Seq(Statements(Down3))
<1>1. /\ Part(Mig!Down(4) \o << Record(3) >> \o << Commit >>, Down4, 1, Down4Ends)
      /\ Mig!Down(4) \o << Record(3) >> \in Seq(Statements(Down4))
  <2>1. CASE driver = "sqlite"
    <3> DEFINE q == << Commit, Unenforce, Begin, RequireDate, Commit, Enforce, Begin >>
               first == 1
               n == 7
    <3>1. Mig!Down(4) = q
      BY 4 # 3, <2>1, Zenon DEF Mig!Down, Mig!Unenforced, Commit, Unenforce, Begin, RequireDate, Enforce
    <3>2. \A j \in 1 .. n : first + j - 1 \in DOMAIN Down4Sqlite /\ q[j] = Down4Sqlite[first + j - 1]
      BY Down4SqliteStatements
    <3>3. Len(q) = n /\ DOMAIN q = 1 .. n /\ \A S : (\A j \in 1 .. n : q[j] \in S) => q \in Seq(S)
      OBVIOUS
    <3>4. first \in Nat /\ first >= 1 /\ n \in Nat /\ first = 1 /\ first + n = 8
      OBVIOUS
    <3> HIDE DEF q, first, n
    <3>5. Part(q, Down4Sqlite, first, first + n)
      BY <3>2, <3>3, <3>4, PartLiterally
    <3> DEFINE k == 8
    <3>6. /\ k \in Nat /\ k >= 1 /\ k \in DOMAIN Down4Sqlite /\ k + 1 \in DOMAIN Down4Sqlite /\ k + 2 = 10
          /\ Down4Sqlite[k] = Record(3) /\ Down4Sqlite[k + 1] = Commit
      BY Down4SqliteStatements
    <3>7. Part(q, Down4Sqlite, 1, k)
      BY <3>4, <3>5
    <3> HIDE DEF k
    <3>8. /\ Part(q \o << Down4Sqlite[k] >> \o << Down4Sqlite[k + 1] >>, Down4Sqlite, 1, k + 2)
          /\ q \o << Down4Sqlite[k] >> \in Seq(Statements(Down4Sqlite))
      BY <3>6, <3>7, WithItsRecord
    <3>9. Down4 = Down4Sqlite /\ Down4Ends = 10
      BY <2>1 DEF Down4, Down4Ends
    <3>10. QED BY <3>1, <3>6, <3>8, <3>9
  <2>2. CASE driver # "sqlite"
    <3> DEFINE q == << RequireDate >>
               first == 1
               n == 1
    <3>1. Mig!Down(4) = q
      BY 4 # 3, <2>2, Zenon DEF Mig!Down, Mig!Unenforced, RequireDate
    <3>2. \A j \in 1 .. n : first + j - 1 \in DOMAIN Down4Other /\ q[j] = Down4Other[first + j - 1]
      BY Down4OtherStatements
    <3>3. Len(q) = n /\ DOMAIN q = 1 .. n /\ \A S : (\A j \in 1 .. n : q[j] \in S) => q \in Seq(S)
      OBVIOUS
    <3>4. first \in Nat /\ first >= 1 /\ n \in Nat /\ first = 1 /\ first + n = 2
      OBVIOUS
    <3> HIDE DEF q, first, n
    <3>5. Part(q, Down4Other, first, first + n)
      BY <3>2, <3>3, <3>4, PartLiterally
    <3> DEFINE k == 2
    <3>6. /\ k \in Nat /\ k >= 1 /\ k \in DOMAIN Down4Other /\ k + 1 \in DOMAIN Down4Other /\ k + 2 = 4
          /\ Down4Other[k] = Record(3) /\ Down4Other[k + 1] = Commit
      BY Down4OtherStatements
    <3>7. Part(q, Down4Other, 1, k)
      BY <3>4, <3>5
    <3> HIDE DEF k
    <3>8. /\ Part(q \o << Down4Other[k] >> \o << Down4Other[k + 1] >>, Down4Other, 1, k + 2)
          /\ q \o << Down4Other[k] >> \in Seq(Statements(Down4Other))
      BY <3>6, <3>7, WithItsRecord
    <3>9. Down4 = Down4Other /\ Down4Ends = 4
      BY <2>2 DEF Down4, Down4Ends
    <3>10. QED BY <3>1, <3>6, <3>8, <3>9
  <2>3. QED BY <2>1, <2>2
<1>2. /\ Part(Mig!Down(3) \o << Record(2) >> \o << Commit >>, Down3, 1, 6)
      /\ Mig!Down(3) \o << Record(2) >> \in Seq(Statements(Down3))
  <2> DEFINE q == << AddColumn, CopyBack, DropPrivate >>
             first == 1
             n == 3
  <2>1. Mig!Down(3) = q
    BY Zenon DEF Mig!Down, Mig!MovesKeysBack, AddColumn, CopyBack, DropPrivate
  <2>2. \A j \in 1 .. n : first + j - 1 \in DOMAIN Down3 /\ q[j] = Down3[first + j - 1]
    BY Down3Statements
  <2>3. Len(q) = n /\ DOMAIN q = 1 .. n /\ \A S : (\A j \in 1 .. n : q[j] \in S) => q \in Seq(S)
    OBVIOUS
  <2>4. first \in Nat /\ first >= 1 /\ n \in Nat /\ first = 1 /\ first + n = 4
    OBVIOUS
  <2> HIDE DEF q, first, n
  <2>5. Part(q, Down3, first, first + n)
    BY <2>2, <2>3, <2>4, PartLiterally
  <2> DEFINE k == 4
  <2>6. /\ k \in Nat /\ k >= 1 /\ k \in DOMAIN Down3 /\ k + 1 \in DOMAIN Down3 /\ k + 2 = 6
        /\ Down3[k] = Record(2) /\ Down3[k + 1] = Commit
    BY Down3Statements
  <2>7. Part(q, Down3, 1, k)
    BY <2>4, <2>5
  <2> HIDE DEF k
  <2>8. /\ Part(q \o << Down3[k] >> \o << Down3[k + 1] >>, Down3, 1, k + 2)
        /\ q \o << Down3[k] >> \in Seq(Statements(Down3))
    BY <2>6, <2>7, WithItsRecord
  <2>9. QED BY <2>1, <2>6, <2>8
<1>3. QED BY <1>1, <1>2

------------------------------------------------------------------------------
\* The databases, and what a statement makes of one
Optionals == {OfKey, OfService, Mig!IssuanceDate}
Layouts == [tables : SUBSET (Mig!Tables \cup {"private-key"}), optional : SUBSET Optionals, column : BOOLEAN,
            keys : SUBSET TableKeys, inColumn : SUBSET TableKeys, private : SUBSET TableKeys,
            presentations : SUBSET TablePresentations, joined : SUBSET (Mig!Tables \X TablePresentations),
            undated : SUBSET TablePresentations, recorded : 0 .. 4]

\* No table refers to keys or services, so none goes with them.
LEMMA NothingRefersToKeys ==
  ASSUME NEW t PROVE Mig!Refers(t, "key", TRUE) \notin Mig!ForeignKeys /\ Mig!Refers(t, "service", TRUE) \notin Mig!ForeignKeys
<1>1. \A f \in Mig!ForeignKeys : f.to # "key" /\ f.to # "service"
  BY DEF Mig!ForeignKeys, Mig!OfIdentifiers, Mig!OfCredentials, Mig!OfPresentations, Mig!OfMessages, Mig!OfJoins, Mig!Refers
<1>2. QED BY <1>1 DEF Mig!Refers

LEMMA ChangedStays ==
  ASSUME NEW d \in Layouts, NEW table, table \in {"key", "service"} \/ ~(driver = "sqlite" /\ enforced)
  PROVE  Mig!Changed(d, table) = d
<1>1. CASE ~(driver = "sqlite" /\ enforced)
  BY <1>1 DEF Mig!Changed
<1>2. CASE driver = "sqlite" /\ enforced
  <2>1. {row \in d.joined : Mig!Refers(row[1], table, TRUE) \notin Mig!ForeignKeys} = d.joined
    BY <1>2, NothingRefersToKeys
  <2> DEFINE joined == d.joined
             left == {row \in joined : Mig!Refers(row[1], table, TRUE) \notin Mig!ForeignKeys}
  <2>2. Mig!Changed(d, table) = [d EXCEPT !.joined = left] /\ left = joined
    BY <1>2, <2>1 DEF Mig!Changed
  <2>3. [d EXCEPT !.joined = joined] = d
    <3> HIDE DEF left
    <3>1. QED BY DEF Layouts
  <2> HIDE DEF left, joined
  <2>4. QED BY <2>2, <2>3
<1>3. QED BY <1>1, <1>2

\* Statements that leave the database as it is
Marks == {Begin, Commit, Enforce, Unenforce}

LEMMA StatementsAre ==
  /\ CreateAll.what = "create all" /\ CreatePrivate.what = "create" /\ DropPrivate.what = "drop"
  /\ CopyKeys.what = "copy keys" /\ DropColumn.what = "drop column"
  /\ AddColumn.what = "add column" /\ CopyBack.what = "copy back"
  /\ KeyOptional.what = "optional" /\ ServiceOptional.what = "optional" /\ DateOptional.what = "optional"
  /\ KeyOptional.of = OfKey /\ ServiceOptional.of = OfService /\ DateOptional.of = Mig!IssuanceDate
  /\ RequireDate.what = "required" /\ RequireDate.of = Mig!IssuanceDate
  /\ OfKey[1] = "key" /\ OfService[1] = "service" /\ Mig!IssuanceDate[1] = "presentation"
  /\ \A n : Record(n).what = "record" /\ Record(n).of = n
BY DEF CreateAll, CreatePrivate, CopyKeys, DropColumn, AddColumn, CopyBack, DropPrivate, KeyOptional, ServiceOptional,
       DateOptional, RequireDate, OfKey, OfService, Record, Mig!IssuanceDate, Mig!Do, Mig!Change

LEMMA ColumnsDiffer == OfKey # OfService /\ OfKey # Mig!IssuanceDate /\ OfService # Mig!IssuanceDate
BY DEF OfKey, OfService, Mig!IssuanceDate, Mig!Change

\* What is the same in two databases
SameRows(d, e) == e.keys = d.keys /\ e.presentations = d.presentations /\ e.joined = d.joined
SameKeys(d, e) == e.inColumn = d.inColumn /\ e.private = d.private
SameOptional(d, e) == e.optional = d.optional

LEMMA EffectOfMarks ==
  ASSUME NEW d, NEW s \in Marks
  PROVE  Mig!Effect(d, s) = d
<1>1. s.what \in {"begin", "commit", "enforce"}
  BY DEF Marks, Begin, Commit, Enforce, Unenforce, Mig!Do
<1>2. QED BY <1>1, Zenon DEF Mig!Effect

LEMMA EffectOfCreateAll ==
  ASSUME NEW d \in Layouts
  PROVE  LET e == Mig!Effect(d, CreateAll) IN
         /\ e \in Layouts
         /\ SameRows(d, e)
         /\ SameKeys(d, e)
         /\ SameOptional(d, e)
         /\ e.recorded = d.recorded
         /\ e.undated = d.undated
<1> DEFINE e == Mig!Effect(d, CreateAll)
           v1 == d.tables \cup Mig!Tables
           v2 == d.column \/ "key" \notin d.tables
<1>2. e = [d EXCEPT !.tables = v1, !.column = v2]
  BY StatementsAre, Zenon DEF Mig!Effect
<1>3. v1 \in SUBSET (Mig!Tables \cup {"private-key"}) /\ v2 \in BOOLEAN
  BY StatementsAre DEF Layouts, Optionals
<1> HIDE DEF e, v1, v2
<1>4. /\ e \in Layouts
      /\ e.tables = v1
      /\ e.column = v2
      /\ e.recorded = d.recorded /\ e.optional = d.optional /\ e.keys = d.keys /\ e.inColumn = d.inColumn /\ e.private = d.private /\ e.presentations = d.presentations /\ e.joined = d.joined /\ e.undated = d.undated
  BY <1>2, <1>3 DEF Layouts
<1>5. QED BY <1>4, StatementsAre DEF SameRows, SameKeys, SameOptional, e, v1, v2

LEMMA EffectOfCreatePrivate ==
  ASSUME NEW d \in Layouts
  PROVE  LET e == Mig!Effect(d, CreatePrivate) IN
         /\ e \in Layouts
         /\ SameRows(d, e)
         /\ SameKeys(d, e)
         /\ SameOptional(d, e)
         /\ e.recorded = d.recorded
         /\ e.undated = d.undated
<1> DEFINE e == Mig!Effect(d, CreatePrivate)
           v1 == d.tables \cup {"private-key"}
<1>2. e = [d EXCEPT !.tables = v1]
  BY StatementsAre, Zenon DEF Mig!Effect
<1>3. v1 \in SUBSET (Mig!Tables \cup {"private-key"})
  BY StatementsAre DEF Layouts, Optionals
<1> HIDE DEF e, v1
<1>4. /\ e \in Layouts
      /\ e.tables = v1
      /\ e.recorded = d.recorded /\ e.optional = d.optional /\ e.keys = d.keys /\ e.inColumn = d.inColumn /\ e.private = d.private /\ e.presentations = d.presentations /\ e.joined = d.joined /\ e.undated = d.undated
  BY <1>2, <1>3 DEF Layouts
<1>5. QED BY <1>4, StatementsAre DEF SameRows, SameKeys, SameOptional, e, v1

LEMMA EffectOfRecord ==
  ASSUME NEW d \in Layouts, NEW n \in 0 .. 4
  PROVE  LET e == Mig!Effect(d, Record(n)) IN
         /\ e \in Layouts
         /\ SameRows(d, e)
         /\ SameKeys(d, e)
         /\ SameOptional(d, e)
         /\ e.recorded = n
         /\ e.undated = d.undated
<1> DEFINE e == Mig!Effect(d, Record(n))
           v1 == Record(n).of
<1>2. e = [d EXCEPT !.recorded = v1]
  BY StatementsAre, Zenon DEF Mig!Effect
<1>3. v1 \in 0 .. 4
  BY StatementsAre DEF Layouts, Optionals
<1> HIDE DEF e, v1
<1>4. /\ e \in Layouts
      /\ e.recorded = v1
      /\ e.optional = d.optional /\ e.keys = d.keys /\ e.inColumn = d.inColumn /\ e.private = d.private /\ e.presentations = d.presentations /\ e.joined = d.joined /\ e.undated = d.undated
  BY <1>2, <1>3 DEF Layouts
<1>5. QED BY <1>4, StatementsAre DEF SameRows, SameKeys, SameOptional, e, v1

LEMMA EffectOfOptional ==
  ASSUME NEW d \in Layouts, NEW s \in {KeyOptional, ServiceOptional, DateOptional},
         s = DateOptional => ~(driver = "sqlite" /\ enforced)
  PROVE  LET e == Mig!Effect(d, s) IN
         /\ e \in Layouts
         /\ SameRows(d, e)
         /\ SameKeys(d, e)
         /\ e.recorded = d.recorded
         /\ e.undated = d.undated
         /\ e.optional = d.optional \cup {s.of}
<1> DEFINE e == Mig!Effect(d, s)
           v1 == d.optional \cup {s.of}
<1>1. Mig!Changed(d, s.of[1]) = d
  BY ChangedStays, StatementsAre
<1>2. e = [d EXCEPT !.optional = v1]
  <2> DEFINE c == Mig!Changed(d, s.of[1])
  <2>1. s.what = "optional"
    BY StatementsAre
  <2>2. e = [c EXCEPT !.optional = c.optional \cup {s.of}]
    BY <2>1, Zenon DEF Mig!Effect
  <2>3. QED BY <1>1, <2>2
<1>3. v1 \in SUBSET Optionals
  BY StatementsAre, ZenonT(40) DEF Layouts, Optionals
<1> HIDE DEF e, v1
<1>4. /\ e \in Layouts
      /\ e.optional = v1
      /\ e.recorded = d.recorded /\ e.keys = d.keys /\ e.inColumn = d.inColumn /\ e.private = d.private /\ e.presentations = d.presentations /\ e.joined = d.joined /\ e.undated = d.undated
  BY <1>2, <1>3 DEF Layouts
<1>5. QED BY <1>4, StatementsAre DEF SameRows, SameKeys, SameOptional, e, v1

LEMMA EffectOfRequired ==
  ASSUME NEW d \in Layouts, ~(driver = "sqlite" /\ enforced)
  PROVE  LET e == Mig!Effect(d, RequireDate) IN
         /\ e \in Layouts
         /\ SameRows(d, e)
         /\ SameKeys(d, e)
         /\ e.recorded = d.recorded
         /\ e.optional = d.optional \ {Mig!IssuanceDate}
         /\ e.undated = {}
<1> DEFINE e == Mig!Effect(d, RequireDate)
           v1 == d.optional \ {RequireDate.of}
           v2 == {}
<1>1. Mig!Changed(d, RequireDate.of[1]) = d
  BY ChangedStays, StatementsAre
<1>2. e = [d EXCEPT !.optional = v1, !.undated = v2]
  <2> DEFINE c == Mig!Changed(d, RequireDate.of[1])
  <2>1. e = [c EXCEPT !.optional = c.optional \ {RequireDate.of}, !.undated = {}]
    BY StatementsAre, Zenon DEF Mig!Effect
  <2>2. QED BY <1>1, <2>1
<1>3. v1 \in SUBSET Optionals /\ v2 \in SUBSET TablePresentations
  BY StatementsAre DEF Layouts, Optionals
<1> HIDE DEF e, v1, v2
<1>4. /\ e \in Layouts
      /\ e.optional = v1
      /\ e.undated = v2
      /\ e.recorded = d.recorded /\ e.keys = d.keys /\ e.inColumn = d.inColumn /\ e.private = d.private /\ e.presentations = d.presentations /\ e.joined = d.joined
  BY <1>2, <1>3 DEF Layouts
<1>5. QED BY <1>4, StatementsAre DEF SameRows, SameKeys, SameOptional, e, v1, v2

LEMMA EffectOfCopyKeys ==
  ASSUME NEW d \in Layouts
  PROVE  LET e == Mig!Effect(d, CopyKeys) IN
         /\ e \in Layouts
         /\ SameRows(d, e)
         /\ SameOptional(d, e)
         /\ e.recorded = d.recorded
         /\ e.undated = d.undated
         /\ e.inColumn = d.inColumn
         /\ e.private = d.private \cup d.inColumn
<1> DEFINE e == Mig!Effect(d, CopyKeys)
           v1 == d.private \cup d.inColumn
<1>2. e = [d EXCEPT !.private = v1]
  BY StatementsAre, Zenon DEF Mig!Effect
<1>3. v1 \in SUBSET TableKeys
  BY StatementsAre DEF Layouts, Optionals
<1> HIDE DEF e, v1
<1>4. /\ e \in Layouts
      /\ e.private = v1
      /\ e.recorded = d.recorded /\ e.optional = d.optional /\ e.keys = d.keys /\ e.inColumn = d.inColumn /\ e.presentations = d.presentations /\ e.joined = d.joined /\ e.undated = d.undated
  BY <1>2, <1>3 DEF Layouts
<1>5. QED BY <1>4, StatementsAre DEF SameRows, SameKeys, SameOptional, e, v1

LEMMA EffectOfDropColumn ==
  ASSUME NEW d \in Layouts
  PROVE  LET e == Mig!Effect(d, DropColumn) IN
         /\ e \in Layouts
         /\ SameRows(d, e)
         /\ SameOptional(d, e)
         /\ e.recorded = d.recorded
         /\ e.undated = d.undated
         /\ e.inColumn = {}
         /\ e.private = d.private
<1> DEFINE e == Mig!Effect(d, DropColumn)
           v1 == FALSE
           v2 == {}
<1>1. Mig!Changed(d, "key") = d
  BY ChangedStays, StatementsAre
<1>2. e = [d EXCEPT !.column = v1, !.inColumn = v2]
  <2> DEFINE c == Mig!Changed(d, "key")
  <2>1. e = [c EXCEPT !.column = FALSE, !.inColumn = {}]
    BY StatementsAre, Zenon DEF Mig!Effect
  <2>2. QED BY <1>1, <2>1
<1>3. v1 \in BOOLEAN /\ v2 \in SUBSET TableKeys
  BY StatementsAre DEF Layouts, Optionals
<1> HIDE DEF e, v1, v2
<1>4. /\ e \in Layouts
      /\ e.column = v1
      /\ e.inColumn = v2
      /\ e.recorded = d.recorded /\ e.optional = d.optional /\ e.keys = d.keys /\ e.private = d.private /\ e.presentations = d.presentations /\ e.joined = d.joined /\ e.undated = d.undated
  BY <1>2, <1>3 DEF Layouts
<1>5. QED BY <1>4, StatementsAre DEF SameRows, SameKeys, SameOptional, e, v1, v2

LEMMA EffectOfAddColumn ==
  ASSUME NEW d \in Layouts
  PROVE  LET e == Mig!Effect(d, AddColumn) IN
         /\ e \in Layouts
         /\ SameRows(d, e)
         /\ SameKeys(d, e)
         /\ SameOptional(d, e)
         /\ e.recorded = d.recorded
         /\ e.undated = d.undated
<1> DEFINE e == Mig!Effect(d, AddColumn)
           v1 == TRUE
<1>1. Mig!Changed(d, "key") = d
  BY ChangedStays, StatementsAre
<1>2. e = [d EXCEPT !.column = v1]
  <2> DEFINE c == Mig!Changed(d, "key")
  <2>1. e = [c EXCEPT !.column = TRUE]
    BY StatementsAre, Zenon DEF Mig!Effect
  <2>2. QED BY <1>1, <2>1
<1>3. v1 \in BOOLEAN
  BY StatementsAre DEF Layouts, Optionals
<1> HIDE DEF e, v1
<1>4. /\ e \in Layouts
      /\ e.column = v1
      /\ e.recorded = d.recorded /\ e.optional = d.optional /\ e.keys = d.keys /\ e.inColumn = d.inColumn /\ e.private = d.private /\ e.presentations = d.presentations /\ e.joined = d.joined /\ e.undated = d.undated
  BY <1>2, <1>3 DEF Layouts
<1>5. QED BY <1>4, StatementsAre DEF SameRows, SameKeys, SameOptional, e, v1

LEMMA EffectOfCopyBack ==
  ASSUME NEW d \in Layouts
  PROVE  LET e == Mig!Effect(d, CopyBack) IN
         /\ e \in Layouts
         /\ SameRows(d, e)
         /\ SameOptional(d, e)
         /\ e.recorded = d.recorded
         /\ e.undated = d.undated
         /\ e.inColumn = d.private \cap d.keys
         /\ e.private = d.private
<1> DEFINE e == Mig!Effect(d, CopyBack)
           v1 == d.private \cap d.keys
<1>2. e = [d EXCEPT !.inColumn = v1]
  BY StatementsAre, Zenon DEF Mig!Effect
<1>3. v1 \in SUBSET TableKeys
  BY StatementsAre DEF Layouts, Optionals
<1> HIDE DEF e, v1
<1>4. /\ e \in Layouts
      /\ e.inColumn = v1
      /\ e.recorded = d.recorded /\ e.optional = d.optional /\ e.keys = d.keys /\ e.private = d.private /\ e.presentations = d.presentations /\ e.joined = d.joined /\ e.undated = d.undated
  BY <1>2, <1>3 DEF Layouts
<1>5. QED BY <1>4, StatementsAre DEF SameRows, SameKeys, SameOptional, e, v1

LEMMA EffectOfDropPrivate ==
  ASSUME NEW d \in Layouts
  PROVE  LET e == Mig!Effect(d, DropPrivate) IN
         /\ e \in Layouts
         /\ SameRows(d, e)
         /\ SameOptional(d, e)
         /\ e.recorded = d.recorded
         /\ e.undated = d.undated
         /\ e.inColumn = d.inColumn
         /\ e.private = {}
<1> DEFINE e == Mig!Effect(d, DropPrivate)
           v1 == d.tables \ {"private-key"}
           v2 == {}
<1>2. e = [d EXCEPT !.tables = v1, !.private = v2]
  BY StatementsAre, Zenon DEF Mig!Effect
<1>3. v1 \in SUBSET (Mig!Tables \cup {"private-key"}) /\ v2 \in SUBSET TableKeys
  BY StatementsAre DEF Layouts, Optionals
<1> HIDE DEF e, v1, v2
<1>4. /\ e \in Layouts
      /\ e.tables = v1
      /\ e.private = v2
      /\ e.recorded = d.recorded /\ e.optional = d.optional /\ e.keys = d.keys /\ e.inColumn = d.inColumn /\ e.presentations = d.presentations /\ e.joined = d.joined /\ e.undated = d.undated
  BY <1>2, <1>3 DEF Layouts
<1>5. QED BY <1>4, StatementsAre DEF SameRows, SameKeys, SameOptional, e, v1, v2

------------------------------------------------------------------------------
\* The inductive invariant of the migrations

MigTyped ==
    /\ driver \in {"sqlite", "postgres"} /\ transaction \in BOOLEAN /\ enforced \in BOOLEAN /\ cut \in BOOLEAN
    /\ runs \in 0 .. MaxRuns /\ migrated \subseteq TableKeys
    /\ db \in Layouts /\ committed \in Layouts

RowsAreWhole(d) ==
    /\ migrated \subseteq d.keys /\ d.inColumn \subseteq d.keys /\ d.undated \subseteq d.presentations
    /\ \A p \in d.presentations : Mig!JoinedTo(p) \subseteq d.joined

\* A database in which a version is recorded has what that version promises.
KeepsPromise(d) ==
    /\ IF d.recorded >= 3 THEN migrated \subseteq d.private ELSE migrated \subseteq d.inColumn
    /\ d.recorded >= 2 => OfKey \in d.optional /\ OfService \in d.optional
    /\ d.recorded = 4 /\ ~cut => Mig!IssuanceDate \in d.optional

\* The database before the i-th statement of a script, whether a transaction is
\* open then, and whether foreign keys are enforced
UpDate == IF driver = "sqlite" THEN 13 ELSE 10
UpData(i) ==
    /\ db.recorded = IF i <= 2 THEN 0 ELSE IF i <= 5 THEN 1 ELSE IF i <= 9 THEN 2 ELSE IF i < Starts(4) THEN 3 ELSE 4
    /\ i <= 8 => migrated \subseteq db.inColumn
    /\ i >= 8 => migrated \subseteq db.private
    /\ i >= 4 => OfKey \in db.optional
    /\ i >= 5 => OfService \in db.optional
    /\ i > UpDate => Mig!IssuanceDate \in db.optional
    /\ ~cut
UpOpen(i) == driver = "sqlite" => i \notin {11, 12, 15, 16}
UpEnforced(i) == driver = "sqlite" => i \notin {12, 13, 14, 15}

Down4Data(i) ==
    /\ db.recorded = IF i <= Down4Ends - 2 THEN 4 ELSE 3
    /\ migrated \subseteq db.private /\ OfKey \in db.optional /\ OfService \in db.optional
Down4Open(i) == driver = "sqlite" => i \notin {2, 3, 6, 7}
Down4Enforced(i) == driver = "sqlite" => i \notin {3, 4, 5, 6}

Down3Data(i) ==
    /\ db.recorded = IF i <= 4 THEN 3 ELSE 2
    /\ i <= 3 => migrated \subseteq db.private
    /\ i >= 3 => migrated \subseteq db.inColumn
    /\ OfKey \in db.optional /\ OfService \in db.optional

LEMMA UpDataStep ==
  ASSUME NEW i \in 1 .. Starts(4), driver \in {"sqlite", "postgres"}, db \in Layouts, RowsAreWhole(db), UpData(i), enforced <=> UpEnforced(i),
         db' = Mig!Effect(db, Up[i]), UNCHANGED <<driver, migrated>>, ~cut'
  PROVE  db' \in Layouts /\ RowsAreWhole(db)' /\ UpData(i + 1)'
<1> DEFINE s == Up[i]
           Rest == db' \in Layouts /\ RowsAreWhole(db)' /\ UpData(i + 1)'
<1>1. (driver = "sqlite" /\ Starts(4) = 18 /\ Up = UpSqlite /\ UpDate = 13) \/ (driver # "sqlite" /\ Starts(4) = 12 /\ Up = UpOther /\ UpDate = 10)
  BY DEF Starts, Up, UpDate
<1>2. Starts(4)' = Starts(4) /\ UpDate' = UpDate
  BY DEF Starts, UpDate
<1>3. ASSUME s \in Marks PROVE Rest
  <2>1. db' = db
    BY <1>3, EffectOfMarks
  <2>2. i \notin {1, 2, 3, 4, 5, 6, 7, 8, 9, UpDate, Starts(4) - 1}
    <3>1. s \notin {CreateAll, Record(1), Record(2), Record(3), Record(4), KeyOptional, ServiceOptional, DateOptional, CreatePrivate, CopyKeys, DropColumn}
      <4>1. s.what \in {"begin", "commit", "enforce"}
        BY <1>3 DEF Marks, Begin, Commit, Enforce, Unenforce, Mig!Do
      <4>2. QED BY <4>1, StatementsAre
    <3> HIDE DEF s
    <3>2. QED BY <3>1, <1>1, UpSqliteStatements, UpOtherStatements DEF s
  <2>3. QED BY <2>1, <2>2, <1>1, <1>2 DEF UpData, RowsAreWhole
<1>4. ASSUME i = 1 PROVE Rest
  <2>1. s = CreateAll
    BY <1>4, <1>1, UpSqliteStatements, UpOtherStatements
  <2>2. db' \in Layouts /\ SameRows(db, db') /\ SameKeys(db, db') /\ SameOptional(db, db') /\ db'.recorded = db.recorded /\ db'.undated = db.undated
    BY <2>1, EffectOfCreateAll
  <2>3. QED BY <2>2, <1>4, <1>1, <1>2 DEF UpData, RowsAreWhole, SameRows, SameKeys, SameOptional
<1>5. ASSUME i \in {2, 5, 9, Starts(4) - 1} PROVE Rest
  <2>1. PICK n \in 1 .. 4 : s = Record(n) /\ i = Starts(n) - 1
    <3>1. Starts(1) = 3 /\ Starts(2) = 6 /\ Starts(3) = 10
      BY DEF Starts
    <3>2. QED BY <3>1, <1>5, <1>1, UpSqliteStatements, UpOtherStatements
  <2>2. Starts(1) = 3 /\ Starts(2) = 6 /\ Starts(3) = 10
    BY DEF Starts
  <2>3. db' \in Layouts /\ SameRows(db, db') /\ SameKeys(db, db') /\ SameOptional(db, db') /\ db'.recorded = n /\ db'.undated = db.undated
    BY <2>1, EffectOfRecord
  <2>4. n = 1 \/ n = 2 \/ n = 3 \/ n = 4
    OBVIOUS
  <2>5. RowsAreWhole(db)'
    BY <2>3 DEF RowsAreWhole, SameRows, SameKeys
  <2>6. UpData(i + 1)'
    BY <2>1, <2>2, <2>3, <2>4, <1>1, <1>2 DEF UpData, SameKeys, SameOptional
  <2>7. QED BY <2>3, <2>5, <2>6
<1>6. ASSUME i \in {3, 4, UpDate} PROVE Rest
  <2>1. /\ s \in {KeyOptional, ServiceOptional, DateOptional} /\ (i = 3 => s.of = OfKey) /\ (i = 4 => s.of = OfService)
        /\ (i = UpDate => s.of = Mig!IssuanceDate) /\ (s = DateOptional => i = UpDate)
    <3>1. (i = 3 /\ s = KeyOptional) \/ (i = 4 /\ s = ServiceOptional) \/ (i = UpDate /\ s = DateOptional)
      BY <1>6, <1>1, UpSqliteStatements, UpOtherStatements
    <3>2. KeyOptional # DateOptional /\ ServiceOptional # DateOptional
      BY StatementsAre, ColumnsDiffer
    <3>3. UpDate \notin {3, 4}
      BY <1>1
    <3> HIDE DEF s
    <3>4. KeyOptional.of = OfKey /\ ServiceOptional.of = OfService /\ DateOptional.of = Mig!IssuanceDate
      BY StatementsAre
    <3>5. CASE i = 3 /\ s = KeyOptional
      BY <3>2, <3>3, <3>4, <3>5
    <3>6. CASE i = 4 /\ s = ServiceOptional
      BY <3>2, <3>3, <3>4, <3>6
    <3>7. CASE i = UpDate /\ s = DateOptional
      BY <3>2, <3>3, <3>4, <3>7
    <3>8. QED BY <3>1, <3>5, <3>6, <3>7
  <2>2. s = DateOptional => ~(driver = "sqlite" /\ enforced)
    BY <2>1, <1>1 DEF UpEnforced
  <2>3. db' \in Layouts /\ SameRows(db, db') /\ SameKeys(db, db') /\ db'.optional = db.optional \cup {s.of} /\ db'.recorded = db.recorded /\ db'.undated = db.undated
    BY <2>1, <2>2, EffectOfOptional
  <2>4. QED BY <2>1, <2>3, <1>6, <1>1, <1>2 DEF UpData, RowsAreWhole, SameRows, SameKeys
<1>7. ASSUME i = 6 PROVE Rest
  <2>1. s = CreatePrivate
    BY <1>7, <1>1, UpSqliteStatements, UpOtherStatements
  <2>2. db' \in Layouts /\ SameRows(db, db') /\ SameKeys(db, db') /\ SameOptional(db, db') /\ db'.recorded = db.recorded /\ db'.undated = db.undated
    BY <2>1, EffectOfCreatePrivate
  <2>3. QED BY <2>2, <1>7, <1>1, <1>2 DEF UpData, RowsAreWhole, SameRows, SameKeys, SameOptional
<1>8. ASSUME i = 7 PROVE Rest
  <2>1. s = CopyKeys
    BY <1>8, <1>1, UpSqliteStatements, UpOtherStatements
  <2>2. db' \in Layouts /\ SameRows(db, db') /\ SameOptional(db, db') /\ db'.recorded = db.recorded /\ db'.undated = db.undated
        /\ db'.inColumn = db.inColumn /\ db'.private = db.private \cup db.inColumn
    BY <2>1, EffectOfCopyKeys
  <2>3. QED BY <2>2, <1>8, <1>1, <1>2 DEF UpData, RowsAreWhole, SameRows, SameOptional
<1>9. ASSUME i = 8 PROVE Rest
  <2>1. s = DropColumn
    BY <1>9, <1>1, UpSqliteStatements, UpOtherStatements
  <2>2. db' \in Layouts /\ SameRows(db, db') /\ SameOptional(db, db') /\ db'.recorded = db.recorded /\ db'.undated = db.undated
        /\ db'.inColumn = {} /\ db'.private = db.private
    BY <2>1, EffectOfDropColumn
  <2>3. QED BY <2>2, <1>9, <1>1, <1>2 DEF UpData, RowsAreWhole, SameRows, SameOptional
<1>10. i \in 1 .. 9 \/ i \in {UpDate, Starts(4) - 1} \/ s \in Marks
  BY <1>1, UpSqliteStatements, UpOtherStatements DEF Marks
<1>11. QED BY <1>3, <1>4, <1>5, <1>6, <1>7, <1>8, <1>9, <1>10

LEMMA Down4DataStep ==
  ASSUME NEW i \in 1 .. Down4Ends - 1, driver \in {"sqlite", "postgres"}, db \in Layouts, RowsAreWhole(db), Down4Data(i),
         enforced <=> Down4Enforced(i), db' = Mig!Effect(db, Down4[i]), UNCHANGED <<driver, migrated>>
  PROVE  db' \in Layouts /\ RowsAreWhole(db)' /\ Down4Data(i + 1)'
<1> DEFINE s == Down4[i]
           Rest == db' \in Layouts /\ RowsAreWhole(db)' /\ Down4Data(i + 1)'
<1>1. (driver = "sqlite" /\ Down4Ends = 10 /\ Down4 = Down4Sqlite) \/ (driver # "sqlite" /\ Down4Ends = 4 /\ Down4 = Down4Other)
  BY DEF Down4, Down4Ends
<1>2. Down4Ends' = Down4Ends
  BY DEF Down4Ends
<1>3. ASSUME s \in Marks PROVE Rest
  <2>1. db' = db
    BY <1>3, EffectOfMarks
  <2>2. i # Down4Ends - 2
    <3>1. s # Record(3)
      <4>1. s.what \in {"begin", "commit", "enforce"}
        BY <1>3 DEF Marks, Begin, Commit, Enforce, Unenforce, Mig!Do
      <4>2. QED BY <4>1, StatementsAre
    <3> HIDE DEF s
    <3>2. QED BY <3>1, <1>1, Down4SqliteStatements, Down4OtherStatements DEF s
  <2>3. QED BY <2>1, <2>2, <1>1, <1>2 DEF Down4Data, RowsAreWhole
<1>4. ASSUME i = Down4Ends - 2 PROVE Rest
  <2>1. s = Record(3)
    BY <1>4, <1>1, Down4SqliteStatements, Down4OtherStatements
  <2>2. db' \in Layouts /\ SameRows(db, db') /\ SameKeys(db, db') /\ SameOptional(db, db') /\ db'.recorded = 3 /\ db'.undated = db.undated
    BY <2>1, EffectOfRecord
  <2>3. QED BY <2>2, <1>4, <1>1, <1>2 DEF Down4Data, RowsAreWhole, SameRows, SameKeys, SameOptional
<1>5. ASSUME s = RequireDate, i # Down4Ends - 2, i < Down4Ends - 2, ~(driver = "sqlite" /\ enforced) PROVE Rest
  <2>1. db' \in Layouts /\ SameRows(db, db') /\ SameKeys(db, db') /\ db'.optional = db.optional \ {Mig!IssuanceDate} /\ db'.recorded = db.recorded /\ db'.undated = {}
    BY <1>5, EffectOfRequired
  <2>2. QED BY <2>1, <1>5, <1>1, <1>2, ColumnsDiffer DEF Down4Data, RowsAreWhole, SameRows, SameKeys
<1>6. s \in Marks \/ i = Down4Ends - 2 \/ (s = RequireDate /\ i < Down4Ends - 2 /\ ~(driver = "sqlite" /\ enforced))
  BY <1>1, Down4SqliteStatements, Down4OtherStatements DEF Marks, Down4Enforced
<1>7. QED BY <1>3, <1>4, <1>5, <1>6

LEMMA Down3DataStep ==
  ASSUME NEW i \in 1 .. 5, db \in Layouts, RowsAreWhole(db), Down3Data(i),
         db' = Mig!Effect(db, Down3[i]), UNCHANGED <<driver, migrated>>
  PROVE  db' \in Layouts /\ RowsAreWhole(db)' /\ Down3Data(i + 1)'
<1> DEFINE s == Down3[i]
           Rest == db' \in Layouts /\ RowsAreWhole(db)' /\ Down3Data(i + 1)'
<1>1. ASSUME i = 1 PROVE Rest
  <2>1. s = AddColumn
    BY <1>1, Down3Statements
  <2>2. db' \in Layouts /\ SameRows(db, db') /\ SameKeys(db, db') /\ SameOptional(db, db') /\ db'.recorded = db.recorded /\ db'.undated = db.undated
    BY <2>1, EffectOfAddColumn
  <2>3. QED BY <2>2, <1>1 DEF Down3Data, RowsAreWhole, SameRows, SameKeys, SameOptional
<1>2. ASSUME i = 2 PROVE Rest
  <2>1. s = CopyBack
    BY <1>2, Down3Statements
  <2>2. db' \in Layouts /\ SameRows(db, db') /\ SameOptional(db, db') /\ db'.recorded = db.recorded /\ db'.undated = db.undated
        /\ db'.inColumn = db.private \cap db.keys /\ db'.private = db.private
    BY <2>1, EffectOfCopyBack
  <2>3. QED BY <2>2, <1>2 DEF Down3Data, RowsAreWhole, SameRows, SameOptional
<1>3. ASSUME i = 3 PROVE Rest
  <2>1. s = DropPrivate
    BY <1>3, Down3Statements
  <2>2. db' \in Layouts /\ SameRows(db, db') /\ SameOptional(db, db') /\ db'.recorded = db.recorded /\ db'.undated = db.undated
        /\ db'.inColumn = db.inColumn
    BY <2>1, EffectOfDropPrivate
  <2>3. QED BY <2>2, <1>3 DEF Down3Data, RowsAreWhole, SameRows, SameOptional
<1>4. ASSUME i = 4 PROVE Rest
  <2>1. s = Record(2)
    BY <1>4, Down3Statements
  <2>2. db' \in Layouts /\ SameRows(db, db') /\ SameKeys(db, db') /\ SameOptional(db, db') /\ db'.recorded = 2 /\ db'.undated = db.undated
    BY <2>1, EffectOfRecord
  <2>3. QED BY <2>2, <1>4 DEF Down3Data, RowsAreWhole, SameRows, SameKeys, SameOptional
<1>5. ASSUME i = 5 PROVE Rest
  <2>1. s = Commit
    BY <1>5, Down3Statements
  <2>2. db' = db
    BY <2>1, EffectOfMarks DEF Marks
  <2>3. QED BY <2>2, <1>5 DEF Down3Data, RowsAreWhole
<1>6. QED BY <1>1, <1>2, <1>3, <1>4, <1>5

\* What a step makes of the transaction and of what is committed
LEMMA MigStep ==
  ASSUME Mig!Step
  PROVE  /\ todo # <<>> /\ db' = Mig!Effect(db, Head(todo)) /\ todo' = Tail(todo) /\ UNCHANGED <<driver, runs, migrated>>
         /\ cut' <=> cut /\ todo' # <<>>
         /\ committed' = IF transaction' THEN committed ELSE db'
         /\ transaction \in BOOLEAN => transaction' \in BOOLEAN
         /\ enforced \in BOOLEAN /\ (Head(todo) \in Marks \/ Head(todo).what \notin {"begin", "commit", "enforce"}) => enforced' \in BOOLEAN
         /\ Head(todo) = Begin => transaction' /\ db' = db /\ (enforced' <=> enforced) /\ committed' = committed
         /\ Head(todo) = Commit => ~transaction' /\ db' = db /\ (enforced' <=> enforced) /\ committed' = db
         /\ Head(todo) \in {Enforce, Unenforce} /\ ~transaction =>
              /\ ~transaction' /\ db' = db /\ committed' = db /\ (enforced' <=> Head(todo) = Enforce)
         /\ Head(todo) \notin Marks /\ Head(todo).what \notin {"begin", "commit", "enforce"} =>
              /\ (transaction' <=> transaction) /\ (enforced' <=> enforced) /\ committed' = IF transaction THEN committed ELSE db'
<1> DEFINE s == Head(todo)
<1>1. /\ todo # <<>> /\ db' = Mig!Effect(db, s) /\ todo' = Tail(todo) /\ UNCHANGED <<driver, runs, migrated>>
      /\ cut' = (cut /\ todo' # <<>>)
      /\ transaction' = CASE s.what = "begin" -> TRUE [] s.what = "commit" -> FALSE [] OTHER -> transaction
      /\ committed' = IF transaction' THEN committed ELSE db'
      /\ enforced' = IF s.what = "enforce" /\ (driver = "postgres" \/ ~transaction) THEN s.of ELSE enforced
  BY DEF Mig!Step
<1>2. Begin.what = "begin" /\ Commit.what = "commit" /\ Enforce.what = "enforce" /\ Unenforce.what = "enforce"
      /\ Enforce.of = TRUE /\ Unenforce.of = FALSE
  BY DEF Begin, Commit, Enforce, Unenforce, Mig!Do
<1> HIDE DEF s
<1>3. s \in Marks => db' = db
  BY <1>1, EffectOfMarks
<1>4. s = Begin => transaction' /\ enforced' = enforced
  BY <1>1, <1>2, Zenon
<1>5. s = Commit => ~transaction' /\ enforced' = enforced
  BY <1>1, <1>2, "begin" # "commit", "commit" # "enforce", Zenon
<1>6. s \in {Enforce, Unenforce} /\ ~transaction => ~transaction' /\ enforced' = s.of
  BY <1>1, <1>2, "begin" # "enforce", "commit" # "enforce", Zenon
<1>7. s.what \notin {"begin", "commit", "enforce"} => transaction' = transaction /\ enforced' = enforced
  BY <1>1, Zenon
<1>8. Begin \in Marks /\ Commit \in Marks /\ Enforce \in Marks /\ Unenforce \in Marks /\ Enforce # Unenforce
  BY <1>2, Zenon DEF Marks
<1>9. s \in {Enforce, Unenforce} => (s.of <=> s = Enforce)
  BY <1>2, <1>8, Zenon
<1>10. transaction \in BOOLEAN => transaction' \in BOOLEAN
  <2>1. transaction' \in {TRUE, FALSE, transaction}
    BY <1>1, Zenon
  <2>2. QED BY <2>1
<1>11. ASSUME enforced \in BOOLEAN, s \in Marks \/ s.what \notin {"begin", "commit", "enforce"} PROVE enforced' \in BOOLEAN
  <2>1. enforced' = s.of \/ enforced' = enforced
    BY <1>1, Zenon
  <2>2. CASE enforced' = enforced
    BY <1>11, <2>2, Zenon
  <2>3. CASE s \in {Enforce, Unenforce}
    BY <1>2, <2>1, <2>3, <1>11, Zenon
  <2>4. CASE s \in {Begin, Commit}
    BY <1>4, <1>5, <2>4, <1>11, Zenon
  <2>5. CASE s.what \notin {"begin", "commit", "enforce"}
    BY <1>7, <2>5, <1>11, Zenon
  <2>6. QED BY <1>11, <2>3, <2>4, <2>5 DEF Marks
<1>12. QED
  <2>1. committed' = IF transaction' THEN committed ELSE db'
    BY <1>1
  <2>2. cut' <=> cut /\ todo' # <<>>
    BY <1>1, Zenon
  <2>3. s = Begin => committed' = committed
    BY <1>4, <2>1, Zenon
  <2>4. s = Commit => committed' = db
    BY <1>3, <1>5, <1>8, <2>1, Zenon
  <2>5. s \in {Enforce, Unenforce} /\ ~transaction => committed' = db
    BY <1>3, <1>6, <1>8, <2>1, Zenon
  <2>6. s.what \notin {"begin", "commit", "enforce"} => committed' = IF transaction THEN committed ELSE db'
    <3>1. CASE transaction
      BY <1>7, <2>1, <3>1
    <3>2. CASE ~transaction
      BY <1>7, <2>1, <3>2
    <3>3. QED BY <3>1, <3>2
  <2>7. s \in {Enforce, Unenforce} => s \in Marks
    BY <1>8
  <2>8. QED BY <1>1, <1>3, <1>4, <1>5, <1>6, <1>7, <1>8, <1>9, <1>10, <1>11, <2>1, <2>2, <2>3, <2>4, <2>5, <2>6, <2>7, Zenon DEF s

\* Where the statements that are left are in a script
UpAt(i) ==
    /\ i \in 1 .. Starts(4) /\ UpData(i) /\ Part(todo, Up, i, Starts(4) + 1)
    /\ (transaction <=> UpOpen(i)) /\ (enforced <=> UpEnforced(i))
Down4At(i) ==
    /\ i \in 1 .. Down4Ends - 1 /\ Down4Data(i) /\ cut /\ Part(todo, Down4, i, Down4Ends)
    /\ (transaction <=> Down4Open(i)) /\ (enforced <=> Down4Enforced(i))
Down3At(i) == i \in 1 .. 5 /\ Down3Data(i) /\ cut /\ Part(todo, Down3, i, 6) /\ transaction /\ enforced

\* Something is about to run.
Begins ==
    /\ todo # <<>> /\ Head(todo) = Begin /\ ~transaction /\ enforced
    /\ \/ \E r \in 0 .. 3 : Part(Tail(todo), Up, Starts(r), Starts(4) + 1) /\ UpData(Starts(r))
       \/ Part(Tail(todo), Down4, 1, Down4Ends) /\ Down4Data(1) /\ cut
       \/ Part(Tail(todo), Down3, 1, 6) /\ Down3Data(1) /\ cut

MigRuns ==
    \/ todo = <<>> /\ ~transaction /\ enforced
    \/ Begins
    \/ \E i \in Nat : UpAt(i) \/ Down4At(i) \/ Down3At(i)

MigInv ==
    /\ MigTyped /\ RowsAreWhole(db) /\ RowsAreWhole(committed) /\ KeepsPromise(committed)
    /\ ~transaction => committed = db
    /\ MigRuns

LEMMA ScriptsByDriver ==
  /\ (driver = "sqlite" /\ Starts(4) = 18 /\ Up = UpSqlite /\ UpDate = 13 /\ Down4Ends = 10 /\ Down4 = Down4Sqlite)
     \/ (driver # "sqlite" /\ Starts(4) = 12 /\ Up = UpOther /\ UpDate = 10 /\ Down4Ends = 4 /\ Down4 = Down4Other)
  /\ Starts(0) = 1 /\ Starts(1) = 3 /\ Starts(2) = 6 /\ Starts(3) = 10
BY DEF Starts, Up, UpDate, Down4, Down4Ends

LEMMA ScriptsStay ==
  ASSUME driver' = driver
  PROVE  Starts(4)' = Starts(4) /\ Up' = Up /\ Down4' = Down4 /\ Down4Ends' = Down4Ends /\ UpDate' = UpDate
         /\ \A r \in 0 .. 3 : Starts(r)' = Starts(r)
BY DEF Starts, Up, UpDate, Down4, Down4Ends

LEMMA EndsOfParts ==
  ASSUME NEW q, NEW script, NEW i, NEW k \in Nat, Part(q, script, i, k)
  PROVE  q = <<>> <=> i = k
<1> DEFINE S == Statements(script)
<1>1. q \in Seq(S) /\ i \in Nat /\ Len(q) = k - i
  BY DEF Part
<1> HIDE DEF S
<1>2. QED BY <1>1

LEMMA OthersAreNoMarks ==
  ASSUME NEW s, s \in {CreateAll, CreatePrivate, DropPrivate, CopyKeys, DropColumn, AddColumn, CopyBack, KeyOptional,
                       ServiceOptional, DateOptional, RequireDate} \/ \E n : s = Record(n)
  PROVE  s \notin Marks /\ s.what \notin {"begin", "commit", "enforce"}
<1>1. s.what \notin {"begin", "commit", "enforce"}
  BY StatementsAre
<1>2. \A m \in Marks : m.what \in {"begin", "commit", "enforce"}
  BY DEF Marks, Begin, Commit, Enforce, Unenforce, Mig!Do
<1>3. QED BY <1>1, <1>2

LEMMA UpControl ==
  ASSUME Mig!Step, NEW i \in 1 .. Starts(4), Head(todo) = Up[i], transaction <=> UpOpen(i), enforced <=> UpEnforced(i)
  PROVE  /\ transaction' <=> i # Starts(4) /\ UpOpen(i + 1)
         /\ enforced' <=> UpEnforced(i + 1)
         /\ transaction \in BOOLEAN /\ enforced \in BOOLEAN => transaction' \in BOOLEAN /\ enforced' \in BOOLEAN
<1>1. CASE driver = "sqlite"
  <2>1. /\ i \in 1 .. 9 \cup {13, 17} => Head(todo) \notin Marks /\ Head(todo).what \notin {"begin", "commit", "enforce"}
        /\ i \in {10, 14, 18} => Head(todo) = Commit
        /\ i \in {12, 16} => Head(todo) = Begin
        /\ i = 11 => Head(todo) = Unenforce
        /\ i = 15 => Head(todo) = Enforce
        /\ i \in 1 .. 18 /\ Starts(4) = 18
    <3>1. Starts(4) = 18 /\ Up = UpSqlite
      BY <1>1, ScriptsByDriver
    <3>2. i \in 1 .. 9 \cup {13, 17} => Head(todo) \in {CreateAll, CreatePrivate, DropPrivate, CopyKeys, DropColumn, AddColumn, CopyBack, KeyOptional,
                       ServiceOptional, DateOptional, RequireDate} \/ \E n : Head(todo) = Record(n)
      BY <3>1, UpSqliteStatements
    <3>3. QED BY <3>1, <3>2, UpSqliteStatements, OthersAreNoMarks
  <2>2. Enforce # Unenforce
    BY DEF Enforce, Unenforce, Mig!Do
  <2> DEFINE t == transaction'
             e == enforced'
             s == Head(todo)
  <2>3. /\ s = Begin => t /\ (e <=> enforced)
        /\ s = Commit => ~t /\ (e <=> enforced)
        /\ s \in {Enforce, Unenforce} /\ ~transaction => ~t /\ (e <=> s = Enforce)
        /\ s \notin Marks /\ s.what \notin {"begin", "commit", "enforce"} => (t <=> transaction) /\ (e <=> enforced)
    BY MigStep
  <2>0. Head(todo) \in Marks \/ Head(todo).what \notin {"begin", "commit", "enforce"}
    BY <2>1 DEF Marks
  <2> HIDE DEF t, e, s
  <2>4. (t <=> i # Starts(4) /\ UpOpen(i + 1)) /\ (e <=> UpEnforced(i + 1))
    BY <1>1, <2>1, <2>2, <2>3 DEF UpOpen, UpEnforced, s
  <2>5. QED BY <2>0, <2>4, MigStep DEF t, e
<1>2. CASE driver # "sqlite"
  <2>1. i \in 1 .. 12 /\ Starts(4) = 12 /\ Up = UpOther
    BY <1>2, ScriptsByDriver
  <2>2. i # 12 => Head(todo) \in {CreateAll, CreatePrivate, DropPrivate, CopyKeys, DropColumn, AddColumn, CopyBack, KeyOptional,
                       ServiceOptional, DateOptional, RequireDate} \/ \E n : Head(todo) = Record(n)
    BY <2>1, UpOtherStatements
  <2>3. i = 12 => Head(todo) = Commit
    BY <2>1, UpOtherStatements
  <2>4. UpOpen(i) /\ UpOpen(i + 1) /\ UpEnforced(i) /\ UpEnforced(i + 1)
    BY <1>2 DEF UpOpen, UpEnforced
  <2>5. i # 12 => Head(todo) \notin Marks /\ Head(todo).what \notin {"begin", "commit", "enforce"}
    BY <2>2, OthersAreNoMarks
  <2>6. Head(todo) \in Marks \/ Head(todo).what \notin {"begin", "commit", "enforce"}
    BY <2>1, <2>3, <2>5 DEF Marks
  <2>7. QED BY <2>1, <2>3, <2>4, <2>5, <2>6, MigStep
<1>3. QED BY <1>1, <1>2

LEMMA Down4Control ==
  ASSUME Mig!Step, NEW i \in 1 .. Down4Ends - 1, Head(todo) = Down4[i], transaction <=> Down4Open(i), enforced <=> Down4Enforced(i)
  PROVE  /\ transaction' <=> i # Down4Ends - 1 /\ Down4Open(i + 1)
         /\ enforced' <=> Down4Enforced(i + 1)
         /\ transaction \in BOOLEAN /\ enforced \in BOOLEAN => transaction' \in BOOLEAN /\ enforced' \in BOOLEAN
<1>1. RequireDate \notin Marks /\ RequireDate.what \notin {"begin", "commit", "enforce"}
      /\ Record(3) \notin Marks /\ Record(3).what \notin {"begin", "commit", "enforce"}
  BY OthersAreNoMarks
<1>2. CASE driver = "sqlite"
  <2>1. /\ i \in {4, 8} => Head(todo) \notin Marks /\ Head(todo).what \notin {"begin", "commit", "enforce"}
        /\ i \in {1, 5, 9} => Head(todo) = Commit
        /\ i \in {3, 7} => Head(todo) = Begin
        /\ i = 2 => Head(todo) = Unenforce
        /\ i = 6 => Head(todo) = Enforce
        /\ i \in 1 .. 9 /\ Down4Ends = 10
    BY <1>1, <1>2, ScriptsByDriver, Down4SqliteStatements
  <2>2. Enforce # Unenforce
    BY DEF Enforce, Unenforce, Mig!Do
  <2> DEFINE t == transaction'
             e == enforced'
             s == Head(todo)
  <2>3. /\ s = Begin => t /\ (e <=> enforced)
        /\ s = Commit => ~t /\ (e <=> enforced)
        /\ s \in {Enforce, Unenforce} /\ ~transaction => ~t /\ (e <=> s = Enforce)
        /\ s \notin Marks /\ s.what \notin {"begin", "commit", "enforce"} => (t <=> transaction) /\ (e <=> enforced)
    BY MigStep
  <2>0. Head(todo) \in Marks \/ Head(todo).what \notin {"begin", "commit", "enforce"}
    BY <2>1 DEF Marks
  <2> HIDE DEF t, e, s
  <2>4. (t <=> i # Down4Ends - 1 /\ Down4Open(i + 1)) /\ (e <=> Down4Enforced(i + 1))
    BY <1>2, <2>1, <2>2, <2>3 DEF Down4Open, Down4Enforced, s
  <2>5. QED BY <2>0, <2>4, MigStep DEF t, e
<1>3. CASE driver # "sqlite"
  <2>1. i \in 1 .. 3 /\ Down4Ends = 4 /\ Down4 = Down4Other
    BY <1>3, ScriptsByDriver
  <2>2. i # 3 => Head(todo) \notin Marks /\ Head(todo).what \notin {"begin", "commit", "enforce"}
    BY <1>1, <2>1, Down4OtherStatements
  <2>3. i = 3 => Head(todo) = Commit
    BY <2>1, Down4OtherStatements
  <2>4. Down4Open(i) /\ Down4Open(i + 1) /\ Down4Enforced(i) /\ Down4Enforced(i + 1)
    BY <1>3 DEF Down4Open, Down4Enforced
  <2>5. Head(todo) \in Marks \/ Head(todo).what \notin {"begin", "commit", "enforce"}
    BY <2>1, <2>2, <2>3 DEF Marks
  <2>6. QED BY <2>1, <2>2, <2>3, <2>4, <2>5, MigStep
<1>4. QED BY <1>2, <1>3

LEMMA Down3Control ==
  ASSUME Mig!Step, NEW i \in 1 .. 5, Head(todo) = Down3[i], transaction, enforced
  PROVE  /\ transaction' <=> i # 5
         /\ enforced'
         /\ transaction \in BOOLEAN /\ enforced \in BOOLEAN => transaction' \in BOOLEAN /\ enforced' \in BOOLEAN
<1>1. i # 5 => Head(todo) \in {AddColumn, CopyBack, DropPrivate} \/ \E n : Head(todo) = Record(n)
  BY Down3Statements
<1>2. i # 5 => Head(todo) \notin Marks /\ Head(todo).what \notin {"begin", "commit", "enforce"}
  BY <1>1, OthersAreNoMarks
<1>3. i = 5 => Head(todo) = Commit
  BY Down3Statements
<1>4. Head(todo) \in Marks \/ Head(todo).what \notin {"begin", "commit", "enforce"}
  BY <1>2, <1>3 DEF Marks
<1>5. QED BY <1>2, <1>3, <1>4, MigStep

\* What a step that keeps to a script preserves of the invariant
LEMMA StepStores ==
  ASSUME MigInv, Mig!Step, db' \in Layouts, RowsAreWhole(db)', transaction' \in BOOLEAN, enforced' \in BOOLEAN,
         ~transaction' => KeepsPromise(db)', transaction' => (cut' <=> cut), MigRuns'
  PROVE  MigInv'
<1>1. /\ UNCHANGED <<driver, runs, migrated>> /\ (cut' <=> cut /\ todo' # <<>>)
      /\ committed' = IF transaction' THEN committed ELSE db'
  BY MigStep
<1>2. cut' \in BOOLEAN
  BY DEF Mig!Step
<1>3. MigTyped'
  BY <1>1, <1>2 DEF MigInv, MigTyped
<1>4. CASE transaction'
  <2>1. committed' = committed
    BY <1>1, <1>4
  <2>2. KeepsPromise(committed)' /\ RowsAreWhole(committed)'
    BY <1>1, <1>4, <2>1 DEF MigInv, KeepsPromise, RowsAreWhole
  <2>3. QED BY <1>3, <1>4, <2>1, <2>2 DEF MigInv
<1>5. CASE ~transaction'
  <2>1. committed' = db'
    BY <1>1, <1>5
  <2>2. KeepsPromise(committed)' /\ RowsAreWhole(committed)'
    BY <1>1, <1>5, <2>1 DEF KeepsPromise, RowsAreWhole
  <2>3. QED BY <1>3, <1>5, <2>1, <2>2 DEF MigInv
<1>6. QED BY <1>4, <1>5

LEMMA UpSteps ==
  ASSUME MigInv, Mig!Step, NEW i \in Nat, UpAt(i)
  PROVE  MigInv'
<1>1. /\ todo # <<>> /\ db' = Mig!Effect(db, Head(todo)) /\ todo' = Tail(todo) /\ driver' = driver /\ migrated' = migrated
      /\ (cut' <=> cut /\ todo' # <<>>)
  BY MigStep
<1>2. Head(todo) = Up[i] /\ Part(todo', Up, i + 1, Starts(4) + 1) /\ i \in 1 .. Starts(4)
  BY <1>1, NextOfPart DEF UpAt
<1>3. ~cut /\ ~cut'
  BY <1>1 DEF UpAt, UpData
<1>4. db' \in Layouts /\ RowsAreWhole(db)' /\ UpData(i + 1)'
  BY <1>1, <1>2, <1>3, UpDataStep DEF UpAt, MigInv, MigTyped
<1>5. (transaction' <=> i # Starts(4) /\ UpOpen(i + 1)) /\ (enforced' <=> UpEnforced(i + 1))
  BY <1>2, UpControl DEF UpAt
<1>6. transaction' \in BOOLEAN /\ enforced' \in BOOLEAN
  BY <1>2, UpControl DEF UpAt, MigInv, MigTyped
<1>7. ~transaction' => KeepsPromise(db)'
  <2>1. ~transaction' => i + 1 >= 10 /\ (i + 1 >= Starts(4) => i + 1 > UpDate)
    BY <1>2, <1>5, ScriptsByDriver DEF UpOpen
  <2>2. Starts(4)' = Starts(4) /\ UpDate' = UpDate /\ Starts(4) \in Nat
    BY <1>1, ScriptsStay, ScriptsByDriver
  <2>3. QED BY <1>2, <1>4, <2>1, <2>2 DEF UpData, KeepsPromise
<1>8. MigRuns'
  <2>1. Starts(4)' = Starts(4) /\ Up' = Up /\ Starts(4) \in Nat
    BY <1>1, ScriptsStay, ScriptsByDriver
  <2>2. CASE i = Starts(4)
    <3>1. todo' = <<>>
      <4>1. i + 1 = Starts(4) + 1 /\ Starts(4) + 1 \in Nat
        BY <2>1, <2>2
      <4>2. QED BY <1>2, <4>1, EndsOfParts
    <3>2. UpEnforced(i + 1)
      BY <2>2, ScriptsByDriver DEF UpEnforced
    <3>3. QED BY <1>5, <2>2, <3>1, <3>2 DEF MigRuns
  <2>3. CASE i # Starts(4)
    <3>1. i + 1 \in 1 .. Starts(4) /\ i + 1 \in Nat
      BY <1>2, <2>1, <2>3
    <3>2. UpOpen(i + 1)' <=> UpOpen(i + 1)
      BY <1>1 DEF UpOpen
    <3>3. UpEnforced(i + 1)' <=> UpEnforced(i + 1)
      BY <1>1 DEF UpEnforced
    <3>4. UpAt(i + 1)'
      BY <1>2, <1>4, <1>5, <2>1, <2>3, <3>1, <3>2, <3>3 DEF UpAt
    <3>5. QED BY <3>1, <3>4 DEF MigRuns
  <2>4. QED BY <2>2, <2>3
<1>9. QED BY <1>3, <1>4, <1>6, <1>7, <1>8, StepStores

LEMMA Down4Steps ==
  ASSUME MigInv, Mig!Step, NEW i \in Nat, Down4At(i)
  PROVE  MigInv'
<1>1. /\ todo # <<>> /\ db' = Mig!Effect(db, Head(todo)) /\ todo' = Tail(todo) /\ driver' = driver /\ migrated' = migrated
      /\ (cut' <=> cut /\ todo' # <<>>)
  BY MigStep
<1>2. Head(todo) = Down4[i] /\ Part(todo', Down4, i + 1, Down4Ends) /\ i \in 1 .. Down4Ends - 1
  BY <1>1, NextOfPart DEF Down4At
<1>3. db' \in Layouts /\ RowsAreWhole(db)' /\ Down4Data(i + 1)'
  BY <1>1, <1>2, Down4DataStep DEF Down4At, MigInv, MigTyped
<1>4. (transaction' <=> i # Down4Ends - 1 /\ Down4Open(i + 1)) /\ (enforced' <=> Down4Enforced(i + 1))
  BY <1>2, Down4Control DEF Down4At
<1>5. transaction' \in BOOLEAN /\ enforced' \in BOOLEAN
  BY <1>2, Down4Control DEF Down4At, MigInv, MigTyped
<1>6. Down4Ends' = Down4Ends /\ Down4' = Down4 /\ Down4Ends \in Nat
  BY <1>1, ScriptsStay, ScriptsByDriver
<1>7. todo' = <<>> <=> i + 1 = Down4Ends
  BY <1>2, <1>6, EndsOfParts
<1>8. KeepsPromise(db)'
  BY <1>1, <1>2, <1>3, <1>6, <1>7 DEF Down4Data, KeepsPromise, Down4At
<1>9. transaction' => (cut' <=> cut)
  BY <1>1, <1>2, <1>4, <1>6, <1>7
<1>10. MigRuns'
  <2>1. CASE i + 1 = Down4Ends
    <3>1. Down4Enforced(i + 1)
      BY <2>1, ScriptsByDriver DEF Down4Enforced
    <3>2. QED BY <1>2, <1>4, <1>6, <1>7, <2>1, <3>1 DEF MigRuns
  <2>2. CASE i + 1 # Down4Ends
    <3>1. i + 1 \in 1 .. Down4Ends - 1 /\ i + 1 \in Nat /\ i # Down4Ends - 1
      BY <1>2, <1>6, <2>2
    <3>2. Down4Open(i + 1)' <=> Down4Open(i + 1)
      BY <1>1 DEF Down4Open
    <3>3. Down4Enforced(i + 1)' <=> Down4Enforced(i + 1)
      BY <1>1 DEF Down4Enforced
    <3>4. cut'
      BY <1>1, <1>7, <2>2 DEF Down4At
    <3>5. Down4At(i + 1)'
      BY <1>2, <1>3, <1>4, <1>6, <3>1, <3>2, <3>3, <3>4 DEF Down4At
    <3>6. QED BY <3>1, <3>5 DEF MigRuns
  <2>3. QED BY <2>1, <2>2
<1>11. QED BY <1>3, <1>5, <1>8, <1>9, <1>10, StepStores

LEMMA Down3Steps ==
  ASSUME MigInv, Mig!Step, NEW i \in Nat, Down3At(i)
  PROVE  MigInv'
<1>1. /\ todo # <<>> /\ db' = Mig!Effect(db, Head(todo)) /\ todo' = Tail(todo) /\ driver' = driver /\ migrated' = migrated
      /\ (cut' <=> cut /\ todo' # <<>>)
  BY MigStep
<1>2. Head(todo) = Down3[i] /\ Part(todo', Down3, i + 1, 6) /\ i \in 1 .. 5
  BY <1>1, NextOfPart DEF Down3At
<1>3. db' \in Layouts /\ RowsAreWhole(db)' /\ Down3Data(i + 1)'
  BY <1>1, <1>2, Down3DataStep DEF Down3At, MigInv, MigTyped
<1>4. (transaction' <=> i # 5) /\ enforced'
  BY <1>2, Down3Control DEF Down3At
<1>5. transaction' \in BOOLEAN /\ enforced' \in BOOLEAN
  BY <1>2, Down3Control DEF Down3At, MigInv, MigTyped
<1>6. todo' = <<>> <=> i + 1 = 6
  <2> DEFINE k == 6
  <2>1. k \in Nat /\ Part(todo', Down3, i + 1, k)
    BY <1>2
  <2> HIDE DEF k
  <2>2. todo' = <<>> <=> i + 1 = k
    BY <2>1, EndsOfParts
  <2>3. QED BY <2>2 DEF k
<1>7. ~transaction' => KeepsPromise(db)'
  BY <1>1, <1>2, <1>3, <1>4 DEF Down3Data, KeepsPromise
<1>8. transaction' => (cut' <=> cut)
  BY <1>1, <1>2, <1>4, <1>6
<1>9. MigRuns'
  <2>1. CASE i = 5
    BY <1>4, <1>6, <2>1 DEF MigRuns
  <2>2. CASE i # 5
    <3>1. i + 1 \in 1 .. 5 /\ i + 1 \in Nat /\ cut'
      BY <1>1, <1>2, <1>6, <2>2 DEF Down3At
    <3>2. Down3At(i + 1)'
      BY <1>2, <1>3, <1>4, <2>2, <3>1 DEF Down3At
    <3>3. QED BY <3>1, <3>2 DEF MigRuns
  <2>3. QED BY <2>1, <2>2
<1>10. QED BY <1>3, <1>5, <1>7, <1>8, <1>9, StepStores

LEMMA BeginsWith ==
  ASSUME NEW S, NEW b, NEW c, NEW p \in Seq(S)
  PROVE  LET q == << b >> \o p \o << c >> IN q # <<>> /\ Head(q) = b /\ Tail(q) = p \o << c >>
<1> DEFINE T == S \cup {b, c}
           one == << b >>
           last == << c >>
           q == one \o p \o last
           r == p \o last
<1>1. one \in Seq(T) /\ Len(one) = 1 /\ one[1] = b /\ last \in Seq(T) /\ Len(last) = 1
  OBVIOUS
<1>2. p \in Seq(T)
  OBVIOUS
<1> HIDE DEF T, one, last
<1>3. ASSUME NEW u \in Seq(T), NEW v \in Seq(T)
      PROVE  /\ u \o v \in Seq(T) /\ Len(u \o v) = Len(u) + Len(v) /\ Len(u) \in Nat /\ Len(v) \in Nat
             /\ \A i \in 1 .. Len(u) + Len(v) : (u \o v)[i] = IF i <= Len(u) THEN u[i] ELSE v[i - Len(u)]
  OBVIOUS
<1> DEFINE head == one \o p
<1>4. /\ r \in Seq(T) /\ Len(r) = Len(p) + 1 /\ Len(p) \in Nat
      /\ \A i \in 1 .. Len(p) + 1 : r[i] = IF i <= Len(p) THEN p[i] ELSE last[i - Len(p)]
  BY <1>1, <1>2, <1>3, SMTT(40)
<1>5. /\ head \in Seq(T) /\ Len(head) = 1 + Len(p)
      /\ \A i \in 1 .. 1 + Len(p) : head[i] = IF i <= 1 THEN one[i] ELSE p[i - 1]
  <2>1. /\ head \in Seq(T) /\ Len(head) = Len(one) + Len(p)
        /\ \A i \in 1 .. Len(one) + Len(p) : head[i] = IF i <= Len(one) THEN one[i] ELSE p[i - Len(one)]
    BY <1>1, <1>2, <1>3
  <2> HIDE DEF head
  <2>2. QED BY <1>1, <2>1
<1>6. /\ q \in Seq(T) /\ Len(q) = 1 + Len(p) + 1
      /\ \A i \in 1 .. 1 + Len(p) + 1 : q[i] = IF i <= 1 + Len(p) THEN head[i] ELSE last[i - (1 + Len(p))]
  <2> HIDE DEF head
  <2>1. QED BY <1>1, <1>3, <1>5 DEF head
<1> HIDE DEF q, r, head
<1>7. q[1] = b /\ \A i \in 2 .. Len(p) + 2 : q[i] = IF i - 1 <= Len(p) THEN p[i - 1] ELSE last[i - 1 - Len(p)]
  <2>1. q[1] = b
    BY <1>1, <1>4, <1>5, <1>6
  <2>2. ASSUME NEW i \in 2 .. Len(p) + 2 PROVE q[i] = IF i - 1 <= Len(p) THEN p[i - 1] ELSE last[i - 1 - Len(p)]
    <3>1. CASE i <= 1 + Len(p)
      BY <1>4, <1>5, <1>6, <3>1
    <3>2. CASE i > 1 + Len(p)
      <4>1. q[i] = last[i - (1 + Len(p))] /\ i - (1 + Len(p)) = i - 1 - Len(p)
        BY <1>4, <1>6, <3>2
      <4>2. QED BY <4>1, <1>4, <3>2
    <3>3. QED BY <1>4, <3>1, <3>2
  <2>3. QED BY <2>1, <2>2
<1>8. q # <<>> /\ Head(q) = b /\ Tail(q) \in Seq(T) /\ Len(Tail(q)) = Len(p) + 1 /\ \A i \in 1 .. Len(p) + 1 : Tail(q)[i] = q[i + 1]
  BY <1>4, <1>6, <1>7
<1>9. ASSUME NEW i \in 1 .. Len(p) + 1 PROVE Tail(q)[i] = r[i]
  <2> DEFINE j == i + 1
  <2>1. j \in 2 .. Len(p) + 2 /\ j - 1 = i
    BY <1>4
  <2>2. Tail(q)[i] = q[j]
    BY <1>8
  <2> HIDE DEF j
  <2>3. QED BY <2>1, <2>2, <1>4, <1>7
<1>10. Tail(q) = r
  <2> DEFINE t == Tail(q)
             n == Len(p) + 1
  <2>1. t \in Seq(T) /\ r \in Seq(T) /\ Len(t) = n /\ Len(r) = n /\ \A i \in 1 .. n : t[i] = r[i]
    BY <1>4, <1>8, <1>9
  <2> HIDE DEF t, n
  <2>2. t = r
    BY <2>1
  <2>3. QED BY <2>2 DEF t
<1>11. QED BY <1>8, <1>10 DEF q, r, one, last

LEMMA BeginSteps ==
  ASSUME MigInv, Mig!Step, Begins
  PROVE  MigInv'
<1>1. /\ db' = db /\ todo' = Tail(todo) /\ driver' = driver /\ migrated' = migrated /\ transaction' /\ (enforced' <=> enforced)
      /\ (cut' <=> cut /\ todo' # <<>>)
      /\ transaction' \in BOOLEAN /\ enforced' \in BOOLEAN
  BY MigStep DEF Begins, MigInv, MigTyped, Marks
<1>2. db' \in Layouts /\ RowsAreWhole(db)'
  BY <1>1 DEF MigInv, MigTyped, RowsAreWhole
<1>3. /\ Starts(4)' = Starts(4) /\ Up' = Up /\ Down4' = Down4 /\ Down4Ends' = Down4Ends /\ UpDate' = UpDate
      /\ Starts(4) \in {12, 18} /\ Down4Ends \in {4, 10}
  BY <1>1, ScriptsStay, ScriptsByDriver
<1>4. CASE \E r \in 0 .. 3 : Part(Tail(todo), Up, Starts(r), Starts(4) + 1) /\ UpData(Starts(r))
  <2>1. PICK r \in 0 .. 3 : Part(Tail(todo), Up, Starts(r), Starts(4) + 1) /\ UpData(Starts(r))
    BY <1>4
  <2>2. Starts(r) \in {1, 3, 6, 10}
    <3>1. r = 0 \/ r = 1 \/ r = 2 \/ r = 3
      OBVIOUS
    <3>2. QED BY <3>1, ScriptsByDriver
  <2>3. PICK i \in {1, 3, 6, 10} : i = Starts(r)
    BY <2>2
  <2>4. i \in Nat /\ i \in 1 .. Starts(4)
    BY <1>3
  <2>5. Part(todo', Up, i, Starts(4) + 1) /\ UpData(i)
    BY <1>1, <2>1, <2>3
  <2>6. UpOpen(i)' /\ UpEnforced(i)'
    BY <1>1 DEF UpOpen, UpEnforced
  <2>7. todo' # <<>>
    <3> DEFINE k == Starts(4) + 1
    <3>1. k \in Nat /\ i # k
      BY <1>3
    <3>2. Part(todo', Up, i, k)
      BY <2>5
    <3> HIDE DEF k
    <3>3. QED BY <2>4, <3>1, <3>2, EndsOfParts
  <2>8. cut' <=> cut
    BY <1>1, <2>7
  <2>9. UpData(i)'
    BY <1>1, <1>3, <2>5, <2>8 DEF UpData
  <2>10. UpAt(i)'
    BY <1>1, <1>3, <2>4, <2>5, <2>6, <2>9 DEF UpAt, Begins
  <2>11. MigRuns'
    BY <2>4, <2>10 DEF MigRuns
  <2>12. QED BY <1>1, <1>2, <2>8, <2>11, StepStores
<1>5. CASE Part(Tail(todo), Down4, 1, Down4Ends) /\ Down4Data(1) /\ cut
  <2> DEFINE i == 1
  <2>1. i \in Nat /\ i \in 1 .. Down4Ends - 1 /\ i # Down4Ends /\ Down4Ends \in Nat
    BY <1>3
  <2>2. Part(todo', Down4, i, Down4Ends) /\ Down4Data(i) /\ cut
    BY <1>1, <1>5
  <2>3. Down4Open(i)' /\ Down4Enforced(i)'
    BY <1>1 DEF Down4Open, Down4Enforced
  <2> HIDE DEF i
  <2>4. todo' # <<>>
    BY <2>1, <2>2, EndsOfParts
  <2>5. cut'
    BY <1>1, <2>2, <2>4
  <2>6. Down4Data(i)'
    BY <1>1, <1>3, <2>2 DEF Down4Data
  <2>7. Down4At(i)'
    BY <1>1, <1>3, <2>1, <2>2, <2>3, <2>5, <2>6 DEF Down4At, Begins
  <2>8. MigRuns'
    BY <2>1, <2>7 DEF MigRuns
  <2>9. QED BY <1>1, <1>2, <2>2, <2>5, <2>8, StepStores
<1>6. CASE Part(Tail(todo), Down3, 1, 6) /\ Down3Data(1) /\ cut
  <2> DEFINE i == 1
             k == 6
  <2>1. i \in Nat /\ i \in 1 .. 5 /\ i # k /\ k \in Nat /\ k = 6
    OBVIOUS
  <2>2. Part(todo', Down3, i, k) /\ Down3Data(i) /\ cut
    BY <1>1, <1>6
  <2> HIDE DEF i, k
  <2>3. todo' # <<>>
    BY <2>1, <2>2, EndsOfParts
  <2>4. cut'
    BY <1>1, <2>2, <2>3
  <2>5. Down3Data(i)'
    BY <1>1, <2>2 DEF Down3Data
  <2>6. Down3At(i)'
    BY <1>1, <2>1, <2>2, <2>4, <2>5 DEF Down3At, Begins
  <2>7. MigRuns'
    BY <2>1, <2>6 DEF MigRuns
  <2>8. QED BY <1>1, <1>2, <2>2, <2>4, <2>7, StepStores
<1>7. QED BY <1>4, <1>5, <1>6 DEF Begins

LEMMA StartBegins ==
  ASSUME NEW S, NEW statements \in Seq(S), Mig!Start(statements)
  PROVE  /\ todo' # <<>> /\ Head(todo') = Begin /\ Tail(todo') = statements \o << Commit >>
         /\ todo = <<>> /\ runs < MaxRuns /\ runs' = runs + 1
         /\ UNCHANGED <<driver, db, committed, transaction, enforced, migrated>>
<1>1. /\ todo = <<>> /\ runs < MaxRuns /\ runs' = runs + 1 /\ UNCHANGED <<driver, db, committed, transaction, enforced, migrated>>
      /\ todo' = << Begin >> \o statements \o << Commit >>
  BY DEF Mig!Start, Begin, Commit
<1>2. LET q == << Begin >> \o statements \o << Commit >> IN q # <<>> /\ Head(q) = Begin /\ Tail(q) = statements \o << Commit >>
  BY BeginsWith
<1>3. QED BY <1>1, <1>2

\* Between scripts, what was committed is what there is.
LEMMA NothingRuns ==
  ASSUME MigInv, todo = <<>>
  PROVE  ~transaction /\ enforced /\ committed = db
<1>1. \A i \in Nat : ~UpAt(i) /\ ~Down4At(i) /\ ~Down3At(i)
  <2> SUFFICES ASSUME NEW i \in Nat PROVE ~UpAt(i) /\ ~Down4At(i) /\ ~Down3At(i)
    OBVIOUS
  <2>1. Starts(4) + 1 \in Nat /\ Down4Ends \in Nat /\ Starts(4) \in Nat
    BY ScriptsByDriver
  <2>2. ~UpAt(i)
    <3> DEFINE k == Starts(4) + 1
    <3>1. UpAt(i) => Part(todo, Up, i, k) /\ i # k
      BY <2>1 DEF UpAt
    <3> HIDE DEF k
    <3>2. QED BY <2>1, <3>1, EndsOfParts DEF k
  <2>3. ~Down4At(i)
    BY <2>1, EndsOfParts DEF Down4At
  <2>4. ~Down3At(i)
    <3> DEFINE k == 6
    <3>1. Down3At(i) => Part(todo, Down3, i, k) /\ i # k /\ k \in Nat
      BY DEF Down3At
    <3> HIDE DEF k
    <3>2. QED BY <3>1, EndsOfParts
  <2>5. QED BY <2>2, <2>3, <2>4
<1>2. QED BY <1>1 DEF MigInv, MigRuns, Begins

LEMMA StartStores ==
  ASSUME Mig!MigrationsAssumption, MigInv, todo = <<>>, runs < MaxRuns, runs' = runs + 1, cut' \in BOOLEAN,
         UNCHANGED <<driver, db, committed, transaction, enforced, migrated>>, db.recorded = 4 => cut', MigRuns'
  PROVE  MigInv'
<1>1. runs' \in 0 .. MaxRuns
  BY DEF MigInv, MigTyped, Mig!MigrationsAssumption
<1>2. MigTyped'
  BY <1>1 DEF MigInv, MigTyped
<1>3. ~transaction /\ committed = db
  BY NothingRuns
<1>4. RowsAreWhole(db)' /\ RowsAreWhole(committed)'
  BY <1>3 DEF MigInv, RowsAreWhole
<1>5. KeepsPromise(committed)'
  BY <1>3 DEF MigInv, KeepsPromise
<1>6. QED BY <1>2, <1>3, <1>4, <1>5 DEF MigInv

LEMMA MigrateBegins ==
  ASSUME Mig!MigrationsAssumption, MigInv, Mig!Migrate
  PROVE  MigInv'
<1> DEFINE r == db.recorded
<1>1. r \in 0 .. 3 /\ Mig!Start(Mig!Pending(r)) /\ cut' = FALSE
  <2>1. db.recorded \in 0 .. 4
    BY DEF MigInv, MigTyped, Layouts
  <2>2. db.recorded < 4 /\ Mig!Start(Mig!Pending(r)) /\ cut' = FALSE
    BY DEF Mig!Migrate
  <2>3. QED BY <2>1, <2>2
<1>2. Part(Mig!Pending(r) \o << Commit >>, Up, Starts(r), Starts(4) + 1) /\ Mig!Pending(r) \in Seq(Statements(Up))
  BY <1>1, PendingInScript
<1>3. /\ todo' # <<>> /\ Head(todo') = Begin /\ Tail(todo') = Mig!Pending(r) \o << Commit >>
      /\ todo = <<>> /\ runs < MaxRuns /\ runs' = runs + 1
      /\ UNCHANGED <<driver, db, committed, transaction, enforced, migrated>>
  BY <1>1, <1>2, StartBegins
<1>4. ~transaction /\ enforced /\ committed = db
  BY <1>3, NothingRuns
<1>5. PICK q \in 0 .. 3 : q = r
  BY <1>1
<1>6. UpData(Starts(q))'
  <2>1. /\ (r >= 3 => migrated \subseteq db.private) /\ (r <= 2 => migrated \subseteq db.inColumn)
        /\ (r >= 2 => OfKey \in db.optional /\ OfService \in db.optional)
    BY <1>1, <1>4 DEF MigInv, KeepsPromise
  <2>2. q = 0 \/ q = 1 \/ q = 2 \/ q = 3
    OBVIOUS
  <2>3. /\ Starts(4)' \in {12, 18} /\ UpDate' \in {10, 13} /\ (q = 0 => Starts(q)' = 1) /\ (q = 1 => Starts(q)' = 3)
        /\ (q = 2 => Starts(q)' = 6) /\ (q = 3 => Starts(q)' = 10)
    BY <1>3, ScriptsStay, ScriptsByDriver
  <2>4. QED BY <1>1, <1>3, <1>5, <2>1, <2>2, <2>3 DEF UpData
<1>7. Begins'
  <2>1. Starts(4)' = Starts(4) /\ Up' = Up /\ Starts(q)' = Starts(q)
    BY <1>3, ScriptsStay
  <2>2. Part(Tail(todo), Up, Starts(q), Starts(4) + 1)'
    BY <1>2, <1>3, <1>5, <2>1
  <2>3. QED BY <1>3, <1>4, <1>6, <2>2 DEF Begins
<1>8. MigRuns'
  BY <1>7 DEF MigRuns
<1>9. cut' \in BOOLEAN /\ (db.recorded = 4 => cut')
  <2>1. r # 4
    BY <1>1
  <2>2. cut' \in BOOLEAN
    BY <1>1, Zenon
  <2>3. QED BY <2>1, <2>2
<1>10. /\ runs < MaxRuns /\ runs' = runs + 1 /\ todo = <<>>
       /\ UNCHANGED <<driver, db, committed, transaction, enforced, migrated>>
  BY <1>3
<1>11. QED BY <1>8, <1>9, <1>10, StartStores

LEMMA RevertBegins ==
  ASSUME Mig!MigrationsAssumption, MigInv, Mig!Revert
  PROVE  MigInv'
<1>1. db.recorded \in {3, 4} /\ Mig!Start(Mig!Down(db.recorded) \o << Record(db.recorded - 1) >>) /\ cut' = TRUE
  BY DEF Mig!Revert, Record
<1>2. CASE db.recorded = 4
  <2> DEFINE statements == Mig!Down(4) \o << Record(3) >>
  <2>1. Mig!Start(statements)
    <3>1. 4 - 1 = 3
      OBVIOUS
    <3>2. QED BY <1>1, <1>2, <3>1
  <2>2. Part(statements \o << Commit >>, Down4, 1, Down4Ends) /\ statements \in Seq(Statements(Down4))
    BY DownInScript
  <2> HIDE DEF statements
  <2>3. /\ todo' # <<>> /\ Head(todo') = Begin /\ Tail(todo') = statements \o << Commit >>
        /\ todo = <<>> /\ runs < MaxRuns /\ runs' = runs + 1
        /\ UNCHANGED <<driver, db, committed, transaction, enforced, migrated>>
    BY <2>1, <2>2, StartBegins
  <2>4. ~transaction /\ enforced /\ committed = db
    BY <2>3, NothingRuns
  <2>5. Down4Ends' = Down4Ends /\ Down4' = Down4 /\ Down4Ends \in {4, 10}
    BY <2>3, ScriptsStay, ScriptsByDriver
  <2>6. Down4Data(1)'
    BY <1>2, <2>3, <2>4, <2>5 DEF MigInv, KeepsPromise, Down4Data
  <2>7. Part(Tail(todo), Down4, 1, Down4Ends)'
    BY <2>2, <2>3, <2>5
  <2>8. MigRuns'
    BY <1>1, <2>3, <2>4, <2>6, <2>7 DEF MigRuns, Begins
  <2>9. QED BY <1>1, <2>3, <2>8, StartStores
<1>3. CASE db.recorded = 3
  <2> DEFINE statements == Mig!Down(3) \o << Record(2) >>
  <2>1. Mig!Start(statements)
    <3>1. 3 - 1 = 2
      OBVIOUS
    <3>2. QED BY <1>1, <1>3, <3>1
  <2>2. Part(statements \o << Commit >>, Down3, 1, 6) /\ statements \in Seq(Statements(Down3))
    BY DownInScript
  <2> HIDE DEF statements
  <2>3. /\ todo' # <<>> /\ Head(todo') = Begin /\ Tail(todo') = statements \o << Commit >>
        /\ todo = <<>> /\ runs < MaxRuns /\ runs' = runs + 1
        /\ UNCHANGED <<driver, db, committed, transaction, enforced, migrated>>
    BY <2>1, <2>2, StartBegins
  <2>4. ~transaction /\ enforced /\ committed = db
    BY <2>3, NothingRuns
  <2>5. Down3Data(1)'
    BY <1>3, <2>3, <2>4 DEF MigInv, KeepsPromise, Down3Data
  <2>6. Part(Tail(todo), Down3, 1, 6)'
    BY <2>2, <2>3
  <2>7. MigRuns'
    BY <1>1, <2>3, <2>4, <2>5, <2>6 DEF MigRuns, Begins
  <2>8. QED BY <1>1, <2>3, <2>7, StartStores
<1>4. QED BY <1>1, <1>2, <1>3

LEMMA CrashStops ==
  ASSUME MigInv, Mig!Crash
  PROVE  MigInv'
<1>1. db' = committed /\ transaction' = FALSE /\ enforced' = TRUE /\ todo' = <<>> /\ UNCHANGED <<driver, committed, runs, cut, migrated>>
  BY DEF Mig!Crash
<1>2. MigTyped'
  BY <1>1 DEF MigInv, MigTyped
<1>3. RowsAreWhole(db)' /\ RowsAreWhole(committed)' /\ KeepsPromise(committed)' /\ MigRuns'
  BY <1>1 DEF MigInv, RowsAreWhole, KeepsPromise, MigRuns
<1>4. QED BY <1>1, <1>2, <1>3 DEF MigInv

\* What is joined to a presentation is in tables.
LEMMA JoinedInTables ==
  ASSUME NEW p \in TablePresentations
  PROVE  Mig!JoinedTo(p) \subseteq Mig!Tables \X TablePresentations
<1>1. \A f \in Mig!ForeignKeys : f.table \in Mig!Tables
  BY Zenon DEF Mig!Tables
<1>2. QED BY <1>1 DEF Mig!JoinedTo

LEMMA Saves ==
  ASSUME MigInv, todo = <<>>, db' \in Layouts, committed' = db', migrated' \subseteq TableKeys, RowsAreWhole(db)', KeepsPromise(db)',
         UNCHANGED <<driver, transaction, enforced, todo, runs, cut>>
  PROVE  MigInv'
<1>1. ~transaction /\ enforced
  BY NothingRuns
<1>2. MigTyped'
  BY DEF MigInv, MigTyped
<1>3. RowsAreWhole(committed)' /\ KeepsPromise(committed)'
  BY DEF RowsAreWhole, KeepsPromise
<1>4. QED BY <1>1, <1>2, <1>3 DEF MigInv, MigRuns

LEMMA KeySaved ==
  ASSUME MigInv, NEW k \in TableKeys, NEW private \in BOOLEAN, Mig!SaveKey(k, private)
  PROVE  MigInv'
<1> DEFINE keys == db.keys \cup {k}
           privates == IF private THEN db.private \cup {k} ELSE db.private
<1>1. /\ todo = <<>> /\ db.recorded = 4 /\ db' = [db EXCEPT !.keys = keys, !.private = privates] /\ committed' = db'
      /\ migrated' = IF private THEN migrated \cup {k} ELSE migrated
      /\ UNCHANGED <<driver, transaction, enforced, todo, runs, cut>>
  BY DEF Mig!SaveKey
<1>2. db \in Layouts /\ migrated \subseteq TableKeys
  BY DEF MigInv, MigTyped
<1>3. keys \in SUBSET TableKeys /\ privates \in SUBSET TableKeys
  BY <1>2 DEF Layouts
<1>4. migrated' \subseteq keys /\ migrated' \subseteq privates /\ migrated' \subseteq TableKeys
  BY <1>1, <1>2, NothingRuns DEF MigInv, RowsAreWhole, KeepsPromise
<1>5. db.keys \subseteq keys
  OBVIOUS
<1> HIDE DEF keys, privates
<1>6. /\ db' \in Layouts /\ db'.keys = keys /\ db'.private = privates /\ db'.inColumn = db.inColumn /\ db'.undated = db.undated
      /\ db'.presentations = db.presentations /\ db'.joined = db.joined /\ db'.recorded = db.recorded /\ db'.optional = db.optional
  BY <1>1, <1>2, <1>3 DEF Layouts
<1>7. RowsAreWhole(db)'
  BY <1>4, <1>5, <1>6 DEF MigInv, RowsAreWhole
<1>8. KeepsPromise(db)'
  BY <1>1, <1>4, <1>6, NothingRuns DEF MigInv, KeepsPromise
<1>9. QED BY <1>1, <1>4, <1>6, <1>7, <1>8, Saves

LEMMA PresentationSaved ==
  ASSUME MigInv, NEW p \in TablePresentations, NEW dated \in BOOLEAN, Mig!SavePresentation(p, dated)
  PROVE  MigInv'
<1> DEFINE presentations == db.presentations \cup {p}
           joined == db.joined \cup Mig!JoinedTo(p)
           undated == IF dated THEN db.undated ELSE db.undated \cup {p}
<1>1. /\ todo = <<>> /\ db' = [db EXCEPT !.presentations = presentations, !.joined = joined, !.undated = undated] /\ committed' = db'
      /\ UNCHANGED <<driver, transaction, enforced, todo, runs, cut, migrated>>
  BY DEF Mig!SavePresentation
<1>2. db \in Layouts /\ migrated \subseteq TableKeys
  BY DEF MigInv, MigTyped
<1>3. presentations \in SUBSET TablePresentations /\ joined \in SUBSET (Mig!Tables \X TablePresentations) /\ undated \in SUBSET TablePresentations
  BY <1>2, JoinedInTables DEF Layouts
<1>4. undated \subseteq presentations /\ \A q \in presentations : Mig!JoinedTo(q) \subseteq joined
  BY DEF MigInv, RowsAreWhole
<1> HIDE DEF presentations, joined, undated
<1>5. /\ db' \in Layouts /\ db'.keys = db.keys /\ db'.private = db.private /\ db'.inColumn = db.inColumn /\ db'.undated = undated
      /\ db'.presentations = presentations /\ db'.joined = joined /\ db'.recorded = db.recorded /\ db'.optional = db.optional
  BY <1>1, <1>2, <1>3 DEF Layouts
<1>6. RowsAreWhole(db)'
  BY <1>1, <1>4, <1>5 DEF MigInv, RowsAreWhole
<1>7. KeepsPromise(db)'
  BY <1>1, <1>5, NothingRuns DEF MigInv, KeepsPromise
<1>8. QED BY <1>1, <1>2, <1>5, <1>6, <1>7, Saves

LEMMA MigBegins ==
  ASSUME Mig!MigrationsAssumption, Mig!Init
  PROVE  MigInv
<1>1. Mig!Empty \in Layouts /\ Mig!Empty.keys = {} /\ Mig!Empty.inColumn = {} /\ Mig!Empty.undated = {}
      /\ Mig!Empty.presentations = {} /\ Mig!Empty.recorded = 0
  BY DEF Mig!Empty, Layouts
<1>2. ASSUME NEW k \in TableKeys, NEW p \in TablePresentations
      PROVE  LET d == Mig!Veramo2(k, p) IN
             d \in Layouts /\ d.keys = {k} /\ d.inColumn = {k} /\ d.undated = {} /\ d.presentations = {p} /\ d.recorded = 0 /\ d.joined = Mig!JoinedTo(p)
  <2> DEFINE tables == Mig!Tables
             joined == Mig!JoinedTo(p)
             empty == Mig!Empty
             d == [empty EXCEPT !.tables = tables, !.column = TRUE, !.keys = {k}, !.inColumn = {k},
                                !.presentations = {p}, !.joined = joined]
  <2>1. tables \in SUBSET (Mig!Tables \cup {"private-key"}) /\ joined \in SUBSET (Mig!Tables \X TablePresentations)
    BY JoinedInTables
  <2>2. Mig!Veramo2(k, p) = d
    BY DEF Mig!Veramo2
  <2>3. empty \in Layouts /\ empty.undated = {} /\ empty.recorded = 0
    BY <1>1
  <2> HIDE DEF tables, joined, empty
  <2>4. d \in Layouts /\ d.keys = {k} /\ d.inColumn = {k} /\ d.undated = {} /\ d.presentations = {p} /\ d.recorded = 0 /\ d.joined = joined
    BY <2>1, <2>3 DEF Layouts
  <2>5. QED BY <2>2, <2>4 DEF joined
<1>3. /\ driver \in {"sqlite", "postgres"} /\ committed = db /\ transaction = FALSE /\ enforced = TRUE /\ todo = <<>> /\ runs = 0 /\ cut = FALSE
      /\ (db = Mig!Empty /\ migrated = {}) \/ \E k \in TableKeys, p \in TablePresentations : db = Mig!Veramo2(k, p) /\ migrated = {k}
  BY DEF Mig!Init
<1>4. db \in Layouts /\ migrated \subseteq TableKeys /\ RowsAreWhole(db) /\ KeepsPromise(db)
  <2>1. CASE db = Mig!Empty /\ migrated = {}
    BY <1>1, <2>1 DEF RowsAreWhole, KeepsPromise
  <2>2. CASE \E k \in TableKeys, p \in TablePresentations : db = Mig!Veramo2(k, p) /\ migrated = {k}
    BY <1>2, <2>2 DEF RowsAreWhole, KeepsPromise
  <2>3. QED BY <1>3, <2>1, <2>2
<1>5. MigTyped
  <2>1. runs \in 0 .. MaxRuns
    BY <1>3 DEF Mig!MigrationsAssumption
  <2>2. transaction \in BOOLEAN /\ enforced \in BOOLEAN /\ cut \in BOOLEAN
    BY <1>3, Zenon
  <2>3. committed \in Layouts
    BY <1>3, <1>4, Zenon
  <2>4. driver \in {"sqlite", "postgres"}
    BY <1>3, Zenon
  <2>5. QED BY <1>4, <2>1, <2>2, <2>3, <2>4 DEF MigTyped
<1>6. QED BY <1>3, <1>4, <1>5 DEF MigInv, MigRuns

LEMMA MigInductive ==
  ASSUME Mig!MigrationsAssumption, MigInv, [Mig!Next]_(Mig!vars)
  PROVE  MigInv'
<1>1. CASE Mig!Step
  BY <1>1, BeginSteps, UpSteps, Down4Steps, Down3Steps, MigStep DEF MigInv, MigRuns
<1>2. CASE UNCHANGED Mig!vars
  <2>1. UNCHANGED <<driver, db, committed, transaction, enforced, todo, runs, cut, migrated>>
    BY <1>2 DEF Mig!vars
  <2>2. MigTyped' /\ RowsAreWhole(db)' /\ RowsAreWhole(committed)' /\ KeepsPromise(committed)'
    BY <2>1 DEF MigInv, MigTyped, RowsAreWhole, KeepsPromise
  <2>3. /\ Starts(4)' = Starts(4) /\ Up' = Up /\ Down4' = Down4 /\ Down4Ends' = Down4Ends /\ UpDate' = UpDate
        /\ \A r \in 0 .. 3 : Starts(r)' = Starts(r)
    BY <2>1, ScriptsStay
  <2>4. \A i : UpData(i)' = UpData(i) /\ Down4Data(i)' = Down4Data(i) /\ Down3Data(i)' = Down3Data(i)
    BY <2>1, <2>3 DEF UpData, Down4Data, Down3Data
  <2>5. \A i : (UpAt(i)' <=> UpAt(i)) /\ (Down4At(i)' <=> Down4At(i)) /\ (Down3At(i)' <=> Down3At(i))
    BY <2>1, <2>3, <2>4 DEF UpAt, Down4At, Down3At, UpOpen, UpEnforced, Down4Open, Down4Enforced
  <2>6. Begins' <=> Begins
    BY <2>1, <2>3, <2>4 DEF Begins
  <2>7. QED BY <2>1, <2>2, <2>5, <2>6 DEF MigInv, MigRuns
<1>3. QED BY <1>1, <1>2, MigrateBegins, RevertBegins, CrashStops, KeySaved, PresentationSaved DEF Mig!Next

(* The database, its last commit, the statements left of a script and the flags of
   the transaction stay of their type, for any keys, presentations and runs. *)
THEOREM MigrationsTypeCorrect ==
  ASSUME Mig!MigrationsAssumption
  PROVE  Mig!Spec => []Mig!TypeOK
<1>1. MigInv => Mig!TypeOK
  BY DEF MigInv, MigTyped, Layouts, Optionals, RowsAreWhole, Mig!TypeOK, OfKey, OfService, Mig!IssuanceDate, Mig!Change
<1>2. QED BY <1>1, MigBegins, MigInductive, PTL DEF Mig!Spec

(* A key that the agent migrated in Veramo 2's layout keeps its private key, in the
   column or in the table that the recorded version reads, whichever statement of
   whichever migration a run is cut at and however often it is started again
   (CreatePrivateKeyStorage and its revert). *)
THEOREM MigrationsKeepKeys ==
  ASSUME Mig!MigrationsAssumption
  PROVE  Mig!Spec => []Mig!PrivateKeysMove
<1>1. MigInv => Mig!PrivateKeysMove
  BY DEF MigInv, KeepsPromise, Mig!PrivateKeysMove
<1>2. QED BY <1>1, MigBegins, MigInductive, PTL DEF Mig!Spec

(* No migration takes rows out of the tables that join others to presentations, which
   SQLite would do if it still enforced references, and the recorded version 4 has a
   database that takes every record of the entities (AllowNullIssuanceDate). *)
THEOREM MigrationsKeepRows ==
  ASSUME Mig!MigrationsAssumption
  PROVE  Mig!Spec => [](Mig!JoinedRowsStay /\ Mig!UpToDateTakesAll)
<1>1. MigInv => Mig!JoinedRowsStay
  BY DEF MigInv, RowsAreWhole, Mig!JoinedRowsStay
<1>2. MigInv => Mig!UpToDateTakesAll
  <2>1. SUFFICES ASSUME MigInv, todo = <<>>, db.recorded = 4, ~cut
                 PROVE  {Mig!IssuanceDate, OfKey, OfService} \subseteq db.optional
    BY DEF Mig!UpToDateTakesAll, OfKey, OfService
  <2>2. QED BY <2>1, NothingRuns DEF MigInv, KeepsPromise
<1>3. QED BY <1>1, <1>2, MigBegins, MigInductive, PTL DEF Mig!Spec

------------------------------------------------------------------------------
(* The rows of the SQL stores, column by column                            *)

Texts == PartValues \cup {Rec!Unset}

\* A part of a message is in its column, but for a date that was overwritten.
MessageKept ==
    /\ messageRow \in [Rec!Parts -> Texts] /\ sent \in [Rec!Parts -> Texts]
    /\ \A part \in Rec!Parts \ {"createdAt", "expiresAt"} : messageRow[part] = sent[part]
    /\ sent["expiresAt"] = Rec!Unset => messageRow["createdAt"] = sent["createdAt"]
    /\ messageRow["expiresAt"] = Rec!Unset

\* The one row that a credential has.
RowOf(c) == [of |-> c, hash |-> Rec!ComputeEntryHash(c, "object"), issuer |-> RowCredentials[c].issuer]

CredentialsKept ==
    /\ \A r \in credentialRows : \E c \in DOMAIN RowCredentials : r = RowOf(c)
    /\ holderOf \subseteq credentialRows

IdentifierShape(i) ==
    /\ i = [alias |-> i.alias, keys |-> i.keys, services |-> i.services]
    /\ i.alias \in GivenAliases \cup {Rec!Unset}

IdentifierKept ==
    /\ IdentifierShape(identifierRow) /\ IdentifierShape(latest)
    /\ \A s \in latest.services : s.is \in {"text", "object", "quoted"} /\ s = [is |-> s.is, of |-> s.of]
    /\ identifierRow.alias = latest.alias
    /\ Rec!IdentifiersAreReadBack

RecInv == MessageKept /\ CredentialsKept /\ IdentifierKept

LEMMA RowHashes ==
  ASSUME NEW c, NEW form
  PROVE  Rec!ComputeEntryHash(c, form) = RowOf(c).hash /\ RowOf(c).of = c /\ RowOf(c).issuer = RowCredentials[c].issuer
BY DEF RowOf, Rec!ComputeEntryHash

LEMMA RowsApart ==
  ASSUME NEW c, NEW d, RowOf(c).hash = RowOf(d).hash
  PROVE  RowOf(c) = RowOf(d)
<1>1. RowOf(c).hash \in {<<"jwt", c>>, <<"json", c>>} /\ RowOf(d).hash \in {<<"jwt", d>>, <<"json", d>>}
  BY DEF RowOf, Rec!ComputeEntryHash
<1>2. c = d
  BY <1>1
<1>3. QED BY <1>2

LEMMA EntityIsRow ==
  ASSUME Rec!RecordsAssumption, NEW c \in DOMAIN RowCredentials, NEW form
  PROVE  Rec!CreateCredentialEntity(c, form) = RowOf(c)
<1>1. Rec!Normalized(c, form) \in {"string", "object"}
  BY DEF Rec!RecordsAssumption, Rec!Normalized
<1>2. Rec!ExtractIssuer(c, Rec!Normalized(c, form)) = RowCredentials[c].issuer
  BY <1>1 DEF Rec!ExtractIssuer
<1>3. QED BY <1>2 DEF Rec!CreateCredentialEntity, RowOf, Rec!ComputeEntryHash

LEMMA UnsetIsText ==
  Rec!Unset \in Texts
BY DEF Texts

LEMMA RecBegins ==
  ASSUME Rec!RecordsAssumption, Rec!Init
  PROVE  RecInv
<1>1. MessageKept
  <2>1. messageRow = Rec!NoMessage /\ sent = Rec!NoMessage
    BY DEF Rec!Init
  <2>2. Rec!NoMessage \in [Rec!Parts -> Texts] /\ \A part \in Rec!Parts : Rec!NoMessage[part] = Rec!Unset
    BY UnsetIsText DEF Rec!NoMessage
  <2>3. "expiresAt" \in Rec!Parts
    BY DEF Rec!Parts
  <2>4. QED BY <2>1, <2>2, <2>3 DEF MessageKept
<1>2. CredentialsKept
  BY DEF Rec!Init, CredentialsKept
<1>3. IdentifierKept
  BY DEF Rec!Init, IdentifierKept, IdentifierShape, Rec!NoRow, Rec!IdentifiersAreReadBack, Rec!GetDID
<1>4. QED BY <1>1, <1>2, <1>3 DEF RecInv

LEMMA MessageSaved ==
  ASSUME Rec!RecordsAssumption, RecInv, NEW m \in [Rec!Parts -> PartValues \cup {Rec!Unset}], Rec!SaveMessage(m)
  PROVE  RecInv'
<1> DEFINE e == Rec!CreateMessageEntity(m)
<1>1. m \in [Rec!Parts -> Texts]
  BY DEF Texts
<1>2. /\ e \in [Rec!Parts -> Texts] /\ e["expiresAt"] = Rec!Unset
      /\ \A part \in Rec!Parts \ {"createdAt", "expiresAt"} : e[part] = m[part]
      /\ m["expiresAt"] = Rec!Unset => e["createdAt"] = m["createdAt"]
  <2> DEFINE dated == IF m["expiresAt"] # Rec!Unset THEN m["expiresAt"] ELSE m["createdAt"]
             unset == Rec!Unset
             n == [m EXCEPT !["createdAt"] = dated, !["expiresAt"] = unset]
  <2>1. "expiresAt" \in Rec!Parts /\ "createdAt" \in Rec!Parts /\ "createdAt" # "expiresAt"
    BY DEF Rec!Parts
  <2>2. dated \in Texts /\ unset \in Texts /\ (m["expiresAt"] = unset => dated = m["createdAt"])
    BY <1>1, <2>1, UnsetIsText
  <2>3. e = n
    BY DEF Rec!CreateMessageEntity
  <2> HIDE DEF dated, unset, e
  <2>4. n \in [Rec!Parts -> Texts] /\ n["expiresAt"] = unset /\ n["createdAt"] = dated
        /\ \A part \in Rec!Parts \ {"createdAt", "expiresAt"} : n[part] = m[part]
    BY <1>1, <2>1, <2>2
  <2> HIDE DEF n
  <2>5. QED BY <2>2, <2>3, <2>4 DEF unset
<1>3. /\ messageRow' = Rec!Kept(messageRow, e) /\ sent' = Rec!Kept(sent, m)
      /\ UNCHANGED <<credentialRows, holderOf, identifierRow, latest>>
  BY DEF Rec!SaveMessage
<1> HIDE DEF e
<1>4. messageRow' \in [Rec!Parts -> Texts] /\ sent' \in [Rec!Parts -> Texts]
  BY <1>1, <1>2, <1>3 DEF RecInv, MessageKept, Rec!Kept
<1>5. \A part \in Rec!Parts : /\ messageRow'[part] = IF e[part] = Rec!Unset THEN messageRow[part] ELSE e[part]
                              /\ sent'[part] = IF m[part] = Rec!Unset THEN sent[part] ELSE m[part]
  BY <1>3 DEF Rec!Kept
<1>6. \A part \in Rec!Parts \ {"createdAt", "expiresAt"} : messageRow'[part] = sent'[part]
  BY <1>2, <1>5 DEF RecInv, MessageKept
<1>7. messageRow'["expiresAt"] = Rec!Unset
  <2>1. "expiresAt" \in Rec!Parts
    BY DEF Rec!Parts
  <2>2. QED BY <1>2, <1>5, <2>1 DEF RecInv, MessageKept
<1>8. sent'["expiresAt"] = Rec!Unset => messageRow'["createdAt"] = sent'["createdAt"]
  <2>1. "expiresAt" \in Rec!Parts /\ "createdAt" \in Rec!Parts
    BY DEF Rec!Parts
  <2>2. sent'["expiresAt"] = Rec!Unset => m["expiresAt"] = Rec!Unset /\ sent["expiresAt"] = Rec!Unset
    BY <1>5, <2>1
  <2>3. QED BY <1>2, <1>5, <2>1, <2>2 DEF RecInv, MessageKept
<1>9. CredentialsKept' /\ IdentifierKept'
  BY <1>3 DEF RecInv, CredentialsKept, IdentifierKept, IdentifierShape, Rec!IdentifiersAreReadBack, Rec!GetDID,
     Rec!Parsed, RowOf, Rec!ComputeEntryHash
<1>10. QED BY <1>4, <1>6, <1>7, <1>8, <1>9 DEF RecInv, MessageKept

LEMMA CredentialSaved ==
  ASSUME Rec!RecordsAssumption, RecInv, NEW c \in DOMAIN RowCredentials,
         credentialRows' = Rec!SavedWith(RowOf(c)), holderOf' \in {holderOf, holderOf \cup {RowOf(c)}},
         UNCHANGED <<messageRow, sent, identifierRow, latest>>
  PROVE  RecInv'
<1>1. credentialRows' = {r \in credentialRows : r.hash # RowOf(c).hash} \cup {RowOf(c)}
  BY DEF Rec!SavedWith
<1>2. credentialRows \subseteq credentialRows'
  <2> SUFFICES ASSUME NEW r \in credentialRows, r.hash = RowOf(c).hash PROVE r = RowOf(c)
    BY <1>1
  <2>1. PICK d \in DOMAIN RowCredentials : r = RowOf(d)
    BY DEF RecInv, CredentialsKept
  <2>2. QED BY <2>1, RowsApart
<1>3. \A r \in credentialRows' : \E d \in DOMAIN RowCredentials : r = RowOf(d)
  BY <1>1 DEF RecInv, CredentialsKept
<1>4. holderOf' \subseteq credentialRows'
  BY <1>1, <1>2 DEF RecInv, CredentialsKept
<1>5. CredentialsKept'
  BY <1>3, <1>4 DEF CredentialsKept, RowOf, Rec!ComputeEntryHash
<1>6. MessageKept' /\ IdentifierKept'
  BY DEF RecInv, MessageKept, IdentifierKept, IdentifierShape, Rec!IdentifiersAreReadBack, Rec!GetDID, Rec!Parsed
<1>7. QED BY <1>5, <1>6 DEF RecInv

\* What is imported is read as it was, unless an endpoint is text in quotes.
LEMMA ReadAsImported ==
  ASSUME NEW S, \A s \in S : s.is \in {"text", "object"} /\ s = [is |-> s.is, of |-> s.of]
  PROVE  {Rec!Parsed(t) : t \in {Rec!Text(s) : s \in S}} = S
<1>1. ASSUME NEW s \in S PROVE Rec!Parsed(Rec!Text(s)) = s
  <2>1. CASE s.is = "object"
    <3>1. Rec!Text(s).is = "text of" /\ Rec!Text(s).of = s.of
      BY <2>1 DEF Rec!Text
    <3>2. Rec!Parsed(Rec!Text(s)) = [is |-> "object", of |-> s.of]
      BY <3>1 DEF Rec!Parsed
    <3>3. QED BY <2>1, <3>2
  <2>2. CASE s.is = "text"
    <3>1. Rec!Text(s) = s
      BY <2>2 DEF Rec!Text
    <3>2. QED BY <2>2, <3>1 DEF Rec!Parsed
  <2>3. QED BY <2>1, <2>2
<1>2. QED BY <1>1

LEMMA IdentifierSaved ==
  ASSUME Rec!RecordsAssumption, RecInv, NEW i, IdentifierShape(i), NEW l, IdentifierShape(l),
         \A s \in l.services : s.is \in {"text", "object", "quoted"} /\ s = [is |-> s.is, of |-> s.of],
         (\A s \in l.services : s.is # "quoted") =>
            i.services = l.services /\ i.keys = l.keys,
         (IF i.alias = Rec!Unset THEN identifierRow.alias ELSE i.alias) = l.alias,
         identifierRow' = Rec!ImportedRow(identifierRow, i), latest' = l,
         UNCHANGED <<messageRow, sent, credentialRows, holderOf>>
  PROVE  RecInv'
<1> DEFINE alias == IF i.alias = Rec!Unset THEN identifierRow.alias ELSE i.alias
           texts == {Rec!Text(s) : s \in i.services}
           row == [alias |-> alias, keys |-> i.keys, services |-> texts]
<1>1. identifierRow' = row
  BY DEF Rec!ImportedRow
<1>2. alias \in GivenAliases \cup {Rec!Unset}
  BY DEF RecInv, IdentifierKept, IdentifierShape
<1> HIDE DEF alias, texts
<1>3. IdentifierShape(row) /\ row.alias = alias /\ row.keys = i.keys /\ row.services = texts
  BY <1>2 DEF IdentifierShape
<1>4. Rec!GetDID(row) = [alias |-> alias, keys |-> i.keys, services |-> {Rec!Parsed(t) : t \in texts}]
  <2> DEFINE parsed == {Rec!Parsed(t) : t \in texts}
  <2>1. Rec!GetDID(row) = [row EXCEPT !.services = parsed]
    BY <1>3 DEF Rec!GetDID
  <2> HIDE DEF parsed
  <2>2. [row EXCEPT !.services = parsed] = [alias |-> alias, keys |-> i.keys, services |-> parsed]
    OBVIOUS
  <2>3. QED BY <2>1, <2>2 DEF parsed
<1>5. (\A s \in l.services : s.is # "quoted") => Rec!GetDID(row) = l
  <2> SUFFICES ASSUME \A s \in l.services : s.is # "quoted" PROVE Rec!GetDID(row) = l
    OBVIOUS
  <2>1. i.services = l.services /\ i.keys = l.keys /\ alias = l.alias
    BY DEF alias
  <2>2. \A s \in l.services : s.is \in {"text", "object"} /\ s = [is |-> s.is, of |-> s.of]
    OBVIOUS
  <2>3. {Rec!Parsed(t) : t \in texts} = l.services
    BY <2>1, <2>2, ReadAsImported DEF texts
  <2>4. l = [alias |-> l.alias, keys |-> l.keys, services |-> l.services]
    BY DEF IdentifierShape
  <2>5. QED BY <1>4, <2>1, <2>3, <2>4
<1> HIDE DEF row
<1>6. Rec!IdentifiersAreReadBack'
  BY <1>1, <1>5 DEF Rec!IdentifiersAreReadBack, Rec!GetDID, Rec!Parsed
<1>alias. identifierRow'.alias = latest'.alias
  BY <1>1, <1>3 DEF alias
<1>7. IdentifierKept'
  BY <1>1, <1>3, <1>alias, <1>6 DEF IdentifierKept, IdentifierShape
<1>8. MessageKept' /\ CredentialsKept'
  BY DEF RecInv, MessageKept, CredentialsKept, RowOf, Rec!ComputeEntryHash
<1>9. QED BY <1>7, <1>8 DEF RecInv

LEMMA IdentifierImported ==
  ASSUME Rec!RecordsAssumption, RecInv, NEW i \in ImportedIdentifiers, Rec!ImportDID(i)
  PROVE  RecInv'
<1> DEFINE alias == IF i.alias = Rec!Unset THEN latest.alias ELSE i.alias
           l == [i EXCEPT !.alias = alias]
<1>1. /\ IdentifierShape(i)
      /\ \A s \in i.services : s.is \in {"text", "object", "quoted"} /\ s = [is |-> s.is, of |-> s.of]
  BY DEF Rec!RecordsAssumption, IdentifierShape
<1>2. identifierRow' = Rec!ImportedRow(identifierRow, i) /\ latest' = l /\ UNCHANGED <<messageRow, sent, credentialRows, holderOf>>
  BY DEF Rec!ImportDID
<1>3. alias \in GivenAliases \cup {Rec!Unset}
  BY <1>1 DEF RecInv, IdentifierKept, IdentifierShape
<1> HIDE DEF alias
<1>4. l = [alias |-> alias, keys |-> i.keys, services |-> i.services]
  BY <1>1 DEF IdentifierShape
<1>5. l.services = i.services /\ l.keys = i.keys /\ l.alias = alias /\ IdentifierShape(l)
  BY <1>3, <1>4 DEF IdentifierShape
<1>6. identifierRow.alias = latest.alias
  BY DEF RecInv, IdentifierKept
<1> HIDE DEF l
<1>7. (IF i.alias = Rec!Unset THEN identifierRow.alias ELSE i.alias) = l.alias
  BY <1>5, <1>6 DEF alias
<1>8. QED BY <1>1, <1>2, <1>5, <1>7, IdentifierSaved

LEMMA AliasSet ==
  ASSUME Rec!RecordsAssumption, RecInv, NEW a \in GivenAliases, Rec!SetAlias(a)
  PROVE  RecInv'
<1> DEFINE read == Rec!GetDID(identifierRow)
           parsed == {Rec!Parsed(t) : t \in identifierRow.services}
           i == [read EXCEPT !.alias = a]
           l == [latest EXCEPT !.alias = a]
<1>1. identifierRow' = Rec!ImportedRow(identifierRow, i) /\ latest' = l /\ UNCHANGED <<messageRow, sent, credentialRows, holderOf>>
  BY DEF Rec!SetAlias, Rec!Read
<1>2. a # Rec!Unset
  BY DEF Rec!RecordsAssumption
<1>3. IdentifierShape(identifierRow) /\ IdentifierShape(latest)
      /\ \A s \in latest.services : s.is \in {"text", "object", "quoted"} /\ s = [is |-> s.is, of |-> s.of]
  BY DEF RecInv, IdentifierKept
<1>4. read = [identifierRow EXCEPT !.services = parsed]
  BY DEF Rec!GetDID
<1> HIDE DEF parsed
<1>5. read = [alias |-> identifierRow.alias, keys |-> identifierRow.keys, services |-> parsed]
  BY <1>3, <1>4 DEF IdentifierShape
<1>6. (\A s \in latest.services : s.is # "quoted") => read = latest
  BY DEF RecInv, IdentifierKept, Rec!IdentifiersAreReadBack
<1> HIDE DEF read
<1>7. i = [alias |-> a, keys |-> read.keys, services |-> read.services] /\ l = [alias |-> a, keys |-> latest.keys, services |-> latest.services]
  BY <1>3, <1>5 DEF IdentifierShape
<1> HIDE DEF i, l
<1>8. IdentifierShape(i) /\ IdentifierShape(l) /\ i.alias = a /\ l.alias = a /\ l.services = latest.services
      /\ i.keys = read.keys /\ i.services = read.services /\ l.keys = latest.keys
  BY <1>7 DEF IdentifierShape
<1>9. (\A s \in l.services : s.is # "quoted") => i.services = l.services /\ i.keys = l.keys
  BY <1>6, <1>8
<1>10. (IF i.alias = Rec!Unset THEN identifierRow.alias ELSE i.alias) = l.alias
  BY <1>2, <1>8
<1>11. \A s \in l.services : s.is \in {"text", "object", "quoted"} /\ s = [is |-> s.is, of |-> s.of]
  BY <1>3, <1>8
<1>12. QED BY <1>1, <1>8, <1>9, <1>10, <1>11, IdentifierSaved

LEMMA RecInductive ==
  ASSUME Rec!RecordsAssumption, RecInv, [Rec!Next]_(Rec!vars)
  PROVE  RecInv'
<1>1. CASE Rec!SaveMessages
  BY <1>1, MessageSaved DEF Rec!SaveMessages
<1>2. CASE Rec!SaveCredentials
  <2>1. ASSUME NEW c \in DOMAIN RowCredentials, Rec!SaveCredential(c)
        PROVE  RecInv'
    <3>1. credentialRows' = Rec!SavedWith(RowOf(c)) /\ UNCHANGED <<messageRow, sent, holderOf, identifierRow, latest>>
      BY <2>1, EntityIsRow DEF Rec!SaveCredential
    <3>2. QED BY <3>1, CredentialSaved
  <2>2. ASSUME NEW c \in DOMAIN RowCredentials, NEW form, Rec!SavePresentation(c, form)
        PROVE  RecInv'
    <3>1. Rec!CreatePresentationEntity(c, form) = RowOf(c)
      BY EntityIsRow DEF Rec!CreatePresentationEntity
    <3>2. credentialRows' = Rec!SavedWith(RowOf(c)) /\ holderOf' = holderOf \cup {RowOf(c)}
          /\ UNCHANGED <<messageRow, sent, identifierRow, latest>>
      BY <2>2, <3>1 DEF Rec!SavePresentation
    <3>3. QED BY <3>2, CredentialSaved
  <2>3. QED BY <1>2, <2>1, <2>2 DEF Rec!SaveCredentials
<1>3. CASE Rec!SaveIdentifiers
  BY <1>3, IdentifierImported, AliasSet DEF Rec!SaveIdentifiers
<1>4. CASE UNCHANGED Rec!vars
  <2>1. UNCHANGED <<messageRow, sent, credentialRows, holderOf, identifierRow, latest>>
    BY <1>4 DEF Rec!vars
  <2>2. QED BY <2>1 DEF RecInv, MessageKept, CredentialsKept, IdentifierKept, IdentifierShape, RowOf,
          Rec!ComputeEntryHash, Rec!IdentifiersAreReadBack, Rec!GetDID, Rec!Parsed
<1>5. QED BY <1>1, <1>2, <1>3, <1>4 DEF Rec!Next

(* The columns of the rows, and what was saved of each record last, stay of their type,
   for any values, credentials and identifiers. *)
THEOREM RecordsTypeCorrect ==
  ASSUME Rec!RecordsAssumption
  PROVE  Rec!Spec => []Rec!TypeOK
<1>1. RecInv => Rec!TypeOK
  <2> SUFFICES ASSUME RecInv PROVE Rec!TypeOK
    OBVIOUS
  <2>1. messageRow \in [Rec!Parts -> PartValues \cup {Rec!Unset}] /\ sent \in [Rec!Parts -> PartValues \cup {Rec!Unset}]
    BY DEF RecInv, MessageKept, Texts
  <2>2. \A r \in credentialRows : r.of \in DOMAIN RowCredentials
    BY RowHashes DEF RecInv, CredentialsKept
  <2>3. identifierRow.alias \in GivenAliases \cup {Rec!Unset} /\ latest.alias \in GivenAliases \cup {Rec!Unset}
    BY DEF RecInv, IdentifierKept, IdentifierShape
  <2>4. QED BY <2>1, <2>2, <2>3 DEF Rec!TypeOK, RecInv, CredentialsKept
<1>2. QED BY <1>1, RecBegins, RecInductive, PTL DEF Rec!Spec

(* Whatever is saved in whatever order: each part of a message is read as it was saved
   last, but for the dates and the reply URL that the store loses; a credential is one
   row whichever form it came in, found by the hash of any of them; and an identifier
   is read with the endpoints it was imported with, unless one is text in quotes
   (createMessageEntity, createCredentialEntity, DIDStore). *)
THEOREM RecordsAreReadBack ==
  ASSUME Rec!RecordsAssumption
  PROVE  Rec!Spec => [](Rec!MessagesAreReadBack /\ Rec!OneRowPerCredential /\ Rec!IdentifiersAreReadBack)
<1>1. RecInv => Rec!MessagesAreReadBack /\ Rec!OneRowPerCredential /\ Rec!IdentifiersAreReadBack
  <2> SUFFICES ASSUME RecInv PROVE Rec!MessagesAreReadBack /\ Rec!OneRowPerCredential /\ Rec!IdentifiersAreReadBack
    OBVIOUS
  <2>1. Rec!MessagesAreReadBack
    <3> DEFINE lost == (IF sent.expiresAt # Rec!Unset THEN {"createdAt", "expiresAt"} ELSE {})
                       \cup (IF sent.replyTo = Rec!Unset THEN {"replyUrl"} ELSE {})
    <3> SUFFICES ASSUME NEW part \in Rec!Parts \ lost PROVE Rec!CreateMessage(messageRow)[part] = sent[part]
      BY DEF Rec!MessagesAreReadBack
    <3>1. "expiresAt" \in Rec!Parts /\ "replyTo" \in Rec!Parts /\ "replyUrl" \in Rec!Parts
      BY DEF Rec!Parts
    <3>2. messageRow[part] = sent[part]
      BY <3>1 DEF RecInv, MessageKept
    <3>3. messageRow["replyTo"] = sent["replyTo"]
      BY <3>1 DEF RecInv, MessageKept
    <3>4. Rec!CreateMessage(messageRow)[part] = messageRow[part]
      <4> DEFINE url == IF messageRow["replyTo"] # Rec!Unset THEN messageRow["replyUrl"] ELSE Rec!Unset
      <4>1. Rec!CreateMessage(messageRow) = [messageRow EXCEPT !["replyUrl"] = url]
        BY DEF Rec!CreateMessage
      <4>2. part = "replyUrl" => url = messageRow["replyUrl"]
        BY <3>3
      <4>3. messageRow \in [Rec!Parts -> Texts]
        BY DEF RecInv, MessageKept
      <4> HIDE DEF url
      <4>4. QED BY <3>1, <4>1, <4>2, <4>3
    <3>5. QED BY <3>2, <3>4
  <2>2. Rec!OneRowPerCredential
    <3>1. ASSUME NEW r \in credentialRows
          PROVE  /\ r.issuer = RowCredentials[r.of].issuer
                 /\ \A form \in Rec!FormsOf(r.of) : Rec!ComputeEntryHash(r.of, form) = r.hash
                 /\ \A s \in credentialRows : s.of = r.of => s = r
      <4>1. PICK c \in DOMAIN RowCredentials : r = RowOf(c)
        BY DEF RecInv, CredentialsKept
      <4>2. \A s \in credentialRows : \E d \in DOMAIN RowCredentials : s = RowOf(d)
        BY DEF RecInv, CredentialsKept
      <4>3. QED BY <4>1, <4>2, RowHashes
    <3>2. holderOf \subseteq credentialRows
      BY DEF RecInv, CredentialsKept
    <3>3. QED BY <3>1, <3>2 DEF Rec!OneRowPerCredential
  <2>3. QED BY <2>1, <2>2 DEF RecInv, IdentifierKept
<1>2. QED BY <1>1, RecBegins, RecInductive, PTL DEF Rec!Spec

(* The SQL stores as a whole: their rows, the migrations of their layout and what is
   read back of what was saved. *)
THEOREM SqlStoreKeepsAll ==
  ASSUME Sql!SqlAssumption, Mig!MigrationsAssumption, Rec!RecordsAssumption
  PROVE  Sql!Spec /\ Mig!Spec /\ Rec!Spec => []SqlStoreKeeps
BY RowsResolve, MigrationsKeepKeys, MigrationsKeepRows, RecordsAreReadBack, PTL DEF SqlStoreKeeps
==============================================================================
