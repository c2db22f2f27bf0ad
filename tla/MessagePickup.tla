---------------------------- MODULE MessagePickup ----------------------------
(***************************************************************************)
(* Both roles of messagepickup-message-handler.ts: recipients poll the     *)
(* mediator for the messages it has queued for their keys, handle them and *)
(* acknowledge them, and the mediator then deletes them.                   *)
(*                                                                         *)
(* Every await in a handler is a point where other handlers run, so a      *)
(* running invocation at the mediator is the task of a worker, a delivery  *)
(* being handled belongs to a session of a recipient's agent, and each     *)
(* awaited call that changes state is an action.  A reply may be lost, an  *)
(* acknowledgement may be lost, delayed or received more than once (a      *)
(* message is sent over every transport of every service of its            *)
(* addressee: didcomm.ts, sendDIDCommMessage), and both sides may restart. *)
(***************************************************************************)
EXTENDS Naturals, Sequences, FiniteSets

CONSTANTS
  DIDs,         \* the DIDs that have a mailbox at the mediator
  Kids,         \* the key ids messages are encrypted to
  DidOf,        \* DidOf[k]: the part of key id k before the '#'
  Likes,        \* <<d, e>> when the pattern `${d}%` matches e and its keys
  Raws,         \* the packed (encrypted) messages that senders forward
  KidsOf,       \* KidsOf[r]: the recipients in the JWE header of r
  Unreadable,   \* packed messages whose unpacking always fails
  NoKey,        \* a delivery request without recipient_key
  Limit,        \* body.limit of a delivery request
  Sessions,     \* the polls that may be under way at the same time
  DidAt,        \* DidAt[s]: the DID whose agent polls in session s
  Workers,      \* bound: messages-received handlers running at the mediator
  MaxEntries,   \* bound: messages that are queued
  MaxFaults     \* bound: losses, repetitions, failed calls and restarts

ASSUME KeysAssumption ==
  /\ DidOf \in [Kids -> DIDs]
  /\ KidsOf \in [Raws -> SUBSET Kids]
  /\ DidAt \in [Sessions -> DIDs]
  /\ NoKey \notin Kids
ASSUME LikesAssumption ==
  /\ Likes \subseteq DIDs \X DIDs
  /\ \A d \in DIDs : <<d, d>> \in Likes
ASSUME BoundsAssumption ==
  /\ Limit \in Nat \ {0}
  /\ MaxEntries \in Nat
  /\ MaxFaults \in Nat

VARIABLES
  log,          \* history: every message ever saved with QUEUE_MESSAGE_TYPE
  queue,        \* indices in log of those still in the data store
  task,         \* task[w]: the messages-received that worker w handles
  acks,         \* messages-received messages on their way to the mediator
  batch,        \* batch[s]: the delivery that session s is handling
  handled,      \* history: <<d, i>> when the agent of d has handled entry i
  faults        \* faults so far

vars == <<log, queue, task, acks, batch, handled, faults>>

Entry == [to : Kids, raw : Raws]
Ids == 1 .. Len(log)
Owner(i) == DidOf[log[i].to]

Task == [busy : BOOLEAN, from : DIDs \union {NoKey},
         todo : SUBSET Ids, found : SUBSET Ids]
Batch == [busy : BOOLEAN, ids : SUBSET Ids, todo : SUBSET Ids, failed : BOOLEAN]
NoBatch == [busy |-> FALSE, ids |-> {}, todo |-> {}, failed |-> FALSE]
NoTask == [busy |-> FALSE, from |-> NoKey, todo |-> {}, found |-> {}]

TypeOK ==
  /\ log \in Seq(Entry)
  /\ queue \subseteq Ids
  /\ task \in [Workers -> Task]
  /\ acks \subseteq [from : DIDs, ids : SUBSET Ids]
  /\ batch \in [Sessions -> Batch]
  /\ handled \subseteq DIDs \X Ids
  /\ faults \in 0 .. MaxFaults

Init ==
  /\ log = <<>>
  /\ queue = {}
  /\ task = [w \in Workers |-> NoTask]
  /\ acks = {}
  /\ batch = [s \in Sessions |-> NoBatch]
  /\ handled = {}
  /\ faults = 0

Fault ==
  /\ faults < MaxFaults
  /\ faults' = faults + 1

------------------------------------------------------------------------------
(* RoutingMessageHandler saves an entry for one recipient of a forwarded   *)
(* message (module Routing has the whole handler).                         *)

\* Mutant: the entry gets the id of the one after it.
SaveQueuedSkipsId(k, raw) ==
  /\ Len(log) < MaxEntries
  /\ k \in KidsOf[raw]
  /\ log' = Append(log, [to |-> k, raw |-> raw])
  /\ queue' = queue \union {Len(log) + 2}
  /\ UNCHANGED <<task, acks, batch, handled, faults>>

SaveQueued(k, raw) ==
  /\ Len(log) < MaxEntries
  /\ k \in KidsOf[raw]
  /\ log' = Append(log, [to |-> k, raw |-> raw])
  /\ queue' = queue \union {Len(log) + 1}
  /\ UNCHANGED <<task, acks, batch, handled, faults>>

------------------------------------------------------------------------------
(* PickupMediatorMessageHandler.handle                                     *)

\* generateGetMessagesWhereQuery: the queued entries a request of d ranges over.
Matching(d, key) ==
  {i \in queue : IF key = NoKey THEN <<d, Owner(i)>> \in Likes
                                ELSE log[i].to = key}

\* `take: limit` with no order: any Limit entries, or all when there are fewer.
\* Mutant: `take: limit - 1`.
TakenOneLess(d, key) ==
  {ids \in SUBSET Matching(d, key) : Cardinality(ids) = Limit - 1}

Taken(d, key) ==
  {ids \in SUBSET Matching(d, key) :
     \/ Cardinality(ids) = Limit
     \/ Cardinality(ids) < Limit /\ ids = Matching(d, key)}

\* A poll answered with a delivery.  One that finds no entry is answered with
\* a status message, as a status request is: no handler of the recipient reads
\* it and nothing changes.
DeliveryRequest(s, key) ==
  /\ ~batch[s].busy
  /\ Matching(DidAt[s], key) # {}
  /\ \E ids \in Taken(DidAt[s], key) :
       batch' = [batch EXCEPT ![s] = [busy |-> TRUE, ids |-> ids,
                                      todo |-> ids, failed |-> FALSE]]
  /\ UNCHANGED <<log, queue, task, acks, handled, faults>>

MessagesReceived(w, ack) ==
  /\ ~task[w].busy
  /\ task' = [task EXCEPT ![w] = [busy |-> TRUE, from |-> ack.from,
                                  todo |-> ack.ids, found |-> {}]]
  /\ \/ acks' = acks \ {ack} /\ UNCHANGED faults
     \/ acks' = acks /\ Fault
  /\ UNCHANGED <<log, queue, batch, handled>>

\* Mutant: whoever acknowledges an entry has it deleted.
LookUpAnybodys(w, i) ==
  /\ i \in task[w].todo
  /\ task' = [task EXCEPT ![w].todo = @ \ {i},
                          ![w].found = IF i \in queue THEN @ \union {i} ELSE @]
  /\ UNCHANGED <<log, queue, acks, batch, handled, faults>>

\* dataStoreGetMessage throws when the entry is gone: that callback ends, the
\* others go on.  An entry of somebody else is left alone.
LookUpReceived(w, i) ==
  /\ i \in task[w].todo
  /\ task' = [task EXCEPT ![w].todo = @ \ {i},
                          ![w].found = IF i \in queue /\ Owner(i) = task[w].from
                                       THEN @ \union {i} ELSE @]
  /\ UNCHANGED <<log, queue, acks, batch, handled, faults>>

DeleteReceived(w, i) ==
  /\ i \in task[w].found
  /\ queue' = queue \ {i}
  /\ task' = [task EXCEPT ![w].found = @ \ {i}]
  /\ UNCHANGED <<log, acks, batch, handled, faults>>

\* The status reply (left out when a lookup has thrown) carries no state.
ReceivedDone(w) ==
  /\ task[w].busy
  /\ task[w].todo = {} /\ task[w].found = {}
  /\ task' = [task EXCEPT ![w] = NoTask]
  /\ UNCHANGED <<log, queue, acks, batch, handled, faults>>

------------------------------------------------------------------------------
(* PickupRecipientMessageHandler.handle                                    *)

\* The agent of d can unpack a message when it holds one of its keys.
CanUnpack(d, i) ==
  /\ log[i].raw \notin Unreadable
  /\ \E k \in KidsOf[log[i].raw] : DidOf[k] = d

HandleAttachment(s, i) ==
  /\ i \in batch[s].todo
  /\ CanUnpack(DidAt[s], i)
  /\ handled' = handled \union {<<DidAt[s], i>>}
  /\ batch' = [batch EXCEPT ![s].todo = @ \ {i}]
  /\ UNCHANGED <<log, queue, task, acks, faults>>

\* Mutant: Promise.allSettled in place of Promise.all.
AttachmentSettles(s, i) ==
  /\ i \in batch[s].todo
  /\ IF CanUnpack(DidAt[s], i) THEN Fault ELSE UNCHANGED faults
  /\ batch' = [batch EXCEPT ![s].todo = @ \ {i}]
  /\ UNCHANGED <<log, queue, task, acks, handled>>

\* handleMessage rejects, so Promise.all rejects; the other attachments are
\* still handled.
AttachmentFails(s, i) ==
  /\ i \in batch[s].todo
  /\ IF CanUnpack(DidAt[s], i) THEN Fault ELSE UNCHANGED faults
  /\ batch' = [batch EXCEPT ![s].todo = @ \ {i}, ![s].failed = TRUE]
  /\ UNCHANGED <<log, queue, task, acks, handled>>

\* When every attachment has been handled the whole list is acknowledged, and
\* nothing is when one of them has failed.
DeliveryDone(s) ==
  /\ batch[s].busy
  /\ batch[s].todo = {}
  /\ acks' = IF batch[s].failed THEN acks
             ELSE acks \union {[from |-> DidAt[s], ids |-> batch[s].ids]}
  /\ batch' = [batch EXCEPT ![s] = NoBatch]
  /\ UNCHANGED <<log, queue, task, handled, faults>>

------------------------------------------------------------------------------
(* Lost packets and restarts.  The data store of the mediator survives.    *)

LoseAck(ack) ==
  /\ Fault
  /\ acks' = acks \ {ack}
  /\ UNCHANGED <<log, queue, task, batch, handled>>

RestartMediator ==
  /\ Fault
  /\ task' = [w \in Workers |-> NoTask]
  /\ UNCHANGED <<log, queue, acks, batch, handled>>

\* A lost reply, and a restart of the recipient, both end the session's poll.
EndSession(s) ==
  /\ Fault
  /\ batch' = [batch EXCEPT ![s] = NoBatch]
  /\ UNCHANGED <<log, queue, task, acks, handled>>

------------------------------------------------------------------------------

Acknowledge(w) ==
  \/ \E i \in Ids : LookUpReceived(w, i)
  \/ \E i \in Ids : DeleteReceived(w, i)
  \/ ReceivedDone(w)

Recipient(s) ==
  \/ \E i \in Ids : HandleAttachment(s, i)
  \/ \E i \in Ids : AttachmentFails(s, i)
  \/ DeliveryDone(s)

Poll(s) ==
  \E key \in {k \in Kids : DidOf[k] = DidAt[s]} \union {NoKey} :
    DeliveryRequest(s, key)

Next ==
  \/ \E k \in Kids, raw \in Raws : SaveQueued(k, raw)
  \/ \E s \in Sessions : Poll(s)
  \/ \E w \in Workers, ack \in acks : MessagesReceived(w, ack)
  \/ \E w \in Workers : Acknowledge(w)
  \/ \E s \in Sessions : Recipient(s)
  \/ \E ack \in acks : LoseAck(ack)
  \/ RestartMediator
  \/ \E s \in Sessions : EndSession(s)

Spec == Init /\ [][Next]_vars

(***************************************************************************)
(* Node's event loop runs every pending callback, so a handler that has    *)
(* started is carried to its end, and it starts a handler for each request *)
(* at once: the bound on workers is the model's, so an acknowledgement     *)
(* gets one as long as workers become free again and again.  That          *)
(* recipients keep polling, and that a message that is not lost arrives,   *)
(* is the assumption on the applications and the network: no code of the   *)
(* repository polls by itself.                                             *)
(***************************************************************************)
Fairness ==
  /\ \A w \in Workers : WF_vars(Acknowledge(w))
  /\ \A d \in DIDs : SF_vars(\E w \in Workers, ack \in acks :
                               ack.from = d /\ MessagesReceived(w, ack))
  /\ \A s \in Sessions : /\ WF_vars(DeliveryRequest(s, NoKey))
                         /\ WF_vars(Recipient(s))

FairSpec == Spec /\ Fairness

------------------------------------------------------------------------------
(* Properties                                                              *)

(***************************************************************************)
(* No queued message is lost: one that has left the mediator's data store  *)
(* has been handled by the agent of the DID it is addressed to, whatever   *)
(* packets were lost or repeated and whoever restarted.                    *)
(***************************************************************************)
NoMessageLost == \A i \in Ids : i \in queue \/ <<Owner(i), i>> \in handled

(***************************************************************************)
(* Why it holds: only what the agent of a DID has handled is on its way to *)
(* the mediator in the name of that DID, and the mediator deletes only     *)
(* entries of the DID that acknowledges them.                              *)
(***************************************************************************)
BatchesHandled ==
  \A s \in Sessions :
    ~batch[s].failed =>
      \A i \in batch[s].ids \ batch[s].todo : <<DidAt[s], i>> \in handled

AcksHandled == \A ack \in acks : \A i \in ack.ids : <<ack.from, i>> \in handled

TasksHandled ==
  \A w \in Workers :
    /\ \A i \in task[w].todo : <<task[w].from, i>> \in handled
    /\ \A i \in task[w].found : /\ <<task[w].from, i>> \in handled
                                /\ Owner(i) = task[w].from

PickupInv ==
  /\ TypeOK
  /\ BatchesHandled
  /\ AcksHandled
  /\ TasksHandled
  /\ NoMessageLost

\* The abstract mailbox that the handlers implement together.
Mbx == INSTANCE Mailbox WITH
         Owners <- DIDs,
         owner <- [i \in Ids |-> Owner(i)],
         box <- queue,
         seen <- handled

(***************************************************************************)
(* Queueing, delivery and acknowledgement together behave as the abstract  *)
(* mailbox: an entry is discarded only after its owner has seen it.        *)
(***************************************************************************)
ImplementsMailbox == Mbx!Spec

(***************************************************************************)
(* With recipients that keep polling, every queued message leaves the      *)
(* queue (and so, by NoMessageLost, has been handled by its owner).  This  *)
(* covers a mailbox whose DID is a prefix of another one: the entries of   *)
(* the longer DID make deliveries of the shorter one fail only while they  *)
(* are queued.  It needs every message to be readable by its addressee.    *)
(***************************************************************************)
EveryEntryDequeued == \A i \in 1 .. MaxEntries : (i \in queue) ~> (i \notin queue)

==============================================================================
