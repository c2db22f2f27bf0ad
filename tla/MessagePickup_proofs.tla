------------------------- MODULE MessagePickup_proofs ------------------------
(***************************************************************************)
(* Proofs about MessagePickup, for every set of DIDs, keys, sessions and   *)
(* workers, every matching relation, every limit and every bound.          *)
(* At the end, about what an agent is asked to look up: Profiles, for every *)
(* set of profiles and changes of the stores, and Queries, for every table, *)
(* condition, order and page.                                              *)
(***************************************************************************)
EXTENDS DataAnswers, MessagePickup, Filters_proofs, SequenceTheorems, TLAPS

\* The owner of a logged entry is a DID, and stays the same when the log grows.
LEMMA OwnerType ==
  ASSUME TypeOK, NEW i \in Ids
  PROVE  Owner(i) \in DIDs
<1>1. log[i] \in Entry
  BY DEF TypeOK, Ids
<1>2. QED
  BY <1>1, KeysAssumption DEF Owner, Entry, KeysAssumption

\* What appending an entry to the log does to its indices and their owners.
LEMMA LogGrows ==
  ASSUME TypeOK, NEW k \in Kids, NEW raw \in Raws,
         log' = Append(log, [to |-> k, raw |-> raw])
  PROVE  /\ log' \in Seq(Entry)
         /\ Ids' = Ids \union {Len(log) + 1}
         /\ Len(log) + 1 \notin Ids
         /\ \A i \in Ids : log'[i] = log[i]
         /\ log'[Len(log) + 1].to = k
  BY DEF TypeOK, Ids, Entry

\* Every variable keeps its type in every step.
LEMMA TypeStep == TypeOK /\ [Next]_vars => TypeOK'
<1> SUFFICES ASSUME TypeOK, [Next]_vars PROVE TypeOK'
  OBVIOUS
<1> USE DEF TypeOK
<1>1. ASSUME NEW k \in Kids, NEW raw \in Raws, SaveQueued(k, raw) PROVE TypeOK'
  <2>1. /\ log' \in Seq(Entry)
        /\ Ids \subseteq Ids'
        /\ Len(log) + 1 \in Ids'
    BY <1>1, LogGrows DEF SaveQueued
  <2>2. /\ queue' \subseteq Ids'
        /\ handled' \subseteq DIDs \X Ids'
        /\ faults' \in 0 .. MaxFaults
        /\ acks' \subseteq [from : DIDs, ids : SUBSET Ids']
    BY <1>1, <2>1 DEF SaveQueued
  <2>3. task' \in [Workers -> Task']
    BY <1>1, <2>1 DEF SaveQueued, Task
  <2>4. batch' \in [Sessions -> Batch']
    BY <1>1, <2>1 DEF SaveQueued, Batch
  <2>5. QED
    BY <2>1, <2>2, <2>3, <2>4
<1>2. ASSUME UNCHANGED log
      PROVE  Ids' = Ids /\ Task' = Task /\ Batch' = Batch
  BY <1>2 DEF Ids, Task, Batch
<1>3. ASSUME NEW s \in Sessions, NEW key, DeliveryRequest(s, key) PROVE TypeOK'
  <2>1. PICK ids \in Taken(DidAt[s], key) :
          batch' = [batch EXCEPT ![s] = [busy |-> TRUE, ids |-> ids,
                                         todo |-> ids, failed |-> FALSE]]
    BY <1>3 DEF DeliveryRequest
  <2>2. ids \subseteq Ids
    BY DEF Taken, Matching
  <2>3. batch' \in [Sessions -> Batch]
    BY <2>1, <2>2 DEF Batch
  <2>4. QED
    BY <1>2, <1>3, <2>3 DEF DeliveryRequest
<1>4. ASSUME NEW w \in Workers, NEW ack \in acks, MessagesReceived(w, ack)
      PROVE  TypeOK'
  <2>1. [busy |-> TRUE, from |-> ack.from, todo |-> ack.ids, found |-> {}] \in Task
    BY DEF Task
  <2>2. QED
    BY <1>2, <1>4, <2>1, BoundsAssumption DEF MessagesReceived, Fault, BoundsAssumption
<1>5. ASSUME NEW w \in Workers, NEW i \in Ids, LookUpReceived(w, i) PROVE TypeOK'
  <2>1. task' \in [Workers -> Task]
    BY <1>5, ZenonT(40) DEF LookUpReceived, Task
  <2>2. QED
    BY <1>2, <1>5, <2>1 DEF LookUpReceived
<1>6. ASSUME NEW w \in Workers, NEW i \in Ids, DeleteReceived(w, i) PROVE TypeOK'
  <2>1. task' \in [Workers -> Task]
    BY <1>6 DEF DeleteReceived, Task
  <2>2. QED
    BY <1>2, <1>6, <2>1 DEF DeleteReceived
<1>7. ASSUME NEW w \in Workers, ReceivedDone(w) PROVE TypeOK'
  BY <1>2, <1>7 DEF ReceivedDone, NoTask, Task
<1>8. ASSUME NEW s \in Sessions, NEW i \in Ids, HandleAttachment(s, i) PROVE TypeOK'
  <2>1. batch' \in [Sessions -> Batch]
    BY <1>8 DEF HandleAttachment, Batch
  <2>2. handled' \subseteq DIDs \X Ids
    <3>1. DidAt[s] \in DIDs
      BY KeysAssumption DEF KeysAssumption
    <3>2. QED
      BY <1>8, <3>1 DEF HandleAttachment
  <2>3. QED
    BY <1>2, <1>8, <2>1, <2>2 DEF HandleAttachment
<1>9. ASSUME NEW s \in Sessions, NEW i \in Ids, AttachmentFails(s, i) PROVE TypeOK'
  <2>1. batch' \in [Sessions -> Batch]
    BY <1>9 DEF AttachmentFails, Batch
  <2>2. QED
    BY <1>2, <1>9, <2>1, BoundsAssumption DEF AttachmentFails, Fault, BoundsAssumption
<1>10. ASSUME NEW s \in Sessions, DeliveryDone(s) PROVE TypeOK'
  <2>1. [from |-> DidAt[s], ids |-> batch[s].ids] \in [from : DIDs, ids : SUBSET Ids]
    BY KeysAssumption DEF KeysAssumption, Batch
  <2>2. batch' \in [Sessions -> Batch]
    BY <1>10 DEF DeliveryDone, NoBatch, Batch
  <2>3. QED
    BY <1>2, <1>10, <2>1, <2>2 DEF DeliveryDone
<1>11. ASSUME NEW ack \in acks, LoseAck(ack) PROVE TypeOK'
  BY <1>2, <1>11, BoundsAssumption DEF LoseAck, Fault, BoundsAssumption
<1>12. CASE RestartMediator
  BY <1>2, <1>12, BoundsAssumption
     DEF RestartMediator, Fault, NoTask, Task, BoundsAssumption
<1>13. ASSUME NEW s \in Sessions, EndSession(s) PROVE TypeOK'
  BY <1>2, <1>13, BoundsAssumption
     DEF EndSession, Fault, NoBatch, Batch, BoundsAssumption
<1>14. CASE UNCHANGED vars
  BY <1>2, <1>14 DEF vars
<1>15. QED
  BY <1>1, <1>3, <1>4, <1>5, <1>6, <1>7, <1>8, <1>9, <1>10, <1>11,
     <1>12, <1>13, <1>14 DEF Next, Poll, Acknowledge, Recipient

\* The initial state is well typed.
LEMMA InitTypeOK == Init => TypeOK
<1> SUFFICES ASSUME Init PROVE TypeOK
  OBVIOUS
<1>1. log \in Seq(Entry) /\ queue \subseteq Ids /\ acks = {} /\ handled = {}
  BY DEF Init
<1>2. task \in [Workers -> Task]
  BY DEF Init, Task, NoTask
<1>3. batch \in [Sessions -> Batch]
  BY DEF Init, Batch, NoBatch
<1>4. faults \in 0 .. MaxFaults
  BY BoundsAssumption DEF Init, BoundsAssumption
<1>5. QED
  BY <1>1, <1>2, <1>3, <1>4 DEF TypeOK

(***************************************************************************)
(* Type correctness of the pickup protocol.                                *)
(***************************************************************************)
THEOREM TypeCorrect == Spec => []TypeOK
  BY InitTypeOK, TypeStep, PTL DEF Spec

\* Steps that leave the log alone leave the owners of its entries alone.
LEMMA SameOwners ==
  ASSUME UNCHANGED log
  PROVE  Ids' = Ids /\ \A i \in Ids : Owner(i)' = Owner(i)
  BY DEF Ids, Owner

\* The inductive step: what has been handled stays handled, and only what has
\* been handled is acknowledged, looked up and deleted.
LEMMA PickupStep == PickupInv /\ [Next]_vars => PickupInv'
<1> SUFFICES ASSUME PickupInv, [Next]_vars PROVE PickupInv'
  OBVIOUS
<1> USE DEF PickupInv
<1>0. TypeOK'
  BY TypeStep
<1>1. ASSUME NEW k \in Kids, NEW raw \in Raws, SaveQueued(k, raw)
      PROVE  PickupInv'
  <2>1. /\ Ids' = Ids \union {Len(log) + 1}
        /\ \A i \in Ids : Owner(i)' = Owner(i)
    BY <1>1, LogGrows DEF SaveQueued, Owner
  <2>2. BatchesHandled'
    BY <1>1 DEF SaveQueued, BatchesHandled
  <2>3. AcksHandled'
    BY <1>1 DEF SaveQueued, AcksHandled
  <2>4. TasksHandled'
    BY <1>1, <2>1 DEF SaveQueued, TasksHandled, TypeOK, Task
  <2>5. NoMessageLost'
    BY <1>1, <2>1 DEF SaveQueued, NoMessageLost
  <2>6. QED
    BY <1>0, <2>2, <2>3, <2>4, <2>5
<1>2. ASSUME NEW s \in Sessions, NEW key, DeliveryRequest(s, key)
      PROVE  PickupInv'
  <2>1. BatchesHandled'
    BY <1>2 DEF DeliveryRequest, BatchesHandled, TypeOK, Batch
  <2>2. AcksHandled' /\ TasksHandled' /\ NoMessageLost'
    BY <1>2, SameOwners DEF DeliveryRequest, AcksHandled, TasksHandled, NoMessageLost,
       TypeOK, Task
  <2>3. QED
    BY <1>0, <2>1, <2>2
<1>3. ASSUME NEW w \in Workers, NEW ack \in acks, MessagesReceived(w, ack)
      PROVE  PickupInv'
  <2>1. TasksHandled'
    BY <1>3, SameOwners DEF MessagesReceived, TasksHandled, AcksHandled, TypeOK, Task
  <2>2. BatchesHandled' /\ AcksHandled' /\ NoMessageLost'
    BY <1>3, SameOwners DEF MessagesReceived, BatchesHandled, AcksHandled, NoMessageLost
  <2>3. QED
    BY <1>0, <2>1, <2>2
<1>4. ASSUME NEW w \in Workers, NEW i \in Ids, LookUpReceived(w, i)
      PROVE  PickupInv'
  <2>1. TasksHandled'
    BY <1>4, SameOwners DEF LookUpReceived, TasksHandled, TypeOK, Task
  <2>2. BatchesHandled' /\ AcksHandled' /\ NoMessageLost'
    BY <1>4, SameOwners DEF LookUpReceived, BatchesHandled, AcksHandled, NoMessageLost
  <2>3. QED
    BY <1>0, <2>1, <2>2
<1>5. ASSUME NEW w \in Workers, NEW i \in Ids, DeleteReceived(w, i)
      PROVE  PickupInv'
  <2>1. <<Owner(i), i>> \in handled
    BY <1>5 DEF DeleteReceived, TasksHandled
  <2>2. NoMessageLost'
    BY <1>5, <2>1, SameOwners DEF DeleteReceived, NoMessageLost
  <2>3. TasksHandled'
    BY <1>5, SameOwners DEF DeleteReceived, TasksHandled, TypeOK, Task
  <2>4. BatchesHandled' /\ AcksHandled'
    BY <1>5 DEF DeleteReceived, BatchesHandled, AcksHandled
  <2>5. QED
    BY <1>0, <2>2, <2>3, <2>4
<1>6. ASSUME NEW w \in Workers, ReceivedDone(w) PROVE PickupInv'
  <2>1. TasksHandled'
    BY <1>6, SameOwners DEF ReceivedDone, NoTask, TasksHandled, TypeOK, Task
  <2>2. BatchesHandled' /\ AcksHandled' /\ NoMessageLost'
    BY <1>6, SameOwners DEF ReceivedDone, BatchesHandled, AcksHandled, NoMessageLost
  <2>3. QED
    BY <1>0, <2>1, <2>2
<1>7. ASSUME NEW s \in Sessions, NEW i \in Ids, HandleAttachment(s, i)
      PROVE  PickupInv'
  <2>1. BatchesHandled'
    BY <1>7 DEF HandleAttachment, BatchesHandled, TypeOK, Batch
  <2>2. AcksHandled' /\ TasksHandled' /\ NoMessageLost'
    BY <1>7, SameOwners DEF HandleAttachment, AcksHandled, TasksHandled, NoMessageLost,
       TypeOK, Task
  <2>3. QED
    BY <1>0, <2>1, <2>2
<1>8. ASSUME NEW s \in Sessions, NEW i \in Ids, AttachmentFails(s, i)
      PROVE  PickupInv'
  <2>1. BatchesHandled'
    BY <1>8 DEF AttachmentFails, BatchesHandled, TypeOK, Batch
  <2>2. AcksHandled' /\ TasksHandled' /\ NoMessageLost'
    BY <1>8, SameOwners DEF AttachmentFails, AcksHandled, TasksHandled, NoMessageLost,
       TypeOK, Task
  <2>3. QED
    BY <1>0, <2>1, <2>2
<1>9. ASSUME NEW s \in Sessions, DeliveryDone(s) PROVE PickupInv'
  <2>1. ~batch[s].failed =>
          \A i \in batch[s].ids : <<DidAt[s], i>> \in handled
    BY <1>9 DEF DeliveryDone, BatchesHandled
  <2>2. AcksHandled'
    <3> SUFFICES ASSUME NEW ack \in acks', NEW i \in ack.ids
                 PROVE  <<ack.from, i>> \in handled
      BY <1>9 DEF DeliveryDone, AcksHandled
    <3>1. CASE ack \in acks
      BY <3>1 DEF AcksHandled
    <3>2. CASE ack \notin acks
      <4>1. /\ ~batch[s].failed
            /\ ack = [from |-> DidAt[s], ids |-> batch[s].ids]
        BY <1>9, <3>2 DEF DeliveryDone
      <4>2. QED
        BY <2>1, <4>1
    <3>3. QED
      BY <3>1, <3>2
  <2>3. BatchesHandled'
    BY <1>9 DEF DeliveryDone, NoBatch, BatchesHandled, TypeOK, Batch
  <2>4. TasksHandled' /\ NoMessageLost'
    BY <1>9, SameOwners DEF DeliveryDone, TasksHandled, NoMessageLost, TypeOK, Task
  <2>5. QED
    BY <1>0, <2>2, <2>3, <2>4
<1>10. ASSUME NEW ack \in acks, LoseAck(ack) PROVE PickupInv'
  BY <1>0, <1>10, SameOwners
     DEF LoseAck, BatchesHandled, AcksHandled, TasksHandled, NoMessageLost, TypeOK, Task
<1>11. CASE RestartMediator
  <2>1. TasksHandled'
    BY <1>11 DEF RestartMediator, NoTask, TasksHandled
  <2>2. BatchesHandled' /\ AcksHandled' /\ NoMessageLost'
    BY <1>11, SameOwners DEF RestartMediator, BatchesHandled, AcksHandled, NoMessageLost
  <2>3. QED
    BY <1>0, <2>1, <2>2
<1>12. ASSUME NEW s \in Sessions, EndSession(s) PROVE PickupInv'
  <2>1. BatchesHandled'
    BY <1>12 DEF EndSession, NoBatch, BatchesHandled, TypeOK, Batch
  <2>2. AcksHandled' /\ TasksHandled' /\ NoMessageLost'
    BY <1>12, SameOwners DEF EndSession, AcksHandled, TasksHandled, NoMessageLost,
       TypeOK, Task
  <2>3. QED
    BY <1>0, <2>1, <2>2
<1>13. CASE UNCHANGED vars
  BY <1>0, <1>13, SameOwners
     DEF vars, BatchesHandled, AcksHandled, TasksHandled, NoMessageLost, TypeOK, Task
<1>14. QED
  BY <1>1, <1>2, <1>3, <1>4, <1>5, <1>6, <1>7, <1>8, <1>9, <1>10, <1>11,
     <1>12, <1>13 DEF Next, Poll, Acknowledge, Recipient

\* The inductive invariant holds in every reachable state.
LEMMA PickupInvariant == Spec => []PickupInv
<1>1. Init => PickupInv
  <2> SUFFICES ASSUME Init PROVE PickupInv
    OBVIOUS
  <2>1. TypeOK
    BY InitTypeOK
  <2>2. BatchesHandled /\ AcksHandled /\ TasksHandled /\ NoMessageLost
    BY DEF Init, NoBatch, NoTask, BatchesHandled, AcksHandled, TasksHandled,
       NoMessageLost, Ids
  <2>3. QED
    BY <2>1, <2>2 DEF PickupInv
<1>2. QED
  BY <1>1, PickupStep, PTL DEF Spec

(***************************************************************************)
(* No message is lost: an entry that has left the mediator's data store    *)
(* has been handled by the agent of the DID it is addressed to.            *)
(***************************************************************************)
THEOREM MailboxSafety == Spec => []NoMessageLost
<1>1. PickupInv => NoMessageLost
  BY DEF PickupInv
<1>2. QED
  BY <1>1, PickupInvariant, PTL

\* A step of the handlers is a step of the mailbox or leaves it alone.
LEMMA MailboxStep == PickupInv /\ [Next]_vars => [Mbx!Next]_Mbx!mailboxVars
<1> DEFINE owners == [i \in Ids |-> Owner(i)]
<1> SUFFICES ASSUME PickupInv, [Next]_vars
             PROVE  Mbx!Next \/ UNCHANGED <<owners, queue, handled>>
  BY DEF Mbx!mailboxVars
<1>0. TypeOK /\ Len(owners) = Len(log) /\ Mbx!Items = Ids
  <2>1. owners \in Seq(DIDs) /\ DOMAIN owners = 1 .. Len(log)
    BY OwnerType DEF PickupInv, TypeOK, Ids
  <2>2. Len(owners) = Len(log)
    BY <2>1 DEF PickupInv, TypeOK
  <2>3. QED
    BY <2>2 DEF PickupInv, Mbx!Items, Ids
<1>1. ASSUME UNCHANGED log PROVE owners' = owners
  BY <1>1, SameOwners
<1>2. ASSUME NEW k \in Kids, NEW raw \in Raws, SaveQueued(k, raw)
      PROVE  Mbx!Accept(DidOf[k])
  <2>0. PICK n \in Nat : n = Len(log) + 1
    BY <1>0 DEF TypeOK
  <2>1. /\ Ids' = Ids \union {n}
        /\ \A i \in Ids : Owner(i)' = Owner(i)
        /\ Owner(n)' = DidOf[k]
    BY <1>0, <1>2, <2>0, LogGrows DEF SaveQueued, Owner
  <2>2. /\ owners \in Seq(DIDs)
        /\ DidOf[k] \in DIDs
    BY <1>0, OwnerType, KeysAssumption DEF TypeOK, Ids, KeysAssumption
  <2>3. owners' = Append(owners, DidOf[k])
    <3>1. Append(owners, DidOf[k]) =
            [i \in 1 .. n |-> IF i = n THEN DidOf[k] ELSE owners[i]]
      BY <1>0, <2>0, <2>2
    <3>2. 1 .. n = Ids \union {n} /\ n \notin Ids
      BY <1>0, <2>0 DEF TypeOK, Ids
    <3>3. owners' = [i \in Ids \union {n} |-> IF i = n THEN DidOf[k] ELSE Owner(i)]
      BY <2>1, <3>2
    <3>4. QED
      BY <3>1, <3>2, <3>3
  <2>4. queue' = queue \union {Len(owners) + 1} /\ UNCHANGED handled
    BY <1>0, <1>2 DEF SaveQueued
  <2>5. QED
    BY <2>3, <2>4 DEF Mbx!Accept
<1>3. ASSUME NEW w \in Workers, NEW i \in Ids, DeleteReceived(w, i)
      PROVE  Mbx!Discard(i) \/ UNCHANGED <<owners, queue, handled>>
  <2>1. <<owners[i], i>> \in handled
    BY <1>3 DEF DeleteReceived, PickupInv, TasksHandled
  <2>2. QED
    BY <1>1, <1>3, <2>1 DEF DeleteReceived, Mbx!Discard
<1>4. ASSUME NEW s \in Sessions, NEW i \in Ids, HandleAttachment(s, i)
      PROVE  Mbx!See(DidAt[s], i)
  BY <1>0, <1>1, <1>4 DEF HandleAttachment, Mbx!See
<1>5. ASSUME UNCHANGED <<log, queue, handled>>
      PROVE  UNCHANGED <<owners, queue, handled>>
  BY <1>1, <1>5
<1>6. QED
  <2>1. \A k \in Kids : DidOf[k] \in DIDs
    BY KeysAssumption DEF KeysAssumption
  <2>2. \A s \in Sessions : DidAt[s] \in DIDs
    BY KeysAssumption DEF KeysAssumption
  <2>3. ASSUME NEW k \in Kids, NEW raw \in Raws, SaveQueued(k, raw) PROVE Mbx!Next
    BY <1>2, <2>1, <2>3 DEF Mbx!Next
  <2>4. ASSUME NEW w \in Workers, NEW i \in Ids, DeleteReceived(w, i)
        PROVE  Mbx!Next \/ UNCHANGED <<owners, queue, handled>>
    <3>1. CASE Mbx!Discard(i)
      BY <3>1 DEF Mbx!Next, Mbx!Discard
    <3>2. QED
      BY <1>3, <2>4, <3>1
  <2>5. ASSUME NEW s \in Sessions, NEW i \in Ids, HandleAttachment(s, i)
        PROVE  Mbx!Next
    <3>1. Mbx!See(DidAt[s], i) /\ DidAt[s] \in DIDs /\ i \in Mbx!Items
      BY <1>0, <1>4, <2>2, <2>5
    <3>2. QED
      BY <3>1 DEF Mbx!Next
  <2>6. \/ \E k \in Kids, raw \in Raws : SaveQueued(k, raw)
        \/ \E w \in Workers, i \in Ids : DeleteReceived(w, i)
        \/ \E s \in Sessions, i \in Ids : HandleAttachment(s, i)
        \/ UNCHANGED <<log, queue, handled>>
    BY DEF Next, Poll, Acknowledge, Recipient, vars, DeliveryRequest,
       MessagesReceived, LookUpReceived, ReceivedDone, AttachmentFails,
       DeliveryDone, LoseAck, RestartMediator, EndSession
  <2>7. QED
    BY <1>5, <2>3, <2>4, <2>5, <2>6

(***************************************************************************)
(* The handlers of both sides, with losses, repetitions and restarts,      *)
(* implement the abstract mailbox.                                         *)
(***************************************************************************)
THEOREM MailboxRefinement == Spec => ImplementsMailbox
<1>1. Init => Mbx!Init
  BY DEF Init, Mbx!Init, Ids
<1>2. QED
  BY <1>1, MailboxStep, PickupInvariant, PTL DEF Spec, ImplementsMailbox, Mbx!Spec


------------------------------------------------------------------------------
(* Profiles and discovery (Profiles): a profile that is returned is whole, *)
(* and whoever deserves all the while to be found is found.                *)

Everyone == Managed \cup Unmanaged
Searches == [at: 1 .. 6, query: Lookups, matches: SUBSET Everyone,
             results: SUBSET ({"alias", "data-store"} \X Everyone),
             errors: SUBSET {"data-store"}, hidden: SUBSET {"alias"},
             ever: SUBSET (Prof!Reasons \X Everyone), always: SUBSET (Prof!Reasons \X Everyone)]

Now == Prof!Deserved(search.query, aliasOf, savedCreds)
EverFound == {Prof!Result(r) : r \in search.ever}

\* What a provider has read so far, of those who deserved it for this reason: the
\* alias provider reads once, the data store's four times.
ReadSoFar(why, d) ==
    /\ why = "is alias" /\ search.at > 1 => <<"alias", d>> \in search.results \/ "alias" \in search.hidden
    /\ why = "in name" /\ search.at \in 3 .. 5 => d \in search.matches
    /\ why = "in DID" /\ search.at = 5 => d \in search.matches
    /\ why # "is alias" /\ search.at = 6 => <<"data-store", d>> \in search.results \/ "data-store" \in search.errors

SearchOK ==
    search # Prof!NoSearch =>
        /\ search \in Searches
        /\ search.always \subseteq Now /\ Now \subseteq search.ever
        /\ search.results \subseteq EverFound
        /\ \A d \in search.matches : <<"data-store", d>> \in EverFound
        /\ search.at = 1 => search.matches = {}
        /\ \A r \in search.always : ReadSoFar(r[1], r[2])

StoreOK ==
    /\ DOMAIN aliasOf \subseteq Everyone
    /\ \A c \in savedCreds : c.subject \in DOMAIN aliasOf
    /\ profiles \in 0 .. MaxProfiles /\ profileChanges \in 0 .. MaxProfileChanges /\ mishaps \in 0 .. MaxMishaps

Presentable(o) == {Prof!Credential(o, part) : part \in Prof!PartNames}
Stages == {"issue", "present", "send", "post", "handle", "returned", "thrown"}
HasReceived == [to |-> profile.asked.verifier, credentials |-> Prof!Presented(profile.credentials)] \in posted

\* The parts of the profile under way, and whether its verifier has it
ProfileOK ==
    profile # Prof!NoProfile =>
        LET o == profile.asked
            parts == Prof!Given(o)
        IN /\ profile \in [stage: Stages, asked: Wishes, credentials: Seq(Presentable(o))]
           /\ o.holder \in Managed
           /\ Len(profile.credentials) <= Len(parts)
           /\ \A i \in DOMAIN profile.credentials : profile.credentials[i] = Prof!Credential(o, parts[i])
           /\ profile.stage \notin {"issue", "thrown"} => Len(profile.credentials) = Len(parts)
           /\ profile.stage = "handle" => HasReceived
           /\ profile.stage = "returned" /\ o.send /\ o.verifier # "nobody" => HasReceived

ProfInv == StoreOK /\ SearchOK /\ ProfileOK

\* The parts of a profile are those that were given.
LEMMA GivenParts ==
  ASSUME NEW o, DOMAIN o.claims \subseteq Prof!PartNames
  PROVE  /\ Prof!Given(o) \in Seq(Prof!PartNames)
         /\ Elements(Prof!Given(o)) = DOMAIN o.claims
<1>1. Prof!Parts \in Seq(Prof!PartNames) /\ Elements(Prof!Parts) = Prof!PartNames
  BY DEF Prof!Parts, Prof!PartNames, Elements
<1>2. \A s, gone : Prof!Without(s, gone) = Without(s, gone)
  BY DEF Prof!Without, Without
<1> HIDE DEF Prof!Parts, Prof!PartNames
<1>3. /\ Without(Prof!Parts, Prof!PartNames \ DOMAIN o.claims) \in Seq(Prof!PartNames)
      /\ Elements(Without(Prof!Parts, Prof!PartNames \ DOMAIN o.claims))
            = Prof!PartNames \ (Prof!PartNames \ DOMAIN o.claims)
  BY <1>1, WithoutElements
<1>4. Prof!Given(o) = Without(Prof!Parts, Prof!PartNames \ DOMAIN o.claims)
  BY <1>2 DEF Prof!Given
<1>5. QED BY <1>3, <1>4

\* Changing the data store leaves a search sound.
LEMMA StoreKeepsSearch ==
  ASSUME SearchOK, NEW aliases, NEW creds, Prof!Store(aliases, creds), DOMAIN aliases \subseteq Everyone
  PROVE  SearchOK'
<1>1. CASE search = Prof!NoSearch
  BY <1>1 DEF Prof!Store, SearchOK
<1>2. CASE search # Prof!NoSearch
  <2> DEFINE now == Prof!Deserved(search.query, aliases, creds)
  <2>1. search' = [search EXCEPT !.ever = @ \union now, !.always = @ \cap now]
    BY <1>2 DEF Prof!Store
  <2>2. now \subseteq Prof!Reasons \X Everyone
    BY DEF Prof!Deserved
  <2>3. search \in Searches
    BY <1>2 DEF SearchOK
  <2>4. Now' = now
    BY <2>1, <2>3 DEF Now, Prof!Store, Prof!Deserved, Prof!Deserves, Searches
  <2> HIDE DEF now
  <2>5. /\ search' \in Searches
        /\ search'.at = search.at /\ search'.matches = search.matches /\ search'.results = search.results
        /\ search'.errors = search.errors /\ search'.hidden = search.hidden
        /\ search'.ever = search.ever \union now /\ search'.always = search.always \cap now
    BY <2>1, <2>2, <2>3 DEF Searches
  <2>6. EverFound \subseteq EverFound'
    BY <2>5 DEF EverFound
  <2>7. \A r \in search'.always : ReadSoFar(r[1], r[2])'
    <3>1. \A r \in search.always : ReadSoFar(r[1], r[2])
      BY <1>2 DEF SearchOK
    <3>2. QED BY <2>5, <3>1 DEF ReadSoFar
  <2>8. QED BY <1>2, <2>4, <2>5, <2>6, <2>7 DEF SearchOK
<1>3. QED BY <1>1, <1>2

\* Who deserves to be found for a reason
For(why, due) == {d \in Everyone : <<why, d>> \in due}

\* A read finds whoever deserves it then, for the reason that it looks for.
FindsThose(at, found, due) ==
    /\ at = 1 => found = For("is alias", due)
    /\ at = 2 => found = For("in name", due)
    /\ at = 3 => found \subseteq For("in DID", due)
    /\ at = 4 => found = For("in DID", due)
    /\ at = 5 => found = For("in alias", due)

LEMMA FoundDeserve ==
  ASSUME StoreOK, NEW at \in 1 .. 5, NEW q
  PROVE  FindsThose(at, Prof!Found(at, q), Prof!Deserved(q, aliasOf, savedCreds))
<1> DEFINE found == Prof!Found(at, q)
           due == Prof!Deserved(q, aliasOf, savedCreds)
<1> DEFINE Names(c) == Prof!NameOfProfile(c) /\ <<q, c.claims.name>> \in Like
<1>1. \A why \in Prof!Reasons : \A d : <<why, d>> \in due <=>
          d \in DOMAIN aliasOf /\ Prof!Deserves(why, d, q, aliasOf, savedCreds)
  BY DEF Prof!Deserved
<1> HIDE DEF due
<1>2. {"is alias", "in DID", "in alias", "in name"} = Prof!Reasons
  BY DEF Prof!Reasons
<1>3. \A d : <<"is alias", d>> \in due <=> d \in DOMAIN aliasOf /\ aliasOf[d] = q
  BY <1>1, <1>2 DEF Prof!Deserves
<1>4. \A d : <<"in DID", d>> \in due <=> d \in DOMAIN aliasOf /\ <<q, d>> \in Like
  BY <1>1, <1>2 DEF Prof!Deserves
<1>5. \A d : <<"in alias", d>> \in due <=> d \in DOMAIN aliasOf /\ <<q, aliasOf[d]>> \in Like
  BY <1>1, <1>2 DEF Prof!Deserves
<1>6. \A d : <<"in name", d>> \in due <=> d \in DOMAIN aliasOf /\ \E c \in savedCreds : c.subject = d /\ Names(c)
  BY <1>1, <1>2 DEF Prof!Deserves
<1> HIDE DEF Names
<1>7. \A c \in savedCreds : c.subject \in DOMAIN aliasOf
  BY DEF StoreOK
<1>8. DOMAIN aliasOf \subseteq Everyone
  BY DEF StoreOK
<1>9. ASSUME at = 1 PROVE found = For("is alias", due)
  <2>1. found = {d \in DOMAIN aliasOf : aliasOf[d] = q}
    BY <1>9 DEF Prof!Found
  <2>2. QED BY <1>3, <1>8, <2>1 DEF For
<1>10. ASSUME at = 2 PROVE found = For("in name", due)
  <2>1. found = {c.subject : c \in {c \in savedCreds : Names(c)}}
    BY <1>10 DEF Prof!Found, Names
  <2>2. QED BY <1>6, <1>7, <1>8, <2>1 DEF For
<1>11. ASSUME at = 3 PROVE found \subseteq For("in DID", due)
  <2>1. found = {c.subject : c \in {c \in savedCreds : Prof!NameOfProfile(c) /\ <<q, c.subject>> \in Like}}
    BY <1>11 DEF Prof!Found
  <2>2. QED BY <1>4, <1>7, <1>8, <2>1 DEF For
<1>12. ASSUME at = 4 PROVE found = For("in DID", due)
  <2>1. found = {d \in DOMAIN aliasOf : <<q, d>> \in Like}
    BY <1>12 DEF Prof!Found
  <2>2. QED BY <1>4, <1>8, <2>1 DEF For
<1>13. ASSUME at = 5 PROVE found = For("in alias", due)
  <2>1. found = {d \in DOMAIN aliasOf : <<q, aliasOf[d]>> \in Like}
    BY <1>13 DEF Prof!Found
  <2>2. QED BY <1>5, <1>8, <2>1 DEF For
<1> HIDE DEF found
<1>14. FindsThose(at, found, due)
  BY <1>9, <1>10, <1>11, <1>12, <1>13 DEF FindsThose
<1>15. QED BY <1>14 DEF found, due

\* What a read finds may be among the results.
LEMMA FoundBelongs ==
  ASSUME StoreOK, SearchOK, search # Prof!NoSearch, search.at \in 1 .. 5,
         NEW found, found = Prof!Found(search.at, search.query)
  PROVE  /\ found \subseteq Everyone
         /\ \A d \in found : <<Prof!ProviderOf(search.at), d>> \in EverFound
<1>1. Now \subseteq search.ever
  BY DEF SearchOK
<1>2. /\ \A d \in For("is alias", Now) : <<"alias", d>> \in EverFound
      /\ \A d \in For("in name", Now) \cup For("in DID", Now) \cup For("in alias", Now) :
            <<"data-store", d>> \in EverFound
  <2>1. \A why, d : <<why, d>> \in Now => Prof!Result(<<why, d>>) \in EverFound
    BY <1>1 DEF EverFound
  <2>2. \A d : Prof!Result(<<"is alias", d>>) = <<"alias", d>>
    BY DEF Prof!Result
  <2>3. \A d : /\ Prof!Result(<<"in name", d>>) = <<"data-store", d>>
                /\ Prof!Result(<<"in DID", d>>) = <<"data-store", d>>
                /\ Prof!Result(<<"in alias", d>>) = <<"data-store", d>>
    BY DEF Prof!Result
  <2>4. QED BY <2>1, <2>2, <2>3 DEF For
<1>3. /\ search.at = 1 => found = For("is alias", Now)
      /\ search.at = 2 => found = For("in name", Now)
      /\ search.at = 3 => found \subseteq For("in DID", Now)
      /\ search.at = 4 => found = For("in DID", Now)
      /\ search.at = 5 => found = For("in alias", Now)
  <2>1. FindsThose(search.at, found, Now)
    BY FoundDeserve DEF Now
  <2>2. QED BY <2>1 DEF FindsThose
<1>4. Prof!ProviderOf(search.at) = IF search.at = 1 THEN "alias" ELSE "data-store"
  BY DEF Prof!ProviderOf
<1>5. For("is alias", Now) \cup For("in name", Now) \cup For("in DID", Now) \cup For("in alias", Now)
        \subseteq Everyone
  BY DEF For
<1> DEFINE a == For("is alias", Now)
           n == For("in name", Now)
           i == For("in DID", Now)
           l == For("in alias", Now)
<1>6. CASE search.at = 1
  <2>1. found = a
    BY <1>3, <1>6
  <2>2. QED BY <1>2, <1>4, <1>5, <1>6, <2>1
<1>7. CASE search.at # 1
  <2>1. found \subseteq n \cup i \cup l
    <3>1. search.at = 2 \/ search.at = 3 \/ search.at = 4 \/ search.at = 5
      BY <1>7
    <3>2. QED BY <1>3, <3>1
  <2> HIDE DEF n, i, l
  <2>2. QED BY <1>2, <1>4, <1>5, <1>7, <2>1 DEF n, i, l
<1>8. QED BY <1>6, <1>7

\* A search goes on.
LEMMA ReadKeeps ==
  ASSUME StoreOK, SearchOK, Prof!Read
  PROVE  SearchOK'
<1> DEFINE at == search.at
           found == Prof!Found(at, search.query)
           dids == search.matches \union found
           provider == Prof!ProviderOf(at)
<1>1. at \in 1 .. 5 /\ search # Prof!NoSearch /\ UNCHANGED <<aliasOf, savedCreds>>
  BY DEF Prof!Read, Prof!Reads, Prof!NoSearch
<1>2. /\ search \in Searches
      /\ search.always \subseteq Now /\ Now \subseteq search.ever
      /\ search.results \subseteq EverFound
      /\ \A d \in search.matches : <<"data-store", d>> \in EverFound
      /\ search.at = 1 => search.matches = {}
      /\ \A r \in search.always : ReadSoFar(r[1], r[2])
  BY <1>1 DEF SearchOK
<1>3. found \subseteq Everyone /\ \A d \in found : <<provider, d>> \in EverFound
  BY <1>1, FoundBelongs
<1>4. provider = IF at = 1 THEN "alias" ELSE "data-store"
  BY DEF Prof!ProviderOf
<1>5. /\ at = 1 => For("is alias", Now) \subseteq found
      /\ at = 2 => For("in name", Now) \subseteq found
      /\ at = 4 => For("in DID", Now) \subseteq found
      /\ at = 5 => For("in alias", Now) \subseteq found
  <2>1. FindsThose(at, found, Now)
    BY <1>1, FoundDeserve DEF Now
  <2>2. QED BY <2>1 DEF FindsThose
<1>6. search' = IF at \in {1, 5}
                THEN [search EXCEPT !.at = at + 1, !.matches = {}, !.results = @ \union ({provider} \X dids)]
                ELSE [search EXCEPT !.at = at + 1, !.matches = dids]
  BY DEF Prof!Read
<1> HIDE DEF found, provider
<1>7. /\ search'.at = at + 1 /\ search'.query = search.query
      /\ search'.matches = IF at \in {1, 5} THEN {} ELSE dids
      /\ search'.results = IF at \in {1, 5} THEN search.results \union ({provider} \X dids) ELSE search.results
      /\ search'.errors = search.errors /\ search'.hidden = search.hidden
      /\ search'.ever = search.ever /\ search'.always = search.always
  BY <1>2, <1>6 DEF Searches
<1>8. Now' = Now /\ EverFound' = EverFound
  BY <1>1, <1>7 DEF Now, EverFound, Prof!Deserved, Prof!Deserves
<1>9. dids \subseteq Everyone /\ \A d \in dids : <<provider, d>> \in EverFound
  BY <1>2, <1>3, <1>4 DEF Searches
<1> HIDE DEF dids
<1>10. search' \in Searches
  <2>1. {provider} \X dids \subseteq {"alias", "data-store"} \X Everyone
    BY <1>4, <1>9
  <2>2. at + 1 \in 1 .. 6 /\ {} \in SUBSET Everyone /\ dids \in SUBSET Everyone
    BY <1>1, <1>9
  <2>3. search.results \union ({provider} \X dids) \in SUBSET ({"alias", "data-store"} \X Everyone)
    BY <1>2, <2>1 DEF Searches
  <2>4. QED BY <1>2, <1>6, <2>2, <2>3 DEF Searches
<1>11. search'.results \subseteq EverFound
  BY <1>2, <1>7, <1>9
<1>12. \A d \in search'.matches : <<"data-store", d>> \in EverFound
  BY <1>4, <1>7, <1>9
<1>13. search'.at = 1 => search'.matches = {}
  BY <1>1, <1>7
<1>14. \A r \in search'.always : ReadSoFar(r[1], r[2])'
  <2> SUFFICES ASSUME NEW why, NEW d, <<why, d>> \in search.always
               PROVE  ReadSoFar(why, d)'
    <3>1. \A r \in search.always : r = <<r[1], r[2]>>
      BY <1>2 DEF Searches
    <3>2. QED BY <1>7, <3>1
  <2>1. ReadSoFar(why, d) /\ why \in Prof!Reasons /\ <<why, d>> \in Now /\ d \in Everyone
    BY <1>2 DEF Searches
  <2>2. d \in For(why, Now)
    BY <2>1 DEF For
  <2>3. /\ why = "is alias" /\ at = 1 => d \in found
        /\ why = "in name" /\ at = 2 => d \in found
        /\ why = "in DID" /\ at = 4 => d \in found
        /\ why = "in alias" /\ at = 5 => d \in found
    BY <1>5, <2>2
  <2>4. /\ why = "is alias" /\ at > 1 => <<"alias", d>> \in search.results \/ "alias" \in search.hidden
        /\ why = "in name" /\ at \in 3 .. 5 => d \in search.matches
        /\ why = "in DID" /\ at = 5 => d \in search.matches
    BY <2>1 DEF ReadSoFar
  <2>5. /\ d \in search.matches \cup found => d \in dids
        /\ search.results \subseteq search'.results
        /\ d \in dids /\ (at = 1 \/ at = 5) => <<provider, d>> \in search'.results
        /\ d \in dids /\ at # 1 /\ at # 5 => d \in search'.matches
    <3>1. d \in search.matches \cup found => d \in dids
      BY DEF dids
    <3>2. CASE at = 1 \/ at = 5
      <4>1. search'.results = search.results \union ({provider} \X dids)
        BY <1>7, <3>2
      <4>2. QED BY <3>1, <3>2, <4>1
    <3>3. CASE at # 1 /\ at # 5
      <4>1. search'.results = search.results /\ search'.matches = dids
        BY <1>7, <3>3
      <4>2. QED BY <3>1, <3>3, <4>1
    <3>4. QED BY <3>2, <3>3
  <2>0. /\ at \in 3 .. 5 \/ at = 1 \/ at = 2
        /\ at + 1 \in 3 .. 5 => at # 1 /\ at # 5
        /\ at + 1 = 5 => at = 4 /\ at # 1 /\ at # 5
        /\ at + 1 = 6 => at = 5 /\ at \in 3 .. 5 /\ at # 1
    <3>1. at \in 1 .. 5
      BY <1>1
    <3> HIDE DEF at
    <3>2. QED BY <3>1
  <2>6. why = "is alias" \/ why = "in DID" \/ why = "in alias" \/ why = "in name"
    BY <2>1 DEF Prof!Reasons
  <2>7. ASSUME why = "is alias" PROVE <<"alias", d>> \in search'.results \/ "alias" \in search'.hidden
    <3>1. CASE at = 1
      BY <1>4, <2>3, <2>5, <2>7, <3>1
    <3>2. CASE at # 1
      <4>1. at > 1
        BY <1>1, <3>2
      <4>2. <<"alias", d>> \in search.results \/ "alias" \in search.hidden
        BY <2>4, <2>7, <4>1
      <4>3. QED BY <1>7, <2>5, <4>2
    <3>3. QED BY <3>1, <3>2
  <2>8. ASSUME why = "in name", at + 1 \in 3 .. 5 PROVE d \in search'.matches
    <3>1. at # 1 /\ at # 5 /\ (at = 2 \/ at \in 3 .. 5)
      BY <2>0, <2>8
    <3>2. QED BY <2>3, <2>4, <2>5, <2>8, <3>1
  <2>9. ASSUME why = "in DID", at + 1 = 5 PROVE d \in search'.matches
    <3>1. at = 4 /\ at # 1 /\ at # 5
      BY <2>0, <2>9
    <3>2. QED BY <2>3, <2>5, <2>9, <3>1
  <2>10. ASSUME why # "is alias", at + 1 = 6 PROVE <<"data-store", d>> \in search'.results
    <3>1. at = 5 /\ at \in 3 .. 5 /\ at # 1
      BY <2>0, <2>10
    <3>2. d \in search.matches \cup found
      <4>1. why = "in DID" \/ why = "in alias" \/ why = "in name"
        BY <2>6, <2>10
      <4>2. QED BY <2>3, <2>4, <3>1, <4>1
    <3>3. provider = "data-store"
      BY <1>4, <3>1
    <3>4. QED BY <2>5, <3>1, <3>2, <3>3
  <2>11. search'.at = at + 1
    BY <1>7
  <2> HIDE DEF at
  <2>12. QED BY <2>7, <2>8, <2>9, <2>10, <2>11 DEF ReadSoFar
<1>15. QED BY <1>2, <1>7, <1>8, <1>10, <1>11, <1>12, <1>13, <1>14 DEF SearchOK
LEMMA ReadThrowsKeeps ==
  ASSUME StoreOK, SearchOK, Prof!ReadThrows
  PROVE  SearchOK'
<1> DEFINE at == search.at
<1>1. at \in 1 .. 5 /\ search # Prof!NoSearch /\ UNCHANGED <<aliasOf, savedCreds>>
  BY DEF Prof!ReadThrows, Prof!Reads, Prof!NoSearch
<1>2. /\ search \in Searches
      /\ search.always \subseteq Now /\ Now \subseteq search.ever
      /\ search.results \subseteq EverFound
      /\ \A r \in search.always : ReadSoFar(r[1], r[2])
  BY <1>1 DEF SearchOK
<1>3. Prof!AfterError(at) = IF at = 1 THEN 2 ELSE 6
  BY DEF Prof!AfterError
<1>4. CASE at = 1
  <2>1. search' = [search EXCEPT !.at = 2, !.matches = {}, !.hidden = {"alias"}]
    BY <1>2, <1>3, <1>4 DEF Prof!ReadThrows, Searches
  <2>2. /\ search' \in Searches
        /\ search'.at = 2 /\ search'.matches = {} /\ search'.query = search.query
        /\ search'.results = search.results /\ search'.hidden = {"alias"}
        /\ search'.ever = search.ever /\ search'.always = search.always
    <3>1. 2 \in 1 .. 6 /\ {} \in SUBSET Everyone
      OBVIOUS
    <3>2. QED BY <1>2, <2>1, <3>1 DEF Searches
  <2>3. Now' = Now /\ EverFound' = EverFound
    BY <1>1, <2>2 DEF Now, EverFound, Prof!Deserved, Prof!Deserves
  <2>4. \A r \in search'.always : ReadSoFar(r[1], r[2])'
    <3>1. /\ "alias" \in search'.hidden
          /\ search'.at \notin 3 .. 5 /\ search'.at # 5 /\ search'.at # 6
      BY <2>2
    <3>2. \A why, d : ReadSoFar(why, d)'
      BY <3>1 DEF ReadSoFar
    <3>3. QED BY <3>2
  <2>5. QED BY <1>2, <2>2, <2>3, <2>4 DEF SearchOK
<1>5. CASE at # 1
  <2>1. search' = [search EXCEPT !.at = 6, !.matches = {}, !.errors = {"data-store"}]
    BY <1>2, <1>3, <1>5 DEF Prof!ReadThrows, Searches
  <2>2. /\ search' \in Searches
        /\ search'.at = 6 /\ search'.matches = {} /\ search'.query = search.query
        /\ search'.results = search.results /\ search'.errors = {"data-store"} /\ search'.hidden = search.hidden
        /\ search'.ever = search.ever /\ search'.always = search.always
    <3>1. 6 \in 1 .. 6 /\ {} \in SUBSET Everyone
      OBVIOUS
    <3>2. QED BY <1>2, <2>1, <3>1 DEF Searches
  <2>3. Now' = Now /\ EverFound' = EverFound
    BY <1>1, <2>2 DEF Now, EverFound, Prof!Deserved, Prof!Deserves
  <2>4. \A r \in search'.always : ReadSoFar(r[1], r[2])'
    <3>1. search.at > 1
      BY <1>1, <1>5
    <3>2. \A r \in search.always :
             r[1] = "is alias" => <<"alias", r[2]>> \in search.results \/ "alias" \in search.hidden
      BY <1>2, <3>1 DEF ReadSoFar
    <3>3. /\ "data-store" \in search'.errors
          /\ search'.at \notin 3 .. 5 /\ search'.at # 5
      BY <2>2
    <3>4. \A r \in search.always :
             r[1] = "is alias" => <<"alias", r[2]>> \in search'.results \/ "alias" \in search'.hidden
      BY <2>2, <3>2
    <3>5. \A r \in search.always : ReadSoFar(r[1], r[2])'
      BY <3>3, <3>4 DEF ReadSoFar
    <3>6. QED BY <2>2, <3>5
  <2>5. QED BY <1>2, <2>2, <2>3, <2>4 DEF SearchOK
<1>6. QED BY <1>4, <1>5

LEMMA BeginSearchKeeps ==
  ASSUME StoreOK, NEW q \in Lookups, Prof!BeginSearch(q)
  PROVE  SearchOK'
<1> DEFINE now == Prof!Deserved(q, aliasOf, savedCreds)
<1>1. search' = [at |-> 1, query |-> q, matches |-> {}, results |-> {}, errors |-> {}, hidden |-> {},
                 ever |-> now, always |-> now]
  BY DEF Prof!BeginSearch
<1>2. now \subseteq Prof!Reasons \X Everyone
  BY DEF Prof!Deserved, StoreOK
<1>3. Now' = now
  <2>1. search'.query = q /\ aliasOf' = aliasOf /\ savedCreds' = savedCreds
    BY <1>1 DEF Prof!BeginSearch
  <2>2. QED BY <2>1 DEF Now, Prof!Deserved, Prof!Deserves
<1> HIDE DEF now
<1>4. search' \in Searches
  BY <1>1, <1>2 DEF Searches
<1>5. search'.at = 1 /\ search'.matches = {} /\ search'.results = {} /\ search'.ever = now /\ search'.always = now
  BY <1>1
<1>6. \A why, d : ReadSoFar(why, d)'
  BY <1>5 DEF ReadSoFar
<1>7. QED BY <1>3, <1>4, <1>5, <1>6 DEF SearchOK

\* Nothing that a search knows changes.
LEMMA IdleKeepsSearch ==
  ASSUME SearchOK, UNCHANGED <<aliasOf, savedCreds, search>>
  PROVE  SearchOK'
  BY DEF SearchOK, Now, EverFound, ReadSoFar, Prof!Deserved, Prof!Deserves

\* Saving credentials of the holder, and what else changes the data store
LEMMA SavedRows ==
  ASSUME StoreOK, NEW dids \in SUBSET Everyone, NEW creds, \A c \in creds : c.subject \in dids,
         aliasOf' = Prof!WithRows(dids), savedCreds' = savedCreds \union creds,
         UNCHANGED <<profiles, mishaps>>, profileChanges' \in 0 .. MaxProfileChanges
  PROVE  StoreOK'
<1>1. DOMAIN aliasOf' = DOMAIN aliasOf \union dids
  BY DEF Prof!WithRows
<1>2. QED BY <1>1 DEF StoreOK

LEMMA SavePresentedKeeps ==
  ASSUME StoreOK, SearchOK, ProfileOK, profile # Prof!NoProfile, Prof!SavePresented,
         UNCHANGED <<profiles, profileChanges, mishaps>>
  PROVE  StoreOK' /\ SearchOK'
<1> DEFINE o == profile.asked
           creds == Prof!Presented(profile.credentials)
<1>1. CASE ~o.save
  <2>1. UNCHANGED <<aliasOf, savedCreds, search>>
    BY <1>1 DEF Prof!SavePresented
  <2>2. QED BY <2>1, IdleKeepsSearch DEF StoreOK
<1>2. CASE o.save
  <2>1. Prof!Store(Prof!WithRows({o.holder}), savedCreds \union creds)
    BY <1>2 DEF Prof!SavePresented
  <2>2. {o.holder} \in SUBSET Everyone
    BY DEF ProfileOK, Everyone
  <2>3. \A c \in creds : c.subject \in {o.holder}
    <3>1. \A part : Prof!Credential(o, part).subject = o.holder
      BY DEF Prof!Credential
    <3>2. \A i \in DOMAIN profile.credentials : profile.credentials[i] = Prof!Credential(o, Prof!Given(o)[i])
      BY DEF ProfileOK
    <3>3. QED BY <3>1, <3>2 DEF Prof!Presented
  <2>4. StoreOK'
    BY <2>1, <2>2, <2>3, SavedRows DEF Prof!Store, StoreOK
  <2>5. DOMAIN Prof!WithRows({o.holder}) \subseteq Everyone
    BY <2>2 DEF Prof!WithRows, StoreOK
  <2>6. SearchOK'
    BY <2>1, <2>5, StoreKeepsSearch
  <2>7. QED BY <2>4, <2>6
<1>3. QED BY <1>1, <1>2
\* The parts of a profile, one credential after another
LEMMA IssueKeeps ==
  ASSUME Prof!ProfilesAssumption, ProfileOK, Prof!IssueCredential
  PROVE  ProfileOK'
<1> DEFINE o == profile.asked
           parts == Prof!Given(o)
           creds == profile.credentials
           S == Presentable(o)
<1>1. profile # Prof!NoProfile /\ profile.stage = "issue"
  BY DEF Prof!IssueCredential, Prof!NoProfile
<1>2. /\ profile \in [stage: Stages, asked: Wishes, credentials: Seq(S)]
      /\ o.holder \in Managed /\ o \in Wishes
      /\ Len(creds) <= Len(parts)
      /\ \A i \in DOMAIN creds : creds[i] = Prof!Credential(o, parts[i])
  BY <1>1 DEF ProfileOK
<1>3. parts \in Seq(Prof!PartNames)
  BY <1>2, GivenParts DEF Prof!ProfilesAssumption
<1>4. profile' = IF Len(creds) = Len(parts) THEN [profile EXCEPT !.stage = "present"]
                 ELSE [profile EXCEPT !.credentials = Append(@, Prof!Credential(o, parts[Len(creds) + 1]))]
  BY DEF Prof!IssueCredential
<1>5. creds \in Seq(S)
  BY <1>2
<1>6. CASE Len(creds) = Len(parts)
  <2>1. profile' = [profile EXCEPT !.stage = "present"]
    BY <1>4, <1>6
  <2>2. /\ profile' \in [stage: Stages, asked: Wishes, credentials: Seq(S)]
        /\ profile'.stage = "present" /\ profile'.asked = o /\ profile'.credentials = creds
    BY <1>2, <2>1 DEF Stages
  <2> HIDE DEF o, parts, creds, S
  <2>3. QED BY <1>2, <1>6, <2>2 DEF ProfileOK, parts, S
<1>7. CASE Len(creds) # Len(parts)
  <2> DEFINE n == Len(creds) + 1
             c == Prof!Credential(o, parts[n])
             more == Append(creds, c)
  <2>1. Len(creds) \in Nat /\ Len(parts) \in Nat /\ n \in DOMAIN parts
    BY <1>2, <1>3, <1>5, <1>7
  <2>2. c \in S
    BY <1>3, <2>1 DEF Presentable
  <2>3. profile' = [profile EXCEPT !.credentials = more]
    BY <1>4, <1>7
  <2> HIDE DEF creds, parts, S, c
  <2>4. /\ more \in Seq(S) /\ Len(more) = n
        /\ \A i \in DOMAIN more : (i \in DOMAIN creds /\ more[i] = creds[i]) \/ (i = n /\ more[i] = c)
    BY <1>5, <2>2
  <2>5. \A i \in DOMAIN more : more[i] = Prof!Credential(o, parts[i])
    BY <1>2, <2>4 DEF c
  <2>6. Len(more) <= Len(parts)
    BY <1>2, <1>7, <2>1, <2>4
  <2> HIDE DEF more, n
  <2>7. /\ profile' \in [stage: Stages, asked: Wishes, credentials: Seq(S)]
        /\ profile'.stage = "issue" /\ profile'.asked = o /\ profile'.credentials = more
    BY <1>1, <1>2, <2>3, <2>4
  <2> HIDE DEF o
  <2>8. QED BY <1>2, <2>5, <2>6, <2>7 DEF ProfileOK, parts, S
<1>8. QED BY <1>6, <1>7

\* A step of the profile that issues nothing goes on with what was issued.
LEMMA OnlyTheStageChanges ==
  ASSUME ProfileOK, profile # Prof!NoProfile, NEW stage \in Stages \ {"issue"},
         profile' = [profile EXCEPT !.stage = stage], posted \subseteq posted',
         profile.stage = "issue" => stage = "thrown", profile.stage = "thrown" => stage = "thrown",
         stage = "handle" => HasReceived',
         stage = "returned" => (profile.asked.send /\ profile.asked.verifier # "nobody" => HasReceived')
  PROVE  ProfileOK'
<1> DEFINE o == profile.asked
           creds == profile.credentials
<1>1. /\ profile \in [stage: Stages, asked: Wishes, credentials: Seq(Presentable(o))]
      /\ o.holder \in Managed
      /\ Len(creds) <= Len(Prof!Given(o))
      /\ \A i \in DOMAIN creds : creds[i] = Prof!Credential(o, Prof!Given(o)[i])
      /\ profile.stage \notin {"issue", "thrown"} => Len(creds) = Len(Prof!Given(o))
  BY DEF ProfileOK
<1>2. /\ profile' \in [stage: Stages, asked: Wishes, credentials: Seq(Presentable(o))]
      /\ profile'.stage = stage /\ profile'.asked = o /\ profile'.credentials = creds
  BY <1>1
<1> HIDE DEF o, creds
<1>3. stage # "thrown" => profile.stage \notin {"issue", "thrown"}
  OBVIOUS
<1>4. QED BY <1>1, <1>2, <1>3 DEF ProfileOK
LEMMA BeginProfileKeeps ==
  ASSUME Prof!ProfilesAssumption, ProfileOK, NEW o \in Wishes, Prof!BeginProfile(o)
  PROVE  ProfileOK'
<1>1. profile' = [stage |-> "issue", asked |-> o, credentials |-> <<>>] /\ o.holder \in Managed
  BY DEF Prof!BeginProfile
<1>2. /\ profile' \in [stage: Stages, asked: Wishes, credentials: Seq(Presentable(o))]
      /\ profile'.stage = "issue" /\ profile'.asked = o /\ profile'.credentials = <<>>
  BY <1>1 DEF Stages
<1>3. Len(<<>>) <= Len(Prof!Given(o)) /\ DOMAIN (profile'.credentials) = {}
  <2>1. Prof!Given(o) \in Seq(Prof!PartNames)
    BY GivenParts DEF Prof!ProfilesAssumption
  <2>2. QED BY <1>2, <2>1
<1>4. QED BY <1>1, <1>2, <1>3 DEF ProfileOK

LEMMA PresentKeeps ==
  ASSUME ProfInv, Prof!Present
  PROVE  ProfInv'
<1>1. profile # Prof!NoProfile /\ profile.stage = "present"
  BY DEF Prof!Present, Prof!NoProfile
<1> DEFINE stage == IF profile.asked.send /\ profile.asked.verifier # "nobody" THEN "send" ELSE "returned"
<1>2. StoreOK' /\ SearchOK'
  BY <1>1, SavePresentedKeeps DEF Prof!Present, ProfInv
<1>3. profile' = [profile EXCEPT !.stage = stage] /\ posted' = posted
  BY DEF Prof!Present
<1>4. /\ stage \in Stages \ {"issue"} /\ stage # "handle"
      /\ stage = "returned" => ~(profile.asked.send /\ profile.asked.verifier # "nobody")
  BY DEF Stages
<1> HIDE DEF stage
<1>5. ProfileOK'
  BY <1>1, <1>3, <1>4, OnlyTheStageChanges DEF ProfInv
<1>6. QED BY <1>2, <1>5 DEF ProfInv

LEMMA HandleOwnKeeps ==
  ASSUME ProfInv, Prof!HandleOwn
  PROVE  ProfInv'
<1>1. profile # Prof!NoProfile /\ profile.stage = "handle"
  BY DEF Prof!HandleOwn, Prof!NoProfile
<1>2. StoreOK' /\ SearchOK'
  BY <1>1, SavePresentedKeeps DEF Prof!HandleOwn, ProfInv
<1> DEFINE stage == "returned"
<1>3. profile' = [profile EXCEPT !.stage = stage] /\ posted' = posted
  BY DEF Prof!HandleOwn
<1>4. HasReceived' /\ stage \in Stages \ {"issue"} /\ stage # "handle"
  <2>1. HasReceived
    BY <1>1 DEF ProfInv, ProfileOK
  <2>2. profile'.asked = profile.asked /\ profile'.credentials = profile.credentials
    BY <1>1, <1>3 DEF ProfInv, ProfileOK
  <2>3. QED BY <1>3, <2>1, <2>2 DEF HasReceived, Stages
<1> HIDE DEF stage
<1>5. ProfileOK'
  BY <1>1, <1>3, <1>4, OnlyTheStageChanges DEF ProfInv
<1>6. QED BY <1>2, <1>5 DEF ProfInv

LEMMA PostKeeps ==
  ASSUME ProfInv, Prof!Post
  PROVE  ProfileOK'
<1> DEFINE message == [to |-> profile.asked.verifier, credentials |-> Prof!Presented(profile.credentials)]
<1>1. profile # Prof!NoProfile /\ profile.stage = "post"
  BY DEF Prof!Post, Prof!NoProfile
<1>2. PICK stage \in {"handle", "thrown"} :
         /\ profile' = [profile EXCEPT !.stage = stage] /\ posted \subseteq posted'
         /\ stage = "handle" => message \in posted'
  BY DEF Prof!Post, Prof!Answered
<1>3. profile'.asked = profile.asked /\ profile'.credentials = profile.credentials
  BY <1>1, <1>2 DEF ProfInv, ProfileOK
<1>4. stage = "handle" => HasReceived'
  BY <1>2, <1>3 DEF HasReceived
<1>5. stage \in Stages \ {"issue"} /\ stage # "returned"
  BY DEF Stages
<1>6. QED BY <1>1, <1>2, <1>4, <1>5, OnlyTheStageChanges DEF ProfInv

LEMMA OtherStages ==
  ASSUME ProfInv, Prof!FindEndpoint \/ Prof!ProfileThrows
  PROVE  ProfileOK'
<1>1. profile # Prof!NoProfile /\ profile.stage # "thrown"
  BY DEF Prof!FindEndpoint, Prof!ProfileThrows, Prof!NoProfile
<1>2. PICK stage \in {"post", "thrown"} :
         /\ profile' = [profile EXCEPT !.stage = stage] /\ posted' = posted
         /\ profile.stage = "issue" => stage = "thrown"
  <2>1. CASE Prof!FindEndpoint
    <3>1. profile.stage # "issue"
      BY <2>1 DEF Prof!FindEndpoint
    <3>2. QED BY <2>1, <3>1 DEF Prof!FindEndpoint
  <2>2. CASE Prof!ProfileThrows
    BY <2>2 DEF Prof!ProfileThrows
  <2>3. QED BY <2>1, <2>2
<1>3. stage \in Stages \ {"issue"} /\ stage # "returned" /\ stage # "handle"
  BY DEF Stages
<1>4. QED BY <1>1, <1>2, <1>3, OnlyTheStageChanges DEF ProfInv

LEMMA IdleKeepsProfile ==
  ASSUME ProfileOK, UNCHANGED <<profile, posted>>
  PROVE  ProfileOK'
  BY DEF ProfileOK, HasReceived

LEMMA MishapsAreBounded ==
  ASSUME Prof!ProfilesAssumption, StoreOK, mishaps' = mishaps \/ Prof!Mishap
  PROVE  mishaps' \in 0 .. MaxMishaps
  BY DEF Prof!Mishap, StoreOK, Prof!ProfilesAssumption

LEMMA ChangeKeeps ==
  ASSUME Prof!ProfilesAssumption, ProfInv,
         \/ \E d \in Managed, a \in ProfileAliases : Prof!SetAlias(d, a)
         \/ \E c \in Received : Prof!SaveReceived(c)
         \/ \E c \in savedCreds : Prof!DeleteCredential(c)
  PROVE  ProfInv'
<1>1. profileChanges' \in 0 .. MaxProfileChanges /\ UNCHANGED <<profile, posted, profiles, mishaps>>
  <2>1. Prof!Change
    BY DEF Prof!SetAlias, Prof!SaveReceived, Prof!DeleteCredential
  <2>2. QED BY <2>1 DEF Prof!Change, ProfInv, StoreOK, Prof!ProfilesAssumption
<1>2. ProfileOK'
  BY <1>1, IdleKeepsProfile DEF ProfInv
<1>3. PICK aliases, creds : /\ Prof!Store(aliases, creds)
                            /\ DOMAIN aliases \subseteq Everyone
                            /\ \A c \in creds : c.subject \in DOMAIN aliases
  <2>1. ASSUME NEW d \in Managed, NEW a \in ProfileAliases, Prof!SetAlias(d, a)
        PROVE  /\ Prof!Store([aliasOf EXCEPT ![d] = a], savedCreds)
               /\ DOMAIN [aliasOf EXCEPT ![d] = a] \subseteq Everyone
               /\ \A c \in savedCreds : c.subject \in DOMAIN [aliasOf EXCEPT ![d] = a]
    BY <2>1 DEF Prof!SetAlias, ProfInv, StoreOK
  <2>2. ASSUME NEW c \in Received, Prof!SaveReceived(c)
        PROVE  /\ Prof!Store(Prof!WithRows({c.subject}), savedCreds \union {c})
               /\ DOMAIN Prof!WithRows({c.subject}) \subseteq Everyone
               /\ \A x \in savedCreds \union {c} : x.subject \in DOMAIN Prof!WithRows({c.subject})
    BY <2>2 DEF Prof!SaveReceived, Prof!WithRows, ProfInv, StoreOK, Everyone, Prof!ProfilesAssumption
  <2>3. ASSUME NEW c \in savedCreds, Prof!DeleteCredential(c)
        PROVE  /\ Prof!Store(aliasOf, savedCreds \ {c})
               /\ DOMAIN aliasOf \subseteq Everyone
               /\ \A x \in savedCreds \ {c} : x.subject \in DOMAIN aliasOf
    BY <2>3 DEF Prof!DeleteCredential, ProfInv, StoreOK
  <2>4. QED BY <2>1, <2>2, <2>3
<1>4. SearchOK'
  BY <1>3, StoreKeepsSearch DEF ProfInv
<1>5. StoreOK'
  BY <1>1, <1>3 DEF ProfInv, StoreOK, Prof!Store
<1>6. QED BY <1>2, <1>4, <1>5 DEF ProfInv

LEMMA ProfInductive ==
  ASSUME Prof!ProfilesAssumption
  PROVE  Prof!Spec => []ProfInv
<1>1. ASSUME Prof!Init PROVE ProfInv
  BY <1>1 DEF Prof!Init, Prof!ProfilesAssumption, ProfInv, StoreOK, SearchOK, ProfileOK, Everyone
<1>2. ASSUME ProfInv, [Prof!Next]_(Prof!vars) PROVE ProfInv'
  <2>1. ASSUME NEW o \in Wishes, Prof!BeginProfile(o) PROVE ProfInv'
    <3>1. StoreOK'
      BY <1>2, <2>1 DEF Prof!BeginProfile, ProfInv, StoreOK, Prof!ProfilesAssumption
    <3>2. SearchOK'
      BY <1>2, <2>1, IdleKeepsSearch DEF Prof!BeginProfile, ProfInv
    <3>3. QED BY <1>2, <2>1, <3>1, <3>2, BeginProfileKeeps DEF ProfInv
  <2>2. ASSUME Prof!IssueCredential PROVE ProfInv'
    <3>1. StoreOK' /\ SearchOK'
      BY <1>2, <2>2, IdleKeepsSearch DEF Prof!IssueCredential, ProfInv, StoreOK
    <3>2. QED BY <1>2, <2>2, <3>1, IssueKeeps DEF ProfInv
  <2>3. ASSUME Prof!FindEndpoint \/ Prof!Post \/ Prof!ProfileThrows PROVE ProfInv'
    <3>1. UNCHANGED <<aliasOf, savedCreds, search, profiles, profileChanges>> /\ mishaps' \in 0 .. MaxMishaps
      <4>1. /\ UNCHANGED <<aliasOf, savedCreds, search, profiles, profileChanges>>
            /\ mishaps' = mishaps \/ Prof!Mishap
        BY <2>3 DEF Prof!FindEndpoint, Prof!Post, Prof!ProfileThrows
      <4>2. QED BY <1>2, <4>1, MishapsAreBounded DEF ProfInv
    <3>2. StoreOK' /\ SearchOK'
      BY <1>2, <3>1, IdleKeepsSearch DEF ProfInv, StoreOK
    <3>3. QED BY <1>2, <2>3, <3>2, PostKeeps, OtherStages DEF ProfInv
  <2>4. ASSUME NEW q \in Lookups, Prof!BeginSearch(q) PROVE ProfInv'
    <3>1. StoreOK' /\ UNCHANGED <<profile, posted>>
      BY <1>2, <2>4 DEF Prof!BeginSearch, ProfInv, StoreOK
    <3>2. QED BY <1>2, <2>4, <3>1, BeginSearchKeeps, IdleKeepsProfile DEF ProfInv
  <2>5. ASSUME Prof!Read \/ Prof!ReadThrows PROVE ProfInv'
    <3>1. UNCHANGED <<aliasOf, savedCreds, profile, posted, profiles, profileChanges>> /\ mishaps' \in 0 .. MaxMishaps
      <4>1. /\ UNCHANGED <<aliasOf, savedCreds, profile, posted, profiles, profileChanges>>
            /\ mishaps' = mishaps \/ Prof!Mishap
        BY <2>5 DEF Prof!Read, Prof!ReadThrows
      <4>2. QED BY <1>2, <4>1, MishapsAreBounded DEF ProfInv
    <3>2. StoreOK'
      BY <1>2, <3>1 DEF ProfInv, StoreOK
    <3>3. QED BY <1>2, <2>5, <3>1, <3>2, ReadKeeps, ReadThrowsKeeps, IdleKeepsProfile DEF ProfInv
  <2>6. ASSUME UNCHANGED Prof!vars PROVE ProfInv'
    BY <1>2, <2>6, IdleKeepsSearch, IdleKeepsProfile DEF Prof!vars, ProfInv, StoreOK
  <2>7. QED BY <1>2, <2>1, <2>2, <2>3, <2>4, <2>5, <2>6, PresentKeeps, HandleOwnKeeps, ChangeKeeps
              DEF Prof!Next, Prof!Profile
<1>3. QED BY <1>1, <1>2, PTL DEF Prof!Spec

(* The profile and the search under way stay of their type, and what is saved
   has an identifier: for any DIDs, profiles and changes of the data store. *)
THEOREM ProfilesTypeCorrect ==
  ASSUME Prof!ProfilesAssumption
  PROVE  Prof!Spec => []Prof!TypeOK
<1>1. ASSUME ProfInv PROVE Prof!TypeOK
  <2>1. profile.stage \in {"none", "issue", "present", "send", "post", "handle", "returned", "thrown"}
    BY <1>1 DEF ProfInv, ProfileOK, Prof!NoProfile, Stages
  <2>2. search.at \in 0 .. 6
    BY <1>1 DEF ProfInv, SearchOK, Prof!NoSearch, Searches
  <2>3. QED BY <1>1, <2>1, <2>2 DEF ProfInv, StoreOK, Prof!TypeOK, Everyone
<1>2. QED BY <1>1, ProfInductive, PTL

(* createProfilePresentation returns a profile that is whole and, if it was to be
   sent, received; for any arguments, verifiers, refusals and lost answers. *)
THEOREM ReturnedProfilesAreDone ==
  ASSUME Prof!ProfilesAssumption
  PROVE  Prof!Spec => []Prof!ReturnedIsDone
<1>1. ASSUME ProfInv, profile.stage = "returned"
      PROVE  /\ UNION {DOMAIN c.claims : c \in Prof!Presented(profile.credentials)} = DOMAIN profile.asked.claims
             /\ profile.asked.send /\ profile.asked.verifier # "nobody" => HasReceived
  <2> DEFINE o == profile.asked
             parts == Prof!Given(o)
             creds == profile.credentials
  <2>1. /\ Len(creds) = Len(parts)
        /\ \A i \in DOMAIN creds : creds[i] = Prof!Credential(o, parts[i])
        /\ o \in Wishes /\ creds \in Seq(Presentable(o))
        /\ o.send /\ o.verifier # "nobody" => HasReceived
    BY <1>1 DEF ProfInv, ProfileOK, Prof!NoProfile
  <2>2. parts \in Seq(Prof!PartNames) /\ Elements(parts) = DOMAIN o.claims
    BY <2>1, GivenParts DEF Prof!ProfilesAssumption
  <2>3. \A part : DOMAIN Prof!Credential(o, part).claims = {part}
    BY DEF Prof!Credential
  <2> HIDE DEF parts, creds
  <2>4. DOMAIN creds = DOMAIN parts
    BY <2>1, <2>2
  <2>5. \A i \in DOMAIN creds : DOMAIN creds[i].claims = {parts[i]}
    BY <2>1, <2>3
  <2>6. UNION {DOMAIN c.claims : c \in Prof!Presented(creds)} = Elements(parts)
    BY <2>4, <2>5 DEF Prof!Presented, Elements
  <2>7. QED BY <2>1, <2>2, <2>6 DEF creds
<1>2. ASSUME ProfInv PROVE Prof!ReturnedIsDone
  BY <1>1, <1>2 DEF Prof!ReturnedIsDone, HasReceived
<1>3. QED BY <1>2, ProfInductive, PTL

(* discoverDid finds nobody who never deserved it, and everyone who deserved it
   for one reason all the while unless the provider had an error, whatever
   changes in the data store between its reads. *)
THEOREM DiscoveryIsFaithful ==
  ASSUME Prof!ProfilesAssumption
  PROVE  Prof!Spec => []Prof!DiscoveryIsFaithful
<1>1. ASSUME SearchOK, search # Prof!NoSearch, search.at = 6, NEW r \in search.always
      PROVE  Prof!Result(r) \in search.results \/ Prof!Result(r)[1] \in search.errors \union search.hidden
  <2>1. ReadSoFar(r[1], r[2])
    BY <1>1 DEF SearchOK
  <2>2. CASE r[1] = "is alias"
    <3>1. Prof!Result(r) = <<"alias", r[2]>> /\ Prof!Result(r)[1] = "alias"
      BY <2>2 DEF Prof!Result
    <3>2. search.at > 1
      BY <1>1
    <3>3. <<"alias", r[2]>> \in search.results \/ "alias" \in search.hidden
      BY <2>1, <2>2, <3>2 DEF ReadSoFar
    <3>4. QED BY <3>1, <3>3
  <2>3. CASE r[1] # "is alias"
    <3>1. Prof!Result(r) = <<"data-store", r[2]>> /\ Prof!Result(r)[1] = "data-store"
      BY <2>3 DEF Prof!Result
    <3>2. <<"data-store", r[2]>> \in search.results \/ "data-store" \in search.errors
      BY <1>1, <2>1, <2>3 DEF ReadSoFar
    <3>3. QED BY <3>1, <3>2
  <2>4. QED BY <2>2, <2>3
<1>2. ASSUME ProfInv PROVE Prof!DiscoveryIsFaithful
  <2>1. search # Prof!NoSearch => search.results \subseteq EverFound
    BY <1>2 DEF ProfInv, SearchOK
  <2>2. QED BY <1>1, <1>2, <2>1 DEF Prof!DiscoveryIsFaithful, EverFound, ProfInv
<1>3. QED BY <1>2, ProfInductive, PTL

------------------------------------------------------------------------------
(* Queries (Queries): both stores answer what was asked for.               *)

(* Induction over sequences: a set of them that has the empty one, and with
   each its continuations, has them all. *)
LEMMA SeqInduct ==
  ASSUME NEW S, NEW Good \in SUBSET Seq(S), <<>> \in Good,
         \A s \in Good : \A e \in S : Append(s, e) \in Good
  PROVE  Seq(S) \subseteq Good
<1> DEFINE T == {n \in Nat : \E s \in Seq(S) : Len(s) = n /\ s \notin Good}
<1>1. SUFFICES ASSUME T # {} PROVE FALSE
  <2>1. ASSUME NEW s \in Seq(S), s \notin Good PROVE Len(s) \in T
    BY <2>1
  <2>2. QED BY <2>1
<1>2. PICK m \in T : \A k \in T : m <= k
  <2> HIDE DEF T
  <2>1. T \in SUBSET Nat BY DEF T
  <2>2. QED BY <1>1, <2>1, Least
<1>3. PICK s \in Seq(S) : Len(s) = m /\ s \notin Good
  BY <1>2
<1>4. s # <<>>
  BY <1>3
<1>5. PICK t \in Seq(S), e \in S : s = Append(t, e)
  BY <1>4, SequenceEmptyOrAppend
<1>6. Len(t) \in Nat /\ Len(t) < m
  <2>1. Len(Append(t, e)) = Len(t) + 1 /\ Len(t) \in Nat
    BY AppendProperties
  <2>2. m = Len(t) + 1
    BY <1>3, <1>5, <2>1
  <2>3. QED BY <2>1, <2>2
<1>7. t \in Good
  <2>1. Len(t) \notin T
    <3> HIDE DEF T
    <3>1. T \in SUBSET Nat BY DEF T
    <3>2. QED BY <1>2, <1>6, <3>1
  <2>2. QED BY <1>6, <2>1
<1>8. QED BY <1>3, <1>5, <1>7

LEMMA FilterUnique ==
  ASSUME NEW s, NEW t, NEW gone, NEW m \in Nat, NEW n \in Nat, m <= n, NEW f, NEW g,
         IsFilter(f, s, gone, m), IsFilter(g, t, gone, n), \A i \in 1 .. m : s[i] = t[i]
  PROVE  f[m] = g[m]
<1> DEFINE T == {i \in 0 .. m : f[i] # g[i]}
<1>1. SUFFICES ASSUME T # {} PROVE FALSE
  OBVIOUS
<1>2. PICK l \in T : \A k \in T : l <= k
  <2> HIDE DEF T
  <2>1. T \in SUBSET Nat BY DEF T
  <2>2. QED BY <1>1, <2>1, Least
<1>3. l \in 0 .. m /\ f[l] # g[l]
  BY <1>2
<1>4. f[l] = IF l = 0 THEN <<>> ELSE IF s[l] \in gone THEN f[l - 1] ELSE Append(f[l - 1], s[l])
  BY <1>3 DEF IsFilter
<1>5. g[l] = IF l = 0 THEN <<>> ELSE IF t[l] \in gone THEN g[l - 1] ELSE Append(g[l - 1], t[l])
  <2>1. l \in 0 .. n
    BY <1>3
  <2>2. QED BY <2>1 DEF IsFilter
<1>6. l # 0
  BY <1>3, <1>4, <1>5
<1>7. s[l] = t[l] /\ l - 1 \in 0 .. m /\ l - 1 \notin T
  <2>1. l - 1 \in 0 .. m /\ l \in 1 .. m /\ ~(l <= l - 1)
    BY <1>3, <1>6
  <2> HIDE DEF T
  <2>2. QED BY <1>2, <2>1
<1>8. f[l - 1] = g[l - 1]
  BY <1>7
<1>9. QED BY <1>3, <1>4, <1>5, <1>7, <1>8

LEMMA WithoutIs ==
  ASSUME NEW S, NEW s \in Seq(S), NEW gone
  PROVE  \E f : IsFilter(f, s, gone, Len(s)) /\ Without(s, gone) = f[Len(s)]
<1> DEFINE f == CHOOSE g : IsFilter(g, s, gone, Len(s))
<1>1. IsFilter(f, s, gone, Len(s))
  <2>1. Len(s) \in Nat
    OBVIOUS
  <2>2. \E g : IsFilter(g, s, gone, Len(s))
    BY <2>1, FilterExists
  <2>3. QED BY <2>2
<1>2. Without(s, gone) = f[Len(s)]
  BY DEF Without, IsFilter
<1>3. QED BY <1>1, <1>2

\* A filter takes one element after another.
LEMMA WithoutEmpty ==
  ASSUME NEW gone
  PROVE  Without(<<>>, gone) = <<>>
<1>1. <<>> \in Seq({}) /\ Len(<<>>) = 0
  OBVIOUS
<1>2. PICK f : IsFilter(f, <<>>, gone, 0) /\ Without(<<>>, gone) = f[0]
  BY <1>1, WithoutIs
<1>3. QED BY <1>2 DEF IsFilter

LEMMA WithoutAppend ==
  ASSUME NEW S, NEW s \in Seq(S), NEW e \in S, NEW gone
  PROVE  Without(Append(s, e), gone) = IF e \in gone THEN Without(s, gone) ELSE Append(Without(s, gone), e)
<1>1. PICK t, n : t = Append(s, e) /\ n = Len(s)
  OBVIOUS
<1>2. t \in Seq(S) /\ Len(t) = n + 1 /\ n \in Nat /\ t[n + 1] = e /\ \A i \in 1 .. n : s[i] = t[i]
  BY <1>1, AppendProperties
<1>3. PICK f : IsFilter(f, s, gone, n) /\ Without(s, gone) = f[n]
  BY <1>1, WithoutIs
<1>4. PICK g : IsFilter(g, t, gone, n + 1) /\ Without(t, gone) = g[n + 1]
  BY <1>2, WithoutIs
<1>5. f[n] = g[n]
  <2>1. n + 1 \in Nat /\ n <= n + 1
    BY <1>2
  <2>2. QED BY <1>2, <1>3, <1>4, <2>1, FilterUnique
<1>6. g[n + 1] = IF t[n + 1] \in gone THEN g[n] ELSE Append(g[n], t[n + 1])
  <2>1. PICK k : k = n + 1
    OBVIOUS
  <2>2. k \in 0 .. k /\ k # 0 /\ k - 1 = n
    BY <1>2, <2>1
  <2>3. g[k] = IF t[k] \in gone THEN g[k - 1] ELSE Append(g[k - 1], t[k])
    BY <1>4, <2>1, <2>2 DEF IsFilter
  <2>4. QED BY <2>1, <2>2, <2>3
<1>7. QED BY <1>1, <1>2, <1>3, <1>4, <1>5, <1>6

\* Two filters are one that takes what either does.
LEMMA WithoutTwice ==
  ASSUME NEW S, NEW first, NEW second
  PROVE  \A s \in Seq(S) : Without(Without(s, first), second) = Without(s, first \union second)
<1> DEFINE Good == {s \in Seq(S) : Without(Without(s, first), second) = Without(s, first \union second)}
<1>1. <<>> \in Good
  BY WithoutEmpty
<1>2. ASSUME NEW s \in Good, NEW e \in S PROVE Append(s, e) \in Good
  <2>1. s \in Seq(S) /\ Append(s, e) \in Seq(S)
    OBVIOUS
  <2>2. Without(Append(s, e), first \union second)
          = IF e \in first \union second THEN Without(s, first \union second) ELSE Append(Without(s, first \union second), e)
    BY <2>1, WithoutAppend
  <2>3. PICK kept : kept = Without(s, first)
    OBVIOUS
  <2>4. kept \in Seq(S)
    BY <2>1, <2>3, WithoutElements
  <2>5. Without(Append(s, e), first) = IF e \in first THEN kept ELSE Append(kept, e)
    BY <2>1, <2>3, WithoutAppend
  <2>6. Without(Append(kept, e), second) = IF e \in second THEN Without(kept, second) ELSE Append(Without(kept, second), e)
    BY <2>4, WithoutAppend
  <2>7. Without(kept, second) = Without(s, first \union second)
    BY <2>3
  <2>8. CASE e \in first
    BY <2>1, <2>2, <2>5, <2>7, <2>8
  <2>9. CASE e \notin first
    BY <2>1, <2>2, <2>5, <2>6, <2>7, <2>9
  <2>10. QED BY <2>8, <2>9
<1> HIDE DEF Good
<1>3. Good \in SUBSET Seq(S)
  BY DEF Good
<1>4. Seq(S) \subseteq Good
  BY <1>1, <1>2, <1>3, SeqInduct
<1>5. QED BY <1>4 DEF Good

LEMMA ElementsOfAppend ==
  ASSUME NEW S, NEW s \in Seq(S), NEW e \in S
  PROVE  Elements(Append(s, e)) = Elements(s) \union {e}
<1>1. /\ DOMAIN s = 1 .. Len(s) /\ DOMAIN Append(s, e) = 1 .. Len(s) + 1
      /\ Append(s, e)[Len(s) + 1] = e
      /\ \A j \in 1 .. Len(s) : Append(s, e)[j] = s[j]
      /\ Len(s) \in Nat
  OBVIOUS
<1>2. QED BY <1>1 DEF Elements

\* Filters that take the same of a sequence's elements
LEMMA WithoutAlike ==
  ASSUME NEW S, NEW some, NEW others
  PROVE  \A s \in Seq(S) : (\A e \in Elements(s) : e \in some <=> e \in others) => Without(s, some) = Without(s, others)
<1> DEFINE Alike(s) == \A e \in Elements(s) : e \in some <=> e \in others
           Good == {s \in Seq(S) : Alike(s) => Without(s, some) = Without(s, others)}
<1>1. <<>> \in Good
  BY WithoutEmpty
<1>2. ASSUME NEW s \in Good, NEW e \in S PROVE Append(s, e) \in Good
  <2>1. s \in Seq(S) /\ Append(s, e) \in Seq(S)
    OBVIOUS
  <2>2. Elements(Append(s, e)) = Elements(s) \union {e}
    BY <2>1, ElementsOfAppend
  <2>3. ASSUME Alike(Append(s, e)) PROVE Without(Append(s, e), some) = Without(Append(s, e), others)
    <3>1. Alike(s) /\ (e \in some <=> e \in others)
      BY <2>2, <2>3
    <3>2. Without(s, some) = Without(s, others)
      BY <3>1
    <3> HIDE DEF Good, Alike
    <3>3. /\ Without(Append(s, e), some) = IF e \in some THEN Without(s, some) ELSE Append(Without(s, some), e)
          /\ Without(Append(s, e), others) = IF e \in others THEN Without(s, others) ELSE Append(Without(s, others), e)
      BY <2>1, WithoutAppend
    <3>4. QED BY <3>1, <3>2, <3>3
  <2> HIDE DEF Alike
  <2>4. QED BY <2>1, <2>3
<1> HIDE DEF Good, Alike
<1>3. Good \in SUBSET Seq(S)
  BY DEF Good
<1>4. Seq(S) \subseteq Good
  BY <1>1, <1>2, <1>3, SeqInduct
<1>5. QED BY <1>4 DEF Good, Alike

LEMMA SameSeq ==
  ASSUME NEW S, NEW s \in Seq(S), NEW t \in Seq(S), Len(s) = Len(t), \A i \in 1 .. Len(s) : s[i] = t[i]
  PROVE  s = t
OBVIOUS

Until(n, end) == IF n <= end THEN n ELSE end

LEMMA SubSeqOf ==
  ASSUME NEW S, NEW s \in Seq(S), NEW a \in Nat \ {0}, NEW b \in Nat, b <= Len(s)
  PROVE  /\ SubSeq(s, a, b) \in Seq(S)
         /\ Len(SubSeq(s, a, b)) = IF a <= b THEN b - a + 1 ELSE 0
         /\ \A i \in 1 .. b - a + 1 : SubSeq(s, a, b)[i] = s[a + i - 1]
<1>1. \A i \in a .. b : s[i] \in S
  OBVIOUS
<1>2. a \in Int /\ b \in Int
  OBVIOUS
<1>3. QED BY <1>1, <1>2, SubSeqProperties

\* Those that are taken out are all but the ones from a to b.
Around(s, gone, a, b) == \A i \in DOMAIN s : s[i] \in gone <=> ~(a <= i /\ i <= b)

\* A filter that takes all but a stretch of a sequence cuts that stretch out.
LEMMA WithoutAround ==
  ASSUME NEW S, NEW whole \in Seq(S), NEW gone, NEW a \in Nat \ {0}, NEW b \in Nat, Around(whole, gone, a, b)
  PROVE  Without(whole, gone) = SubSeq(whole, a, Until(b, Len(whole)))
<1> DEFINE Cut(s) == \A i \in DOMAIN s : s[i] \in gone <=> ~(a <= i /\ i <= b)
           Good == {s \in Seq(S) : Cut(s) => Without(s, gone) = SubSeq(s, a, Until(b, Len(s)))}
<1>1. <<>> \in Good
  <2>1. PICK end : end = Until(b, Len(<<>>))
    OBVIOUS
  <2>2. end = 0
    BY <2>1 DEF Until
  <2>3. SubSeq(<<>>, a, end) = <<>>
    BY <2>2, SubSeqEmpty
  <2>4. Without(<<>>, gone) = SubSeq(<<>>, a, Until(b, Len(<<>>)))
    BY <2>1, <2>3, WithoutEmpty, Zenon
  <2>5. <<>> \in Seq(S)
    OBVIOUS
  <2> HIDE DEF Cut
  <2>6. QED BY <2>4, <2>5
<1>2. ASSUME NEW s \in Good, NEW e \in S PROVE Append(s, e) \in Good
  <2>1. PICK t, n : t = Append(s, e) /\ n = Len(s)
    OBVIOUS
  <2>2. s \in Seq(S) /\ t \in Seq(S) /\ n \in Nat /\ Len(t) = n + 1 /\ t[n + 1] = e /\ \A i \in 1 .. n : t[i] = s[i]
    BY <2>1, AppendProperties
  <2>3. ASSUME Cut(t) PROVE Without(t, gone) = SubSeq(t, a, Until(b, n + 1))
    <3>1. e \in gone <=> ~(a <= n + 1 /\ n + 1 <= b)
      BY <2>2, <2>3
    <3>2. Cut(s)
      <4>1. DOMAIN s = 1 .. n /\ DOMAIN t = 1 .. n + 1
        BY <2>1, <2>2
      <4>2. QED BY <2>2, <2>3, <4>1
    <3>3. Without(s, gone) = SubSeq(s, a, Until(b, n))
      BY <2>1, <3>2
    <3> HIDE DEF Good, Cut
    <3>4. Without(t, gone) = IF e \in gone THEN Without(s, gone) ELSE Append(Without(s, gone), e)
      BY <2>1, <2>2, WithoutAppend
    <3>5. PICK u : u = SubSeq(s, a, Until(b, n))
      OBVIOUS
    <3>6. PICK v : v = SubSeq(t, a, Until(b, n + 1))
      OBVIOUS
    <3>7. /\ u \in Seq(S)
          /\ Len(u) = IF a <= Until(b, n) THEN Until(b, n) - a + 1 ELSE 0
          /\ \A i \in 1 .. Until(b, n) - a + 1 : u[i] = s[a + i - 1]
      BY <2>1, <2>2, <3>5, SubSeqOf DEF Until
    <3>8. /\ v \in Seq(S)
          /\ Len(v) = IF a <= Until(b, n + 1) THEN Until(b, n + 1) - a + 1 ELSE 0
          /\ \A i \in 1 .. Until(b, n + 1) - a + 1 : v[i] = t[a + i - 1]
      <4>1. PICK end : end = Until(b, n + 1)
        OBVIOUS
      <4>2. end \in Nat /\ end <= Len(t)
        BY <2>2, <4>1 DEF Until
      <4>3. /\ SubSeq(t, a, end) \in Seq(S)
            /\ Len(SubSeq(t, a, end)) = IF a <= end THEN end - a + 1 ELSE 0
            /\ \A i \in 1 .. end - a + 1 : SubSeq(t, a, end)[i] = t[a + i - 1]
        BY <2>2, <4>2, SubSeqOf
      <4>4. QED BY <3>6, <4>1, <4>3
    <3>9. CASE e \in gone
      <4>1. Len(u) = Len(v)
        BY <2>2, <3>1, <3>7, <3>8, <3>9 DEF Until
      <4>2. ASSUME NEW i \in 1 .. Len(u) PROVE u[i] = v[i]
        <5>1. n + 1 > b /\ a <= b
          BY <2>2, <3>1, <3>7, <3>9, <4>2 DEF Until
        <5>2. Until(b, n) = b /\ Until(b, n + 1) = b
          BY <2>2, <5>1 DEF Until
        <5>3. i \in 1 .. b - a + 1 /\ a + i - 1 \in 1 .. n
          BY <2>2, <3>7, <4>2, <5>1, <5>2
        <5>4. QED BY <2>2, <3>7, <3>8, <5>2, <5>3
      <4>3. u = v
        BY <3>7, <3>8, <4>1, <4>2, SameSeq
      <4>4. QED BY <3>3, <3>4, <3>5, <3>6, <3>9, <4>3
    <3>10. CASE e \notin gone
      <4>1. a <= n + 1 /\ n + 1 <= b /\ Until(b, n) = n /\ Until(b, n + 1) = n + 1
        BY <2>2, <3>1, <3>10 DEF Until
      <4>2. Len(u) = n + 1 - a /\ Len(v) = n + 2 - a
        BY <2>2, <3>7, <3>8, <4>1
      <4>3. PICK w : w = Append(u, e)
        OBVIOUS
      <4>4. w \in Seq(S) /\ Len(w) = Len(u) + 1 /\ w[Len(u) + 1] = e /\ \A i \in 1 .. Len(u) : w[i] = u[i]
        BY <3>7, <4>3, AppendProperties
      <4>5. ASSUME NEW i \in 1 .. Len(w) PROVE w[i] = v[i]
        <5>1. Len(w) = n + 2 - a /\ i \in 1 .. n + 2 - a
          BY <2>2, <4>2, <4>4, <4>5
        <5>2. CASE i = n + 2 - a
          <6>1. a + i - 1 = n + 1 /\ i = Len(u) + 1
            BY <2>2, <4>2, <5>2
          <6>2. v[i] = t[a + i - 1]
            BY <2>2, <3>8, <4>1, <5>1
          <6>3. QED BY <2>2, <4>4, <6>1, <6>2
        <5>3. CASE i # n + 2 - a
          <6>1. i \in 1 .. n - a + 1 /\ a + i - 1 \in 1 .. n /\ i \in 1 .. Len(u)
            BY <2>2, <4>2, <5>1, <5>3
          <6>2. w[i] = u[i] /\ u[i] = s[a + i - 1]
            BY <2>2, <3>7, <4>1, <4>4, <6>1
          <6>3. v[i] = t[a + i - 1]
            BY <2>2, <3>8, <4>1, <5>1
          <6>4. QED BY <2>2, <6>1, <6>2, <6>3
        <5>4. QED BY <5>2, <5>3
      <4>6. w = v
        <5>1. Len(w) = Len(v)
          BY <2>2, <4>2, <4>4
        <5>2. QED BY <3>8, <4>4, <4>5, <5>1, SameSeq
      <4>7. QED BY <3>3, <3>4, <3>5, <3>6, <3>10, <4>3, <4>6
    <3>11. QED BY <3>9, <3>10
  <2> HIDE DEF Cut
  <2>4. QED BY <2>1, <2>2, <2>3
<1> HIDE DEF Good, Cut
<1>3. Good \in SUBSET Seq(S)
  BY DEF Good
<1>4. Seq(S) \subseteq Good
  BY <1>1, <1>2, <1>3, SeqInduct
<1>5. whole \in Good
  BY <1>4
<1>6. QED BY <1>5 DEF Good, Cut, Around

NoTwice(s) == \A i, j \in DOMAIN s : s[i] = s[j] => i = j

\* Taking elements out leaves none twice.
LEMMA WithoutNoTwice ==
  ASSUME NEW S, NEW gone
  PROVE  \A s \in Seq(S) : NoTwice(s) => NoTwice(Without(s, gone))
<1> DEFINE Good == {s \in Seq(S) : NoTwice(s) => NoTwice(Without(s, gone))}
<1>1. <<>> \in Good
  BY WithoutEmpty DEF NoTwice
<1>2. ASSUME NEW s \in Good, NEW e \in S PROVE Append(s, e) \in Good
  <2>1. s \in Seq(S) /\ Append(s, e) \in Seq(S)
    OBVIOUS
  <2>2. PICK t, n : t = Append(s, e) /\ n = Len(s)
    OBVIOUS
  <2>3. n \in Nat /\ DOMAIN s = 1 .. n /\ DOMAIN t = 1 .. n + 1 /\ t[n + 1] = e /\ \A i \in 1 .. n : t[i] = s[i]
    BY <2>1, <2>2, AppendProperties
  <2>4. ASSUME NoTwice(t) PROVE NoTwice(Without(t, gone))
    <3>1. NoTwice(s) /\ \A i \in DOMAIN s : s[i] # e
      BY <2>3, <2>4 DEF NoTwice
    <3>2. PICK w : w = Without(s, gone)
      OBVIOUS
    <3>3. w \in Seq(S) /\ Elements(w) = Elements(s) \ gone /\ NoTwice(w)
      BY <2>1, <3>1, <3>2, WithoutElements
    <3> HIDE DEF Good
    <3>4. Without(t, gone) = IF e \in gone THEN w ELSE Append(w, e)
      BY <2>1, <2>2, <3>2, WithoutAppend
    <3>5. NoTwice(Append(w, e))
      <4>1. \A i \in DOMAIN w : w[i] # e
        BY <3>1, <3>3 DEF Elements
      <4>2. PICK u, m : u = Append(w, e) /\ m = Len(w)
        OBVIOUS
      <4>3. m \in Nat /\ DOMAIN w = 1 .. m /\ DOMAIN u = 1 .. m + 1 /\ u[m + 1] = e /\ \A i \in 1 .. m : u[i] = w[i]
        BY <3>3, <4>2, AppendProperties
      <4>4. QED BY <3>3, <4>1, <4>2, <4>3 DEF NoTwice
    <3>6. QED BY <3>3, <3>4, <3>5
  <2>5. QED BY <2>1, <2>2, <2>4
<1> HIDE DEF Good
<1>3. Good \in SUBSET Seq(S)
  BY DEF Good
<1>4. Seq(S) \subseteq Good
  BY <1>1, <1>2, <1>3, SeqInduct
<1>5. QED BY <1>4 DEF Good

\* An entry that is inserted is there once more, the others as they were.
LEMMA InsertedIs ==
  ASSUME NEW S, NEW s \in Seq(S), NEW e \in S, NEW order
  PROVE  LET r == Qu!Inserted(s, e, order)
         IN /\ r \in Seq(S) /\ Elements(r) = Elements(s) \union {e}
            /\ NoTwice(s) /\ e \notin Elements(s) => NoTwice(r)
<1>1. PICK at, n : at = Qu!Cardinality({i \in DOMAIN s : Qu!Comes(s[i], e, order)}) /\ n = Len(s)
  OBVIOUS
<1>2. n \in Nat /\ n = Len(s) /\ DOMAIN s = 1 .. n /\ \A i \in 1 .. n : s[i] \in S
  BY <1>1
<1>3. at \in 0 .. n
  <2> DEFINE I == {i \in DOMAIN s : Qu!Comes(s[i], e, order)}
  <2>1. I \subseteq 1 .. n
    BY <1>2
  <2> HIDE DEF I
  <2>2. IsFiniteSet(1 .. n) /\ Cardinality(1 .. n) = n
    <3>1. n \in Nat
      BY <1>2
    <3>2. QED BY <3>1, FS_Interval
  <2>3. Cardinality(I) <= n /\ Cardinality(I) \in Nat
    BY <2>1, <2>2, FS_Subset, FS_CardinalityType
  <2>4. Qu!Cardinality(I) = Cardinality(I)
    BY DEF Qu!Cardinality, Cardinality
  <2>5. QED BY <1>1, <1>2, <2>3, <2>4 DEF I
<1>4. PICK before, after : before = SubSeq(s, 1, at) /\ after = SubSeq(s, at + 1, n)
  OBVIOUS
<1>5. before \in Seq(S) /\ Len(before) = at /\ \A i \in 1 .. at : before[i] = s[i]
  <2>1. 1 \in Nat \ {0} /\ at \in Nat /\ at <= Len(s)
    BY <1>1, <1>2, <1>3
  <2>2. PICK a : a = 1
    OBVIOUS
  <2>3. /\ SubSeq(s, a, at) \in Seq(S)
        /\ Len(SubSeq(s, a, at)) = IF a <= at THEN at - a + 1 ELSE 0
        /\ \A i \in 1 .. at - a + 1 : SubSeq(s, a, at)[i] = s[a + i - 1]
    BY <2>1, <2>2, SubSeqOf
  <2>4. QED BY <1>2, <1>3, <1>4, <2>2, <2>3
<1>6. after \in Seq(S) /\ Len(after) = n - at /\ \A i \in 1 .. n - at : after[i] = s[at + i]
  <2>1. PICK a : a = at + 1
    OBVIOUS
  <2>2. a \in Nat \ {0} /\ n <= Len(s)
    BY <1>2, <1>3, <2>1
  <2>3. /\ SubSeq(s, a, n) \in Seq(S)
        /\ Len(SubSeq(s, a, n)) = IF a <= n THEN n - a + 1 ELSE 0
        /\ \A i \in 1 .. n - a + 1 : SubSeq(s, a, n)[i] = s[a + i - 1]
    BY <1>2, <2>2, SubSeqOf
  <2>4. QED BY <1>2, <1>3, <1>4, <2>1, <2>3
<1>7. PICK one : one = <<e>>
  OBVIOUS
<1>8. one \in Seq(S) /\ Len(one) = 1 /\ one[1] = e
  BY <1>7
<1>9. PICK r : r = Qu!Inserted(s, e, order)
  OBVIOUS
<1>10. r = before \o one \o after
  BY <1>1, <1>4, <1>7, <1>9 DEF Qu!Inserted
<1>11. PICK front : front = before \o one
  OBVIOUS
<1>12. front \in Seq(S) /\ Len(front) = at + 1 /\ front[at + 1] = e /\ \A i \in 1 .. at : front[i] = s[i]
  <2>1. /\ before \o one \in Seq(S) /\ Len(before \o one) = Len(before) + Len(one)
        /\ \A i \in 1 .. Len(before) + Len(one) :
             (before \o one)[i] = IF i <= Len(before) THEN before[i] ELSE one[i - Len(before)]
    BY <1>5, <1>8, ConcatProperties
  <2>2. front \in Seq(S) /\ Len(front) = at + 1
    BY <1>5, <1>8, <1>11, <2>1
  <2>3. \A i \in 1 .. at + 1 : front[i] = IF i <= at THEN before[i] ELSE one[i - at]
    BY <1>3, <1>5, <1>8, <1>11, <2>1
  <2>4. at + 1 \in 1 .. at + 1 /\ ~(at + 1 <= at) /\ at + 1 - at = 1 /\ \A i \in 1 .. at : i \in 1 .. at + 1 /\ i <= at
    BY <1>2, <1>3
  <2>5. QED BY <1>5, <1>8, <2>2, <2>3, <2>4
<1>13. r \in Seq(S) /\ Len(r) = n + 1 /\ \A i \in 1 .. n + 1 : r[i] = IF i <= at + 1 THEN front[i] ELSE after[i - at - 1]
  <2>1. r = front \o after
    BY <1>10, <1>11
  <2>2. /\ front \o after \in Seq(S) /\ Len(front \o after) = Len(front) + Len(after)
        /\ \A i \in 1 .. Len(front) + Len(after) : (front \o after)[i] = IF i <= Len(front) THEN front[i] ELSE after[i - Len(front)]
    BY <1>6, <1>12, ConcatProperties
  <2>3. Len(front) + Len(after) = n + 1
    BY <1>2, <1>3, <1>6, <1>12
  <2>4. \A i \in 1 .. n + 1 : i - Len(front) = i - at - 1
    BY <1>2, <1>3, <1>12
  <2>5. QED BY <1>12, <2>1, <2>2, <2>3, <2>4
<1>14. /\ r[at + 1] = e
       /\ \A i \in 1 .. n + 1 : i <= at => r[i] = s[i]
       /\ \A i \in 1 .. n + 1 : i > at + 1 => r[i] = s[i - 1]
  <2>1. at + 1 \in 1 .. n + 1
    BY <1>2, <1>3
  <2>2. r[at + 1] = e
    BY <1>12, <1>13, <2>1
  <2>3. ASSUME NEW i \in 1 .. n + 1, i <= at PROVE r[i] = s[i]
    BY <1>2, <1>3, <1>12, <1>13, <2>3
  <2>4. ASSUME NEW i \in 1 .. n + 1, i > at + 1 PROVE r[i] = s[i - 1]
    <3>1. i - at - 1 \in 1 .. n - at /\ at + (i - at - 1) = i - 1 /\ ~(i <= at + 1)
      BY <1>2, <1>3, <2>4
    <3>2. r[i] = after[i - at - 1]
      BY <1>13, <3>1
    <3>3. QED BY <1>6, <3>1, <3>2
  <2>5. QED BY <2>2, <2>3, <2>4
<1>15. DOMAIN r = 1 .. n + 1
  BY <1>13
<1>16. Elements(r) = Elements(s) \union {e}
  <2>1. ASSUME NEW i \in DOMAIN r PROVE r[i] \in Elements(s) \union {e}
    <3>1. i <= at \/ i = at + 1 \/ i > at + 1
      BY <1>2, <1>3, <1>15
    <3>2. CASE i <= at
      BY <1>2, <1>3, <1>14, <1>15, <3>2 DEF Elements
    <3>3. CASE i > at + 1
      <4>1. i - 1 \in DOMAIN s
        BY <1>2, <1>3, <1>15, <3>3
      <4>2. QED BY <1>14, <1>15, <3>3, <4>1 DEF Elements
    <3>4. QED BY <1>14, <3>1, <3>2, <3>3
  <2>2. ASSUME NEW i \in DOMAIN s PROVE s[i] \in Elements(r)
    <3>1. CASE i <= at
      <4>1. i \in 1 .. n + 1
        BY <1>2
      <4>2. QED BY <1>14, <1>15, <3>1, <4>1 DEF Elements
    <3>2. CASE i > at
      <4>1. PICK j : j = i + 1
        OBVIOUS
      <4>2. j \in 1 .. n + 1 /\ j > at + 1 /\ j - 1 = i
        BY <1>2, <1>3, <3>2, <4>1
      <4>3. r[j] = s[i]
        BY <1>14, <4>2
      <4>4. QED BY <1>15, <4>2, <4>3 DEF Elements
    <3>3. QED BY <1>2, <1>3, <3>1, <3>2
  <2>3. e \in Elements(r)
    <3>1. at + 1 \in DOMAIN r
      BY <1>2, <1>3, <1>15
    <3>2. QED BY <1>14, <3>1 DEF Elements
  <2>4. QED BY <2>1, <2>2, <2>3 DEF Elements
<1>17. ASSUME NoTwice(s), e \notin Elements(s) PROVE NoTwice(r)
  <2>1. \A i \in 1 .. n : s[i] # e
    BY <1>2, <1>17 DEF Elements
  <2> DEFINE From(i) == IF i <= at THEN i ELSE i - 1
  <2>2. \A i \in 1 .. n + 1 : i # at + 1 => From(i) \in 1 .. n /\ r[i] = s[From(i)]
    BY <1>2, <1>3, <1>14
  <2>3. \A i, j \in 1 .. n + 1 : i # at + 1 /\ j # at + 1 /\ From(i) = From(j) => i = j
    BY <1>2, <1>3
  <2> HIDE DEF From
  <2>4. ASSUME NEW i \in 1 .. n + 1, NEW j \in 1 .. n + 1, r[i] = r[j] PROVE i = j
    <3>1. CASE i # at + 1 /\ j # at + 1
      <4>1. From(i) = From(j)
        BY <1>2, <1>17, <2>2, <2>4, <3>1 DEF NoTwice
      <4>2. QED BY <2>3, <3>1, <4>1
    <3>2. CASE i = at + 1 \/ j = at + 1
      BY <1>14, <2>1, <2>2, <2>4, <3>2
    <3>3. QED BY <3>1, <3>2
  <2>5. QED BY <1>15, <2>4 DEF NoTwice
<1>18. QED BY <1>9, <1>13, <1>16, <1>17

IsSorting(f, s, order, n) ==
  f = [i \in 0 .. n |-> IF i = 0 THEN <<>> ELSE Qu!Inserted(f[i - 1], s[i], order)]

LEMMA SortingExists ==
  ASSUME NEW s, NEW order, NEW n \in Nat
  PROVE  \E f : IsSorting(f, s, order, n)
<1> DEFINE T == {m \in Nat : ~ \E f : IsSorting(f, s, order, m)}
<1>1. SUFFICES ASSUME T # {} PROVE FALSE
  OBVIOUS
<1>2. PICK m \in T : \A k \in T : m <= k
  <2> HIDE DEF T
  <2>1. T \in SUBSET Nat BY DEF T
  <2>2. QED BY <1>1, <2>1, Least
<1>3. CASE m = 0
  <2> DEFINE f == [i \in 0 .. 0 |-> <<>>]
  <2>1. IsSorting(f, s, order, 0)
    BY DEF IsSorting
  <2>2. QED BY <2>1, <1>3, <1>2
<1>4. CASE m > 0
  <2>1. m - 1 \in Nat /\ m - 1 \notin T
    BY <1>2, <1>4
  <2>2. PICK f : IsSorting(f, s, order, m - 1)
    BY <2>1
  <2> DEFINE e == Qu!Inserted(f[m - 1], s[m], order)
             g == [i \in 0 .. m |-> IF i = m THEN e ELSE f[i]]
  <2>3. \A i \in 0 .. m : g[i] = IF i = 0 THEN <<>> ELSE Qu!Inserted(g[i - 1], s[i], order)
    <3> TAKE i \in 0 .. m
    <3>1. \A j \in 0 .. m - 1 : f[j] = IF j = 0 THEN <<>> ELSE Qu!Inserted(f[j - 1], s[j], order)
      BY <2>1, <2>2 DEF IsSorting
    <3>2. CASE i = m
      <4>1. g[m] = e /\ g[m - 1] = f[m - 1]
        BY <1>4
      <4>2. QED BY <4>1, <3>2, <1>4
    <3>3. CASE i # m
      <4>1. i \in 0 .. m - 1
        BY <3>3, <1>2
      <4>2. g[i] = f[i] /\ (i # 0 => g[i - 1] = f[i - 1])
        BY <4>1, <3>3, <1>2
      <4>3. QED BY <4>1, <4>2, <3>1
    <3>4. QED BY <3>2, <3>3
  <2>4. IsSorting(g, s, order, m)
    <3> HIDE DEF e
    <3>1. g = [i \in 0 .. m |-> g[i]] OBVIOUS
    <3> HIDE DEF g
    <3>2. QED BY <2>3, <3>1 DEF IsSorting
  <2>5. QED BY <2>4, <1>2
<1>5. QED BY <1>2, <1>3, <1>4

\* Sorting keeps the entries, each as often as it was there.
LEMMA SortedKeeps ==
  ASSUME NEW S, NEW s \in Seq(S), NEW order
  PROVE  LET sorted == Qu!Sorted(s, order)
         IN /\ sorted \in Seq(S) /\ Elements(sorted) = Elements(s)
            /\ NoTwice(s) => NoTwice(sorted)
<1> DEFINE f == CHOOSE g : IsSorting(g, s, order, Len(s))
<1>1. Len(s) \in Nat /\ DOMAIN s = 1 .. Len(s)
  OBVIOUS
<1>2. IsSorting(f, s, order, Len(s))
  <2>1. \E g : IsSorting(g, s, order, Len(s))
    BY <1>1, SortingExists
  <2>2. QED BY <2>1
<1>3. Qu!Sorted(s, order) = f[Len(s)]
  BY DEF Qu!Sorted, IsSorting
<1> HIDE DEF f
<1> DEFINE Right(i) == /\ f[i] \in Seq(S) /\ Elements(f[i]) = Firsts(s, i)
                       /\ NoTwice(s) => NoTwice(f[i])
           T == {i \in 0 .. Len(s) : ~ Right(i)}
<1>4. ASSUME T # {} PROVE FALSE
  <2>1. PICK m \in T : \A k \in T : m <= k
    <3> HIDE DEF T
    <3>1. T \in SUBSET Nat BY <1>1 DEF T
    <3>2. QED BY <1>4, <3>1, Least
  <2>2. m \in 0 .. Len(s) /\ f[m] = IF m = 0 THEN <<>> ELSE Qu!Inserted(f[m - 1], s[m], order)
    <3>1. m \in 0 .. Len(s)
      BY <2>1
    <3>2. QED BY <1>2, <3>1 DEF IsSorting
  <2>3. m # 0
    <3>1. ASSUME m = 0 PROVE Right(m)
      BY <2>2, <3>1 DEF Elements, Firsts, NoTwice
    <3>2. QED BY <2>1, <3>1
  <2>4. m - 1 \in 0 .. Len(s) /\ m \in 1 .. Len(s)
    BY <1>1, <2>2, <2>3
  <2>5. Right(m - 1)
    <3>1. m - 1 \notin T
      <4>1. ~(m <= m - 1)
        BY <1>1, <2>2
      <4> HIDE DEF T
      <4>2. QED BY <2>1, <4>1
    <3>2. QED BY <2>4, <3>1
  <2>6. PICK before, e : before = f[m - 1] /\ e = s[m]
    OBVIOUS
  <2>7. before \in Seq(S) /\ Elements(before) = Firsts(s, m - 1) /\ e \in S
    BY <1>1, <2>4, <2>5, <2>6
  <2>8. /\ Qu!Inserted(before, e, order) \in Seq(S)
        /\ Elements(Qu!Inserted(before, e, order)) = Elements(before) \union {e}
        /\ NoTwice(before) /\ e \notin Elements(before) => NoTwice(Qu!Inserted(before, e, order))
    BY <2>7, InsertedIs
  <2>9. f[m] = Qu!Inserted(before, e, order)
    BY <2>2, <2>3, <2>6
  <2>10. Firsts(s, m) = Firsts(s, m - 1) \union {e}
    <3>1. 1 .. m = (1 .. m - 1) \union {m}
      BY <1>1, <2>4
    <3>2. QED BY <2>6, <3>1 DEF Firsts
  <2>11. NoTwice(s) => e \notin Firsts(s, m - 1)
    <3>1. \A i \in 1 .. m - 1 : i \in DOMAIN s /\ m \in DOMAIN s /\ i # m
      BY <1>1, <2>4
    <3>2. QED BY <2>6, <3>1 DEF Firsts, NoTwice
  <2>12. Right(m)
    BY <2>5, <2>6, <2>7, <2>8, <2>9, <2>10, <2>11
  <2>13. QED BY <2>1, <2>12
<1>5. Right(Len(s))
  <2>1. Len(s) \in 0 .. Len(s)
    BY <1>1
  <2> HIDE DEF Right
  <2>2. QED BY <1>4, <2>1
<1>6. Elements(s) = Firsts(s, Len(s))
  BY <1>1 DEF Elements, Firsts
<1>7. QED BY <1>3, <1>5, <1>6

------------------------------------------------------------------------------
(* Pages *)

LEMMA PageIs ==
  ASSUME NEW S, NEW s \in Seq(S), NEW skip \in Nat, NEW take \in Nat
  PROVE  /\ Qu!Page(s, skip, take) \in Seq(S)
         /\ Qu!Page(s, skip, take) = SubSeq(s, skip + 1, IF take = 0 THEN Len(s) ELSE Until(skip + take, Len(s)))
         /\ Elements(Qu!Page(s, skip, take)) \subseteq Elements(s)
<1>1. PICK a, b, n : a = skip + 1 /\ n = Len(s) /\ b = (IF take = 0 THEN n ELSE Until(skip + take, n))
  OBVIOUS
<1>2. n \in Nat /\ a \in Nat \ {0} /\ b \in Nat /\ b <= n /\ DOMAIN s = 1 .. n
  <2>1. n \in Nat /\ DOMAIN s = 1 .. n
    BY <1>1
  <2>2. QED BY <1>1, <2>1 DEF Until
<1>3. PICK p : p = Qu!Page(s, skip, take)
  OBVIOUS
<1>4. p = SubSeq(s, a, b)
  BY <1>1, <1>2, <1>3 DEF Qu!Page, Qu!From, Until
<1>5. /\ p \in Seq(S) /\ Len(p) = IF a <= b THEN b - a + 1 ELSE 0
      /\ \A i \in 1 .. b - a + 1 : p[i] = s[a + i - 1]
  BY <1>1, <1>2, <1>4, SubSeqOf
<1>6. ASSUME NEW i \in DOMAIN p PROVE p[i] \in Elements(s)
  <2>1. i \in 1 .. b - a + 1 /\ a + i - 1 \in 1 .. n
    BY <1>2, <1>5
  <2>2. QED BY <1>2, <1>5, <2>1 DEF Elements
<1>7. QED BY <1>1, <1>3, <1>4, <1>5, <1>6 DEF Elements

\* Up to the second entry, skipping twice does no harm.
LEMMA JsonPageIs ==
  ASSUME NEW S, NEW s \in Seq(S), NEW skip \in Nat, NEW take \in Nat
  PROVE  /\ Qu!JsonPage(s, skip, take) \in Seq(S)
         /\ Elements(Qu!JsonPage(s, skip, take)) \subseteq Elements(s)
         /\ skip <= 1 \/ take = 0 => Qu!JsonPage(s, skip, take) = Qu!Page(s, skip, take)
<1>1. PICK rest, start, zero : rest = Qu!From(s, skip) /\ start = (IF skip = 0 THEN 0 ELSE skip - 1) /\ zero = 0
  OBVIOUS
<1>2. start \in Nat /\ zero \in Nat
  BY <1>1
<1>3. rest = Qu!Page(s, skip, zero)
  BY <1>1 DEF Qu!Page
<1>4. rest \in Seq(S) /\ Elements(rest) \subseteq Elements(s)
  BY <1>2, <1>3, PageIs
<1>5. Qu!JsonPage(s, skip, take) = IF take = 0 THEN rest ELSE Qu!Page(rest, start, take)
  BY <1>1 DEF Qu!JsonPage
<1>6. Qu!Page(rest, start, take) \in Seq(S) /\ Elements(Qu!Page(rest, start, take)) \subseteq Elements(rest)
  BY <1>2, <1>4, PageIs
<1>7. CASE take = 0
  BY <1>1, <1>3, <1>4, <1>5, <1>7
<1>8. CASE take # 0
  <2>1. ASSUME skip <= 1 PROVE Qu!Page(rest, start, take) = Qu!Page(s, skip, take)
    <3>1. start = 0
      BY <1>1, <2>1
    <3>2. PICK n, m, first : n = Len(s) /\ m = Len(rest) /\ first = skip + 1
      OBVIOUS
    <3>3. n \in Nat /\ m \in Nat /\ first \in Nat \ {0} /\ n <= Len(s)
      <4>1. n \in Nat /\ m \in Nat /\ n <= Len(s)
        BY <1>4, <3>2
      <4>2. QED BY <3>2, <4>1
    <3>4. rest = SubSeq(s, first, n)
      BY <1>1, <3>2 DEF Qu!From
    <3>5. m = (IF first <= n THEN n - first + 1 ELSE 0) /\ \A i \in 1 .. n - first + 1 : rest[i] = s[first + i - 1]
      BY <3>2, <3>3, <3>4, SubSeqOf
    <3>6. PICK a, b, c : a = 1 /\ b = Until(take, m) /\ c = Until(skip + take, n)
      OBVIOUS
    <3>7. a \in Nat \ {0} /\ b \in Nat /\ b <= m /\ c \in Nat /\ c <= n
      BY <3>3, <3>6 DEF Until
    <3>8. PICK p, q : p = Qu!Page(rest, start, take) /\ q = Qu!Page(s, skip, take)
      OBVIOUS
    <3>9. p = SubSeq(rest, a, b)
      <4>1. Qu!Page(rest, start, take) = SubSeq(rest, start + 1, IF take = 0 THEN Len(rest) ELSE Until(start + take, Len(rest)))
        BY <1>2, <1>4, PageIs
      <4>2. start + 1 = a /\ start + take = take
        BY <3>1, <3>6
      <4>3. QED BY <1>8, <3>2, <3>6, <3>8, <4>1, <4>2
    <3>10. q = SubSeq(s, first, c)
      <4>1. Qu!Page(s, skip, take) = SubSeq(s, skip + 1, IF take = 0 THEN Len(s) ELSE Until(skip + take, Len(s)))
        BY PageIs
      <4>2. QED BY <1>8, <3>2, <3>6, <3>8, <4>1
    <3>11. /\ p \in Seq(S) /\ Len(p) = IF a <= b THEN b - a + 1 ELSE 0
           /\ \A i \in 1 .. b - a + 1 : p[i] = rest[a + i - 1]
      <4>1. b <= Len(rest)
        BY <3>2, <3>7
      <4>2. QED BY <1>4, <3>7, <3>9, <4>1, SubSeqOf
    <3>12. /\ q \in Seq(S) /\ Len(q) = IF first <= c THEN c - first + 1 ELSE 0
           /\ \A i \in 1 .. c - first + 1 : q[i] = s[first + i - 1]
      <4>1. c <= Len(s)
        BY <3>2, <3>7
      <4>2. QED BY <3>3, <3>7, <3>10, <4>1, SubSeqOf
    <3>13. Len(p) = b
      BY <3>6, <3>7, <3>11
    <3>14. Len(q) = b
      BY <3>2, <3>3, <3>5, <3>6, <3>7, <3>12, <1>8 DEF Until
    <3>15. ASSUME NEW i \in 1 .. Len(p) PROVE p[i] = q[i]
      <4>1. i \in 1 .. b - a + 1 /\ a + i - 1 = i /\ i \in 1 .. m
        BY <3>3, <3>6, <3>7, <3>13, <3>15
      <4>2. i \in 1 .. n - first + 1
        BY <3>3, <3>5, <4>1
      <4>3. i \in 1 .. c - first + 1
        BY <3>3, <3>7, <3>12, <3>13, <3>14, <3>15
      <4>4. QED BY <3>5, <3>11, <3>12, <4>1, <4>2, <4>3
    <3>16. p = q
      BY <3>11, <3>12, <3>13, <3>14, <3>15, SameSeq
    <3>17. QED BY <3>8, <3>16
  <2>2. QED BY <1>4, <1>5, <1>6, <1>8, <2>1
<1>9. QED BY <1>7, <1>8

(* The filters of Queries are Without. *)
LEMMA QueriesFilter ==
  ASSUME NEW s, NEW gone
  PROVE  Qu!Without(s, gone) = Without(s, gone) /\ Qu!Range(s) = Elements(s)
<1>1. Qu!Without(s, gone) = Without(s, gone)
  BY DEF Qu!Without, Without
<1>2. Qu!Range(s) = Elements(s)
  BY DEF Qu!Range, Elements
<1>3. QED BY <1>1, <1>2

LEMMA EntryHas ==
  ASSUME NEW e \in Qu!Entry
  PROVE  /\ e.id \in Nat /\ e.rows \in Nat \ {0} /\ e.verifier \in SUBSET Qu!Parties /\ e.party \in Qu!Parties
         /\ e.text \in Qu!Value /\ e.date \in Qu!Value
BY DEF Qu!Entry

(* What a query asks: a table of entries, none twice, and conditions. *)
LEMMA AskedArgs ==
  ASSUME Qu!QueriesAssumption, NEW args \in Qu!Args
  PROVE  /\ args.table.entries \in Seq(Qu!Entry) /\ NoTwice(args.table.entries)
         /\ args.table.of \in Qu!Kinds
         /\ args.table.of # "presentations" => \A e \in Elements(args.table.entries) : e.verifier = {}
         /\ \A i \in DOMAIN args.where :
              IF args.where[i].column = "verifier" THEN args.where[i] \in Qu!VerifierCondition
                                                   ELSE args.where[i] \in Qu!Condition
         /\ (\E i \in DOMAIN args.where : args.where[i].column = "verifier") => args.table.of = "presentations"
         /\ Len(args.where) \in Nat /\ DOMAIN args.where = 1 .. Len(args.where)
         /\ args.skip \in Nat /\ args.take \in Nat /\ args.order \in Qu!Orders
         /\ args.authorizedDID \in Qu!Parties \union {"anyone"}
<1>1. /\ args.table \in QueryTables /\ args.skip \in 0 .. MaxPage /\ args.take \in 0 .. MaxPage /\ args.order \in Qu!Orders
      /\ args.where \in UNION {[1 .. n -> QueryConditions] : n \in 0 .. MaxWhere}
      /\ args.authorizedDID \in Qu!Parties \union {"anyone"}
      /\ (\E i \in DOMAIN args.where : args.where[i].column = "verifier") => args.table.of = "presentations"
  BY DEF Qu!Args, Qu!OnVerifier
<1>2. PICK n \in 0 .. MaxWhere : args.where \in [1 .. n -> QueryConditions]
  BY <1>1
<1>3. /\ MaxWhere \in Nat /\ MaxPage \in Nat
      /\ \A c \in QueryConditions : IF c.column = "verifier" THEN c \in Qu!VerifierCondition ELSE c \in Qu!Condition
  BY DEF Qu!QueriesAssumption
<1>4. PICK entries : entries = args.table.entries
  OBVIOUS
<1>5. /\ entries \in Seq(Qu!Entry) /\ args.table.of \in Qu!Kinds
      /\ \A i, j \in DOMAIN entries : i < j => entries[i].id < entries[j].id
      /\ args.table.of # "presentations" => \A i \in DOMAIN entries : entries[i].verifier = {}
  BY <1>1, <1>4 DEF Qu!QueriesAssumption
<1>6. NoTwice(entries)
  <2>1. SUFFICES ASSUME NEW i \in DOMAIN entries, NEW j \in DOMAIN entries, entries[i] = entries[j], i # j
                 PROVE  FALSE
    BY DEF NoTwice
  <2>2. PICK k, l : k = entries[i].id /\ l = entries[j].id
    OBVIOUS
  <2>3. k \in Nat /\ l = k
    <3>1. entries[i] \in Qu!Entry
      BY <1>5
    <3>2. QED BY <2>1, <2>2, <3>1, EntryHas
  <2>4. i \in Nat /\ j \in Nat
    BY <1>5
  <2>5. i < j \/ j < i
    BY <2>1, <2>4
  <2>6. k < l \/ l < k
    BY <1>5, <2>2, <2>5
  <2>7. QED BY <2>3, <2>6
<1>7. DOMAIN args.where = 1 .. n /\ n \in Nat /\ \A i \in 1 .. n : args.where[i] \in QueryConditions
  BY <1>2, <1>3
<1>8. args.where \in Seq(QueryConditions) /\ Len(args.where) = n
  BY <1>2, <1>7
<1>9. args.skip \in Nat /\ args.take \in Nat
  BY <1>1, <1>3
<1>10. args.table.of # "presentations" => \A e \in Elements(args.table.entries) : e.verifier = {}
  BY <1>4, <1>5 DEF Elements
<1>11. \A i \in DOMAIN args.where :
         IF args.where[i].column = "verifier" THEN args.where[i] \in Qu!VerifierCondition ELSE args.where[i] \in Qu!Condition
  BY <1>3, <1>7
<1>12. QED BY <1>1, <1>4, <1>5, <1>6, <1>7, <1>8, <1>9, <1>10, <1>11

(* Whether an entry is asked for. *)
Wanted(args, e) ==
  /\ \A i \in DOMAIN args.where : Qu!Meets(args.where[i], e)
  /\ Qu!Authorized(e, args.authorizedDID)
Unwanted(args) == {e \in Elements(args.table.entries) : ~ Wanted(args, e)}

LEMMA AnswerIs ==
  ASSUME NEW args
  PROVE  Qu!Answer(args) = Qu!Page(Qu!Sorted(Without(args.table.entries, Unwanted(args)), args.order), args.skip, args.take)
<1>1. Qu!Answer(args) = Qu!Page(Qu!Sorted(Qu!Without(args.table.entries, {e \in Qu!Range(args.table.entries) :
          ~ ((\A i \in DOMAIN args.where : Qu!Meets(args.where[i], e)) /\ Qu!Authorized(e, args.authorizedDID))}),
          args.order), args.skip, args.take)
  BY DEF Qu!Answer, Qu!Selected
<1>2. {e \in Qu!Range(args.table.entries) :
          ~ ((\A i \in DOMAIN args.where : Qu!Meets(args.where[i], e)) /\ Qu!Authorized(e, args.authorizedDID))}
      = Unwanted(args)
  BY QueriesFilter DEF Unwanted, Wanted
<1>3. QED BY <1>1, <1>2, QueriesFilter

(* A condition that the JSON store keeps to means there what it should. *)
LEMMA JsonMeetsIs ==
  ASSUME NEW c, NEW e, IF c.column = "verifier" THEN c \in Qu!VerifierCondition ELSE c \in Qu!Condition,
         c.column = "date" => c.op = "IsNull", c.column = "verifier" => c.op # "IsNull"
  PROVE  Qu!JsonMeets(c, e) <=> Qu!Meets(c, e)
<1>1. CASE c.column = "verifier"
  <2>1. Qu!JsonHolds(c, e) = Qu!HoldsOf(c, e.verifier)
    BY <1>1 DEF Qu!JsonHolds, Qu!HoldsOf
  <2>2. QED BY <1>1, <2>1 DEF Qu!JsonMeets, Qu!Meets
<1>2. CASE c.column # "verifier"
  <2>1. c.column \in {"text", "date", "maybe"} /\ c.op \in {"Equal", "LessThan", "In", "IsNull"}
    BY <1>2 DEF Qu!Condition, Qu!Columns, Qu!Ops
  <2>2. PICK x, held : x = e[c.column] /\ held = Qu!Holds(c, x)
    OBVIOUS
  <2>3. held \in BOOLEAN
    <3>1. CASE c.op = "LessThan"
      BY <2>2, <3>1 DEF Qu!Holds
    <3>2. CASE c.op = "IsNull"
      BY <2>2, <3>2 DEF Qu!Holds
    <3>3. CASE c.op \in {"Equal", "In"}
      <4>1. Qu!Holds(c, x) = (x \in c.value)
        BY <3>3 DEF Qu!Holds
      <4>2. (x \in c.value) \in BOOLEAN
        OBVIOUS
      <4>3. QED BY <2>2, <4>1, <4>2
    <3>4. QED BY <2>1, <3>1, <3>2, <3>3
  <2>4. Qu!JsonHolds(c, e) <=> held
    <3>1. CASE c.column = "date"
      <4>1. x = e.date
        BY <2>2, <3>1
      <4>2. QED BY <2>2, <3>1, <4>1 DEF Qu!JsonHolds
    <3>2. CASE c.column # "date"
      BY <1>2, <2>1, <2>2, <3>2 DEF Qu!JsonHolds
    <3>3. QED BY <3>1, <3>2
  <2>5. Qu!JsonHolds(c, e) = held
    <3>1. Qu!JsonHolds(c, e) \in BOOLEAN
      BY DEF Qu!JsonHolds
    <3>2. QED BY <2>3, <2>4, <3>1
  <2>6. QED BY <1>2, <2>2, <2>5 DEF Qu!JsonMeets, Qu!Meets
<1>3. QED BY <1>1, <1>2

(* data-store-json: the filter of conditions and then the caller's entries. *)
LEMMA JsonIs ==
  ASSUME Qu!QueriesAssumption, NEW args \in Qu!Args
  PROVE  /\ \A e \in Elements(Qu!JsonQuery(args)) :
              e \in Elements(args.table.entries) /\ Qu!Authorized(e, args.authorizedDID)
         /\ Qu!WithinJson(args) => Qu!JsonQuery(args) = Qu!Answer(args)
<1> DEFINE t == args.table.entries
           unmet == {e \in Elements(t) : ~ Qu!JsonFilter(args, e)}
           met == Without(t, unmet)
           others == {e \in Elements(met) : ~ Qu!Authorized(e, args.authorizedDID)}
           found == Without(met, others)
           sorted == Qu!Sorted(found, args.order)
<1>1. t \in Seq(Qu!Entry) /\ args.skip \in Nat /\ args.take \in Nat
  BY AskedArgs
<1>2. Qu!JsonQuery(args) = Qu!JsonPage(sorted, args.skip, args.take)
  <2>1. Qu!JsonQuery(args) = Qu!JsonPage(Qu!Sorted(Qu!Without(
            Qu!Without(t, {e \in Qu!Range(t) : ~ Qu!JsonFilter(args, e)}),
            {e \in Qu!Range(Qu!Without(t, {d \in Qu!Range(t) : ~ Qu!JsonFilter(args, d)})) : ~ Qu!Authorized(e, args.authorizedDID)}),
            args.order), args.skip, args.take)
    BY DEF Qu!JsonQuery, Qu!Selected
  <2>2. Qu!Without(t, {e \in Qu!Range(t) : ~ Qu!JsonFilter(args, e)}) = met
    BY QueriesFilter
  <2>3. {e \in Qu!Range(met) : ~ Qu!Authorized(e, args.authorizedDID)} = others
    BY QueriesFilter
  <2>4. Qu!Without(met, others) = found
    BY QueriesFilter
  <2>5. QED BY <2>1, <2>2, <2>3, <2>4
<1>3. met \in Seq(Qu!Entry) /\ Elements(met) = Elements(t) \ unmet
  <2> HIDE DEF unmet
  <2>1. QED BY <1>1, WithoutElements
<1>4. found \in Seq(Qu!Entry) /\ Elements(found) = Elements(met) \ others
  <2> HIDE DEF met, others
  <2>1. QED BY <1>3, WithoutElements
<1>5. sorted \in Seq(Qu!Entry) /\ Elements(sorted) = Elements(found)
  <2> HIDE DEF found
  <2>1. QED BY <1>4, SortedKeeps
<1>6. /\ Elements(Qu!JsonQuery(args)) \subseteq Elements(sorted)
      /\ args.skip <= 1 \/ args.take = 0 => Qu!JsonQuery(args) = Qu!Page(sorted, args.skip, args.take)
  <2> HIDE DEF sorted
  <2>1. QED BY <1>1, <1>2, <1>5, JsonPageIs
<1>7. \A e \in Elements(Qu!JsonQuery(args)) : e \in Elements(t) /\ Qu!Authorized(e, args.authorizedDID)
  <2>1. \A e \in Elements(met) \ others : Qu!Authorized(e, args.authorizedDID)
    <3> HIDE DEF met
    <3>1. QED OBVIOUS
  <2> HIDE DEF sorted, found, met, others, unmet
  <2>2. QED BY <1>3, <1>4, <1>5, <1>6, <2>1
<1>8. ASSUME Qu!WithinJson(args) PROVE found = Without(t, Unwanted(args))
  <2>1. found = Without(t, unmet \union others)
    <3>1. PICK first, second : first = unmet /\ second = others
      OBVIOUS
    <3> HIDE DEF unmet, others
    <3>2. Without(Without(t, first), second) = Without(t, first \union second)
      BY <1>1, WithoutTwice
    <3>3. QED BY <3>1, <3>2
  <2>2. ASSUME NEW e \in Elements(t) PROVE e \in unmet \union others <=> e \in Unwanted(args)
    <3>1. ASSUME NEW i \in DOMAIN args.where PROVE Qu!JsonMeets(args.where[i], e) <=> Qu!Meets(args.where[i], e)
      <4>1. PICK c : c = args.where[i]
        OBVIOUS
      <4>2. (c.column = "date" => c.op = "IsNull") /\ (c.column = "verifier" => c.op # "IsNull")
        BY <1>8, <4>1 DEF Qu!WithinJson, Qu!OnVerifier
      <4>3. IF c.column = "verifier" THEN c \in Qu!VerifierCondition ELSE c \in Qu!Condition
        BY <4>1, AskedArgs
      <4>4. Qu!JsonMeets(c, e) <=> Qu!Meets(c, e)
        BY <4>2, <4>3, JsonMeetsIs
      <4>5. QED BY <4>1, <4>4
    <3>2. Qu!JsonFilter(args, e) <=> \A i \in DOMAIN args.where : Qu!Meets(args.where[i], e)
      BY <3>1 DEF Qu!JsonFilter
    <3>3. e \in others <=> e \notin unmet /\ ~ Qu!Authorized(e, args.authorizedDID)
      <4> HIDE DEF met, unmet
      <4>1. QED BY <1>3, <2>2
    <3>4. QED BY <2>2, <3>2, <3>3 DEF Unwanted, Wanted
  <2>3. PICK some : some = unmet \union others
    OBVIOUS
  <2>4. Without(t, some) = Without(t, Unwanted(args))
    <3> HIDE DEF unmet, others
    <3>1. \A e \in Elements(t) : e \in some <=> e \in Unwanted(args)
      BY <2>2, <2>3
    <3>2. QED BY <1>1, <3>1, WithoutAlike
  <2>5. QED BY <2>1, <2>3, <2>4
<1>9. ASSUME Qu!WithinJson(args) PROVE Qu!JsonQuery(args) = Qu!Answer(args)
  <2>1. Qu!JsonQuery(args) = Qu!Page(sorted, args.skip, args.take)
    BY <1>6, <1>9 DEF Qu!WithinJson
  <2>2. QED BY <1>8, <1>9, <2>1, AnswerIs
<1>10. QED BY <1>7, <1>9

(* As many rows of an entry as match, *)
Count(args, e) == Cardinality(Qu!Matching(args, e))
\* and the rows of the first entries.
RowsUpTo(args, s, n) == UNION {{i} \X (1 .. Count(args, s[i])) : i \in 1 .. n}

LEMMA JoinedIsFinite ==
  ASSUME NEW e \in Qu!Entry, NEW of
  PROVE  IsFiniteSet(Qu!Joined(of, e)) /\ Qu!Joined(of, e) # {}
<1>1. PICK one, nobody, n : one = {1} /\ nobody = {"nobody"} /\ n = e.rows
  OBVIOUS
<1>2. n \in Nat \ {0} /\ e.verifier \subseteq Qu!Parties
  BY <1>1, EntryHas
<1>3. IsFiniteSet(one) /\ IsFiniteSet(nobody)
  BY <1>1, FS_Singleton
<1>4. IsFiniteSet(e.verifier)
  <2>1. PICK two : two = {"alice", "bob"}
    OBVIOUS
  <2>2. IsFiniteSet({"alice"})
    BY FS_Singleton
  <2>3. PICK alice : alice = {"alice"}
    OBVIOUS
  <2>4. two = alice \union {"bob"}
    BY <2>1, <2>3
  <2>5. IsFiniteSet(two)
    BY <2>2, <2>3, <2>4, FS_AddElement
  <2>6. e.verifier \subseteq two
    BY <1>2, <2>1 DEF Qu!Parties
  <2>7. QED BY <2>5, <2>6, FS_Subset
<1>5. PICK verifiers : verifiers = IF e.verifier = {} THEN nobody ELSE e.verifier
  OBVIOUS
<1>6. IsFiniteSet(verifiers) /\ verifiers # {}
  BY <1>1, <1>3, <1>4, <1>5
<1>7. IsFiniteSet(one \X verifiers)
  BY <1>3, <1>6, FS_Product
<1>8. IsFiniteSet(1 .. n) /\ 1 \in 1 .. n
  <2>1. PICK first : first = 1
    OBVIOUS
  <2>2. first \in Int /\ n \in Int
    BY <1>2, <2>1
  <2>3. IsFiniteSet(first .. n)
    BY <2>2, FS_Interval
  <2>4. QED BY <1>2, <2>1, <2>3
<1>9. PICK rows : rows = 1 .. n
  OBVIOUS
<1>10. IsFiniteSet(rows \X nobody)
  BY <1>3, <1>8, <1>9, FS_Product
<1>11. Qu!Joined(of, e) = IF of = "presentations" THEN one \X verifiers ELSE rows \X nobody
  BY <1>1, <1>5, <1>9 DEF Qu!Joined
<1>12. one \X verifiers # {} /\ rows \X nobody # {}
  <2>1. PICK v : v \in verifiers
    BY <1>6
  <2>2. <<1, v>> \in one \X verifiers
    BY <1>1, <2>1
  <2>3. <<1, "nobody">> \in rows \X nobody
    BY <1>1, <1>8, <1>9
  <2>4. QED BY <2>2, <2>3
<1>13. QED BY <1>7, <1>10, <1>11, <1>12

LEMMA CountIs ==
  ASSUME NEW args, NEW e \in Qu!Entry
  PROVE  /\ Count(args, e) \in Nat
         /\ Count(args, e) = 0 <=> Qu!Matching(args, e) = {}
         /\ Cardinality(Qu!Joined(args.table.of, e)) = 1 /\ Qu!Matching(args, e) # {} => Count(args, e) = 1
<1>1. PICK joined, some : joined = Qu!Joined(args.table.of, e) /\ some = Qu!Matching(args, e)
  OBVIOUS
<1>2. IsFiniteSet(joined)
  BY <1>1, JoinedIsFinite
<1>3. some \subseteq joined
  BY <1>1 DEF Qu!Matching
<1>4. IsFiniteSet(some) /\ Cardinality(some) <= Cardinality(joined)
  BY <1>2, <1>3, FS_Subset
<1>5. Cardinality(some) \in Nat /\ Cardinality(joined) \in Nat
  BY <1>2, <1>4, FS_CardinalityType
<1>6. Cardinality(some) = 0 <=> some = {}
  BY <1>4, FS_EmptySet
<1>7. QED BY <1>1, <1>4, <1>5, <1>6 DEF Count

LEMMA RowsAre ==
  ASSUME NEW args, NEW s
  PROVE  Qu!SqlRows(args, s) = UNION {{i} \X (1 .. Count(args, s[i])) : i \in DOMAIN s}
<1>1. \A i \in DOMAIN s : Qu!Cardinality(Qu!Matching(args, s[i])) = Count(args, s[i])
  <2>1. ASSUME NEW S PROVE Qu!Cardinality(S) = Cardinality(S)
    BY DEF Qu!Cardinality, Cardinality
  <2>2. QED BY <2>1 DEF Count
<1>2. Qu!SqlRows(args, s) = UNION {{i} \X (1 .. Qu!Cardinality(Qu!Matching(args, s[i]))) : i \in DOMAIN s}
  BY DEF Qu!SqlRows
<1>3. QED BY <1>1, <1>2

LEMMA RowsFinite ==
  ASSUME NEW args, NEW s \in Seq(Qu!Entry)
  PROVE  \A n \in 0 .. Len(s) : IsFiniteSet(RowsUpTo(args, s, n))
<1> DEFINE T == {n \in 0 .. Len(s) : ~ IsFiniteSet(RowsUpTo(args, s, n))}
<1>1. SUFFICES ASSUME T # {} PROVE FALSE
  OBVIOUS
<1>2. PICK n \in T : \A m \in T : n <= m
  <2> HIDE DEF T
  <2>1. T \in SUBSET Nat BY DEF T
  <2>2. QED BY <1>1, <2>1, Least
<1>3. n \in 0 .. Len(s) /\ ~ IsFiniteSet(RowsUpTo(args, s, n)) /\ Len(s) \in Nat
  BY <1>2
<1>4. n # 0
  <2>1. RowsUpTo(args, s, 0) = {}
    BY DEF RowsUpTo
  <2>2. QED BY <1>3, <2>1, FS_EmptySet
<1>5. PICK m, k : m = n - 1 /\ k = Count(args, s[n])
  OBVIOUS
<1>6. m \in 0 .. Len(s) /\ m < n /\ n = m + 1 /\ n \in 1 .. Len(s)
  BY <1>3, <1>4, <1>5
<1>7. IsFiniteSet(RowsUpTo(args, s, m))
  <2>1. m \notin T
    <3>1. ~ (n <= m)
      BY <1>3, <1>6
    <3>2. QED BY <1>2, <3>1
  <2>2. QED BY <1>6, <2>1
<1>8. k \in Nat
  <2>1. s[n] \in Qu!Entry
    BY <1>6
  <2>2. QED BY <1>5, <2>1, CountIs
<1>9. RowsUpTo(args, s, n) = RowsUpTo(args, s, m) \union ({n} \X (1 .. k))
  <2>1. 1 .. n = (1 .. m) \union {n}
    BY <1>3, <1>6
  <2>2. QED BY <1>5, <2>1 DEF RowsUpTo
<1>10. IsFiniteSet({n} \X (1 .. k))
  <2>1. IsFiniteSet({n})
    BY FS_Singleton
  <2>2. PICK one : one = 1
    OBVIOUS
  <2>3. one \in Int /\ k \in Int
    BY <1>8, <2>2
  <2>4. IsFiniteSet(one .. k)
    BY <2>3, FS_Interval
  <2>5. QED BY <2>1, <2>2, <2>4, FS_Product
<1>11. PICK before, these : before = RowsUpTo(args, s, m) /\ these = {n} \X (1 .. k)
  OBVIOUS
<1>12. IsFiniteSet(before \union these)
  BY <1>7, <1>10, <1>11, FS_Union
<1>13. QED BY <1>3, <1>9, <1>11, <1>12

\* The rows up to one, that one among them.
RowsTo(row, rows) == {r \in rows : r[1] < row[1] \/ (r[1] = row[1] /\ r[2] <= row[2])}

LEMMA RowNumberIs ==
  ASSUME NEW row, NEW rows
  PROVE  Qu!RowNumber(row, rows) = Cardinality(RowsTo(row, rows))
<1>1. Qu!RowNumber(row, rows) = Qu!Cardinality(RowsTo(row, rows))
  BY DEF Qu!RowNumber, RowsTo
<1>2. PICK S : S = RowsTo(row, rows)
  OBVIOUS
<1>3. Qu!Cardinality(S) = Cardinality(S)
  BY DEF Qu!Cardinality, Cardinality
<1>4. QED BY <1>1, <1>2, <1>3

\* Rows are counted from one.
LEMMA RowsAreCounted ==
  ASSUME NEW args, NEW s \in Seq(Qu!Entry), NEW row \in Qu!SqlRows(args, s)
  PROVE  Qu!RowNumber(row, Qu!SqlRows(args, s)) \in Nat \ {0}
<1> DEFINE some == RowsTo(row, Qu!SqlRows(args, s))
<1>1. Qu!SqlRows(args, s) = RowsUpTo(args, s, Len(s))
  <2>1. DOMAIN s = 1 .. Len(s)
    OBVIOUS
  <2>2. QED BY <2>1, RowsAre DEF RowsUpTo
<1>2. PICK n : n = Len(s)
  OBVIOUS
<1>3. IsFiniteSet(Qu!SqlRows(args, s))
  <2>1. n \in 0 .. Len(s)
    BY <1>2
  <2>2. QED BY <1>1, <1>2, <2>1, RowsFinite
<1>4. IsFiniteSet(some)
  <2>1. some \in SUBSET Qu!SqlRows(args, s)
    BY DEF RowsTo
  <2> HIDE DEF some
  <2>2. QED BY <1>3, <2>1, FS_Subset
<1>5. row \in some
  <2>1. PICK i \in DOMAIN s : row \in {i} \X (1 .. Count(args, s[i]))
    BY RowsAre
  <2>2. PICK k : k = Count(args, s[i])
    OBVIOUS
  <2>3. k \in Nat /\ i \in Nat
    <3>1. s[i] \in Qu!Entry /\ i \in Nat
      OBVIOUS
    <3>2. QED BY <2>2, <3>1, CountIs
  <2>4. row[1] = i /\ row[2] \in 1 .. k
    BY <2>1, <2>2
  <2>5. row[2] <= row[2]
    BY <2>3, <2>4
  <2>6. QED BY <2>5 DEF RowsTo
<1>6. Cardinality(some) \in Nat /\ Cardinality(some) # 0
  <2> HIDE DEF some
  <2>1. Cardinality(some) \in Nat
    BY <1>4, FS_CardinalityType
  <2>2. QED BY <1>4, <1>5, <2>1, FS_EmptySet
<1>7. QED BY <1>6, RowNumberIs

\* With a row for each entry, an entry has the number of its row.
Singles(n) == {<<i, 1>> : i \in 1 .. n}

LEMMA SinglesCounted ==
  ASSUME NEW len \in Nat
  PROVE  \A n \in 0 .. len : IsFiniteSet(Singles(n)) /\ Cardinality(Singles(n)) = n
<1> DEFINE Right(n) == IsFiniteSet(Singles(n)) /\ Cardinality(Singles(n)) = n
           T == {n \in 0 .. len : ~ Right(n)}
<1>1. SUFFICES ASSUME T # {} PROVE FALSE
  OBVIOUS
<1>2. PICK n \in T : \A m \in T : n <= m
  <2> HIDE DEF T
  <2>1. T \in SUBSET Nat BY DEF T
  <2>2. QED BY <1>1, <2>1, Least
<1>3. n \in 0 .. len /\ ~ Right(n)
  BY <1>2
<1>4. n # 0
  <2>1. Singles(0) = {}
    BY DEF Singles
  <2>2. QED BY <1>3, <2>1, FS_EmptySet
<1>5. PICK m, row : m = n - 1 /\ row = <<n, 1>>
  OBVIOUS
<1>6. m \in 0 .. len /\ m < n /\ n = m + 1 /\ n \in 1 .. len
  BY <1>3, <1>4, <1>5
<1>7. IsFiniteSet(Singles(m)) /\ Cardinality(Singles(m)) = m
  <2>1. ~ (n <= m)
    BY <1>3, <1>6
  <2>2. m \notin T
    BY <1>2, <2>1
  <2>3. QED BY <1>6, <2>2
<1>8. Singles(n) = Singles(m) \union {row} /\ row \notin Singles(m)
  <2>1. 1 .. n = (1 .. m) \union {n} /\ n \notin 1 .. m
    BY <1>3, <1>6
  <2>2. QED BY <1>5, <2>1 DEF Singles
<1>9. IsFiniteSet(Singles(n)) /\ Cardinality(Singles(n)) = m + 1
  BY <1>7, <1>8, FS_AddElement
<1>10. QED BY <1>3, <1>6, <1>9

LEMMA RowsOfSingles ==
  ASSUME NEW args, NEW s \in Seq(Qu!Entry), \A i \in DOMAIN s : Count(args, s[i]) = 1
  PROVE  /\ Qu!SqlRows(args, s) = {<<i, 1>> : i \in DOMAIN s}
         /\ \A i \in DOMAIN s : Qu!RowNumber(<<i, 1>>, Qu!SqlRows(args, s)) = i
<1>1. DOMAIN s = 1 .. Len(s) /\ Len(s) \in Nat
  OBVIOUS
<1>2. Qu!SqlRows(args, s) = {<<i, 1>> : i \in DOMAIN s}
  <2>1. \A i \in DOMAIN s : {i} \X (1 .. Count(args, s[i])) = {<<i, 1>>}
    <3>1. 1 .. 1 = {1}
      OBVIOUS
    <3>2. QED BY <3>1
  <2>2. QED BY <2>1, RowsAre
<1>3. ASSUME NEW i \in DOMAIN s PROVE Qu!RowNumber(<<i, 1>>, Qu!SqlRows(args, s)) = i
  <2>1. PICK row : row = <<i, 1>>
    OBVIOUS
  <2>2. RowsTo(row, Qu!SqlRows(args, s)) = Singles(i)
    <3>1. row[1] = i /\ row[2] = 1
      BY <2>1
    <3>2. ASSUME NEW r \in RowsTo(row, Qu!SqlRows(args, s)) PROVE r \in Singles(i)
      <4>1. PICK j \in DOMAIN s : r = <<j, 1>>
        BY <1>2 DEF RowsTo
      <4>2. j < i \/ j = i
        BY <3>1, <4>1 DEF RowsTo
      <4>3. j \in 1 .. i
        BY <1>1, <4>2
      <4>4. QED BY <4>1, <4>3 DEF Singles
    <3>3. ASSUME NEW r \in Singles(i) PROVE r \in RowsTo(row, Qu!SqlRows(args, s))
      <4>1. PICK j \in 1 .. i : r = <<j, 1>>
        BY DEF Singles
      <4>2. j \in DOMAIN s /\ (j < i \/ j = i) /\ r[1] = j /\ r[2] = 1
        BY <1>1, <4>1
      <4>3. r \in Qu!SqlRows(args, s)
        BY <1>2, <4>1, <4>2
      <4>4. r[1] < row[1] \/ (r[1] = row[1] /\ r[2] <= row[2])
        BY <3>1, <4>2
      <4>5. QED BY <4>3, <4>4 DEF RowsTo
    <3>4. QED BY <3>2, <3>3
  <2>3. i \in 0 .. Len(s)
    BY <1>1
  <2>4. Cardinality(Singles(i)) = i
    BY <1>1, <2>3, SinglesCounted
  <2>5. QED BY <2>1, <2>2, <2>4, RowNumberIs
<1>4. QED BY <1>2, <1>3

(* With a row for each entry, or nothing skipped and all taken, the page of rows
   is the page of entries. *)
LEMMA SqlPageIs ==
  ASSUME NEW args, NEW s \in Seq(Qu!Entry), NEW skip \in Nat, NEW take \in Nat,
         args.skip = skip, args.take = take, \A i \in DOMAIN s : Qu!Matching(args, s[i]) # {}
  PROVE  /\ Elements(Qu!SqlPage(args, s)) \subseteq Elements(s)
         /\ NoTwice(s) /\ ((\A i \in DOMAIN s : Count(args, s[i]) = 1) \/ (skip = 0 /\ take = 0))
            => Qu!SqlPage(args, s) = Qu!Page(s, skip, take)
<1> DEFINE rows == Qu!SqlRows(args, s)
           Shown(e) == \E row \in rows : s[row[1]] = e /\ Qu!InPage(row, rows, skip, take)
           gone == {e \in Elements(s) : ~ Shown(e)}
<1>1. Qu!SqlPage(args, s) = Without(s, gone)
  <2>1. Qu!SqlPage(args, s) = Qu!Without(s, {e \in Qu!Range(s) : ~ Shown(e)})
    BY DEF Qu!SqlPage, Qu!Selected
  <2>2. {e \in Qu!Range(s) : ~ Shown(e)} = gone
    <3> HIDE DEF Shown
    <3>1. QED BY QueriesFilter
  <2>3. QED BY <2>1, <2>2, QueriesFilter
<1>2. Elements(Qu!SqlPage(args, s)) \subseteq Elements(s)
  <2> HIDE DEF gone
  <2>1. QED BY <1>1, WithoutElements
<1>3. PICK a, b, n : a = skip + 1 /\ n = Len(s) /\ b = (IF take = 0 THEN n ELSE skip + take)
  OBVIOUS
<1>4. a \in Nat \ {0} /\ b \in Nat /\ n \in Nat /\ DOMAIN s = 1 .. n
  BY <1>3
<1>5. Qu!Page(s, skip, take) = SubSeq(s, a, Until(b, n))
  <2>1. Qu!Page(s, skip, take) = SubSeq(s, skip + 1, IF take = 0 THEN Len(s) ELSE Until(skip + take, Len(s)))
    BY PageIs
  <2>2. Until(b, n) = (IF take = 0 THEN Len(s) ELSE Until(skip + take, Len(s)))
    BY <1>3, <1>4 DEF Until
  <2>3. QED BY <1>3, <2>1, <2>2
<1>6. ASSUME \A i \in DOMAIN s : s[i] \in gone <=> ~ (a <= i /\ i <= b)
      PROVE  Qu!SqlPage(args, s) = Qu!Page(s, skip, take)
  <2>1. PICK out : out = gone
    OBVIOUS
  <2> HIDE DEF gone
  <2>2. Around(s, out, a, b)
    BY <1>6, <2>1 DEF Around
  <2>3. Without(s, out) = SubSeq(s, a, Until(b, Len(s)))
    BY <1>4, <2>2, WithoutAround
  <2>4. QED BY <1>1, <1>3, <1>5, <2>1, <2>3
<1>7. \A i \in DOMAIN s : s[i] \in gone <=> ~ Shown(s[i])
  <2> HIDE DEF Shown
  <2>1. QED BY DEF Elements
<1>8. ASSUME NoTwice(s), \A i \in DOMAIN s : Count(args, s[i]) = 1, NEW i \in DOMAIN s
      PROVE  Shown(s[i]) <=> (a <= i /\ i <= b)
  <2>1. rows = {<<j, 1>> : j \in DOMAIN s} /\ Qu!RowNumber(<<i, 1>>, rows) = i
    BY <1>8, RowsOfSingles
  <2>2. Shown(s[i]) <=> Qu!InPage(<<i, 1>>, rows, skip, take)
    <3>1. ASSUME Shown(s[i]) PROVE Qu!InPage(<<i, 1>>, rows, skip, take)
      <4>1. PICK row \in rows : s[row[1]] = s[i] /\ Qu!InPage(row, rows, skip, take)
        BY <3>1
      <4>2. PICK j \in DOMAIN s : row = <<j, 1>>
        BY <2>1
      <4>3. j = i
        BY <1>8, <4>1, <4>2 DEF NoTwice
      <4>4. QED BY <4>1, <4>2, <4>3
    <3>2. ASSUME Qu!InPage(<<i, 1>>, rows, skip, take) PROVE Shown(s[i])
      <4>1. PICK row : row = <<i, 1>>
        OBVIOUS
      <4>2. row \in rows /\ row[1] = i
        BY <2>1, <4>1
      <4>3. QED BY <3>2, <4>1, <4>2
    <3>3. QED BY <3>1, <3>2
  <2>3. Qu!InPage(<<i, 1>>, rows, skip, take) <=> skip < i /\ (take # 0 => i <= skip + take)
    BY <2>1 DEF Qu!InPage
  <2>4. i \in 1 .. n
    BY <1>4
  <2>5. (skip < i /\ (take # 0 => i <= skip + take)) <=> (a <= i /\ i <= b)
    BY <1>3, <1>4, <2>4
  <2>6. QED BY <2>2, <2>3, <2>5
<1>9. ASSUME skip = 0, take = 0, NEW i \in DOMAIN s PROVE Shown(s[i]) /\ a <= i /\ i <= b
  <2>1. i \in 1 .. n
    BY <1>4
  <2>2. a <= i /\ i <= b
    BY <1>3, <1>4, <1>9, <2>1
  <2>3. PICK row : row = <<i, 1>>
    OBVIOUS
  <2>4. row \in rows /\ row[1] = i
    <3>1. PICK k : k = Count(args, s[i])
      OBVIOUS
    <3>2. k \in Nat \ {0}
      <4>1. s[i] \in Qu!Entry
        OBVIOUS
      <4>2. QED BY <3>1, <4>1, CountIs
    <3>3. 1 \in 1 .. k
      BY <3>2
    <3>4. row \in {i} \X (1 .. Count(args, s[i]))
      BY <2>3, <3>1, <3>3
    <3>5. QED BY <2>3, <3>4, RowsAre
  <2>5. Qu!RowNumber(row, rows) \in Nat \ {0}
    BY <2>4, RowsAreCounted
  <2>6. Qu!InPage(row, rows, skip, take)
    BY <1>9, <2>5 DEF Qu!InPage
  <2>7. QED BY <2>2, <2>4, <2>6
<1>10. ASSUME NoTwice(s), \A i \in DOMAIN s : Count(args, s[i]) = 1
       PROVE  Qu!SqlPage(args, s) = Qu!Page(s, skip, take)
  <2> HIDE DEF Shown, gone
  <2>1. \A i \in DOMAIN s : s[i] \in gone <=> ~ (a <= i /\ i <= b)
    BY <1>7, <1>8, <1>10
  <2>2. QED BY <1>6, <2>1
<1>11. ASSUME skip = 0, take = 0 PROVE Qu!SqlPage(args, s) = Qu!Page(s, skip, take)
  <2> HIDE DEF Shown, gone
  <2>1. \A i \in DOMAIN s : s[i] \in gone <=> ~ (a <= i /\ i <= b)
    BY <1>7, <1>9, <1>11
  <2>2. QED BY <1>6, <2>1
<1>12. QED BY <1>2, <1>10, <1>11

(* A condition on what a column has: SQL's and its meaning. *)
LEMMA SqlMeetsIs ==
  ASSUME NEW c \in Qu!Condition, NEW e \in Qu!Entry,
         ~ (c.not /\ c.column = "maybe" /\ c.op # "IsNull")
  PROVE  Qu!SqlMeets(c, e) <=> Qu!Meets(c, e)
<1>1. /\ c.column \in Qu!Columns /\ c.op \in Qu!Ops /\ c.value \subseteq Qu!Value /\ c.not \in BOOLEAN
      /\ e.text \in Qu!Value /\ e.date \in Qu!Value
  BY EntryHas DEF Qu!Condition
<1>2. PICK column, op, value, x : column = c.column /\ op = c.op /\ value = c.value /\ x = e[c.column]
  OBVIOUS
<1>3. CASE x = Qu!Absent /\ op # "IsNull"
  <2>1. column = "maybe"
    <3>1. column # "text"
      <4>1. column = "text" => x = e.text
        BY <1>2
      <4>2. QED BY <1>1, <1>3, <4>1 DEF Qu!Value
    <3>2. column # "date"
      <4>1. column = "date" => x = e.date
        BY <1>2
      <4>2. QED BY <1>1, <1>3, <4>1 DEF Qu!Value
    <3>3. QED BY <1>1, <1>2, <3>1, <3>2 DEF Qu!Columns
  <2>2. c.not = FALSE
    BY <1>1, <1>2, <1>3, <2>1
  <2>3. op \in {"Equal", "LessThan", "In"} /\ x \notin value
    <3>1. op \in {"Equal", "LessThan", "In"}
      BY <1>1, <1>2, <1>3 DEF Qu!Ops
    <3>2. x \notin value
      BY <1>1, <1>2, <1>3 DEF Qu!Value
    <3>3. QED BY <3>1, <3>2
  <2>4. Qu!Holds(c, x) = FALSE
    <3>1. CASE op = "LessThan"
      <4>1. Qu!Holds(c, x) = (x # Qu!Absent /\ \A v \in c.value : x < v)
        BY <1>2, <3>1 DEF Qu!Holds
      <4>2. QED BY <1>3, <4>1
    <3>2. CASE op # "LessThan"
      <4>1. Qu!Holds(c, x) = (x \in c.value)
        BY <1>2, <2>3, <3>2 DEF Qu!Holds
      <4>2. x \notin c.value
        BY <1>2, <2>3
      <4>3. (x \in c.value) = FALSE
        BY <4>2
      <4>4. QED BY <4>1, <4>3
    <3>3. QED BY <3>1, <3>2
  <2>5. Qu!Meets(c, e) = (Qu!Holds(c, x) # c.not)
    BY <1>1, <1>2 DEF Qu!Meets, Qu!Columns
  <2>6. ~ Qu!Meets(c, e)
    BY <2>2, <2>4, <2>5
  <2>7. ~ Qu!SqlMeets(c, e)
    BY <1>2, <1>3 DEF Qu!SqlMeets
  <2>8. QED BY <2>6, <2>7
<1>4. CASE ~ (x = Qu!Absent /\ op # "IsNull")
  BY <1>2, <1>4 DEF Qu!SqlMeets
<1>5. QED BY <1>3, <1>4

(* Within what the SQL store keeps to, some joined row of an entry matches exactly
   when the entry is asked for. *)
LEMMA MatchingIs ==
  ASSUME Qu!QueriesAssumption, NEW args \in Qu!Args, NEW e \in Elements(args.table.entries), Qu!WithinSql(args)
  PROVE  Qu!Matching(args, e) # {} <=> Wanted(args, e)
<1> DEFINE where == args.where
           did == args.authorizedDID
           of == args.table.of
           joined == Qu!Joined(of, e)
           Column(i) == where[i].column = "verifier"
<1>1. e \in Qu!Entry
  BY AskedArgs DEF Elements
<1>2. /\ did \in {"alice", "bob", "anyone"} /\ e.party \in {"alice", "bob"} /\ e.verifier \subseteq {"alice", "bob"}
      /\ of # "presentations" => e.verifier = {}
      /\ (\E i \in DOMAIN where : Column(i)) => of = "presentations"
      /\ DOMAIN where = 1 .. Len(where) /\ Len(where) \in Nat
  BY <1>1, AskedArgs, EntryHas DEF Qu!Parties
<1>3. /\ \A i, j \in DOMAIN where : where[i].column = where[j].column => i = j
      /\ \A i \in DOMAIN where : Column(i) => where[i].not = FALSE /\ did = "anyone"
      /\ of = "identifiers" => did = "anyone"
  <2>1. \A i \in DOMAIN where : Qu!LastOn(where, i)
    BY DEF Qu!WithinSql, Qu!Distinct
  <2>2. ASSUME NEW i \in DOMAIN where, NEW j \in DOMAIN where, where[i].column = where[j].column, i < j PROVE FALSE
    <3>1. j \in (i + 1) .. Len(where)
      BY <1>2, <2>2
    <3>2. QED BY <2>1, <2>2, <3>1 DEF Qu!LastOn
  <2>3. \A i, j \in DOMAIN where : where[i].column = where[j].column => i = j
    <3>1. SUFFICES ASSUME NEW i \in DOMAIN where, NEW j \in DOMAIN where, where[i].column = where[j].column, i # j
                   PROVE  FALSE
      OBVIOUS
    <3>2. i < j \/ j < i
      BY <1>2, <3>1
    <3>3. QED BY <2>2, <3>1, <3>2
  <2>4. ASSUME NEW i \in DOMAIN where, Column(i) PROVE where[i].not = FALSE /\ did = "anyone"
    <3>1. where[i] \in Qu!VerifierCondition
      BY <2>4, AskedArgs
    <3>2. where[i].not \in BOOLEAN
      BY <3>1 DEF Qu!VerifierCondition
    <3>3. ~ where[i].not /\ did = "anyone"
      BY <2>4 DEF Qu!WithinSql, Qu!PlainVerifiers, Qu!OnVerifier
    <3>4. QED BY <3>2, <3>3
  <2>5. of = "identifiers" => did = "anyone"
    BY DEF Qu!WithinSql
  <2>6. QED BY <2>3, <2>4, <2>5
<1>4. Qu!SqlWhere(args, e) <=> \A i \in DOMAIN where : ~ Column(i) => Qu!Meets(where[i], e)
  <2>1. ASSUME NEW i \in DOMAIN where, ~ Column(i) PROVE Qu!SqlMeets(where[i], e) <=> Qu!Meets(where[i], e)
    <3>1. where[i] \in Qu!Condition
      BY <2>1, AskedArgs
    <3>2. ~ (where[i].not /\ where[i].column = "maybe" /\ where[i].op # "IsNull")
      BY DEF Qu!WithinSql, Qu!NegatesAbsent
    <3>3. QED BY <1>1, <3>1, <3>2, SqlMeetsIs
  <2>2. \A i \in DOMAIN where : Qu!LastOn(where, i)
    BY DEF Qu!WithinSql, Qu!Distinct
  <2>3. QED BY <2>1, <2>2 DEF Qu!SqlWhere, Qu!OnVerifier
<1>5. ASSUME NEW i \in DOMAIN where, Column(i)
      PROVE  Qu!Meets(where[i], e) <=> IF where[i].op = "IsNull" THEN e.verifier = {} ELSE e.verifier \cap where[i].dids # {}
  <2>1. where[i].not = FALSE
    BY <1>3, <1>5
  <2>2. Qu!Meets(where[i], e) = (Qu!HoldsOf(where[i], e.verifier) # FALSE)
    BY <1>5, <2>1 DEF Qu!Meets
  <2>3. QED BY <2>2 DEF Qu!HoldsOf
<1>6. ASSUME NEW row
      PROVE  Qu!SqlVerifier(args, row) <=>
               \A i \in DOMAIN where : Column(i) =>
                 IF where[i].op = "IsNull" THEN row[2] = "nobody" ELSE row[2] \in where[i].dids
  <2>1. ASSUME NEW i \in DOMAIN where PROVE Qu!FirstOnVerifier(where, i) <=> Column(i)
    <3>1. ASSUME Column(i), NEW j \in 1 .. i - 1, Column(j) PROVE FALSE
      <4>1. j \in DOMAIN where /\ j # i
        BY <1>2, <3>1
      <4>2. QED BY <1>3, <3>1, <4>1
    <3>2. QED BY <3>1 DEF Qu!FirstOnVerifier, Qu!OnVerifier
  <2>2. QED BY <2>1 DEF Qu!SqlVerifier
<1>7. \A row \in joined : row[2] = "nobody" <=> e.verifier = {}
  <2>1. CASE of = "presentations"
    BY <1>2, <2>1 DEF Qu!Joined
  <2>2. CASE of # "presentations"
    BY <1>2, <2>2 DEF Qu!Joined
  <2>3. QED BY <2>1, <2>2
<1>8. \A row \in joined : row[2] \in e.verifier \union {"nobody"}
  <2>1. CASE of = "presentations"
    BY <2>1 DEF Qu!Joined
  <2>2. CASE of # "presentations"
    BY <2>2 DEF Qu!Joined
  <2>3. QED BY <2>1, <2>2
<1>9. \A v \in e.verifier : \E row \in joined : row[2] = v
  <2>1. SUFFICES ASSUME NEW v \in e.verifier PROVE \E row \in joined : row[2] = v
    OBVIOUS
  <2>2. of = "presentations"
    BY <1>2
  <2>3. PICK row : row = <<1, v>>
    OBVIOUS
  <2>4. row \in joined /\ row[2] = v
    BY <2>2, <2>3 DEF Qu!Joined
  <2>5. QED BY <2>4
<1>10. \E row : row \in joined
  BY <1>1, JoinedIsFinite
<1>11. ASSUME NEW row \in joined
       PROVE  row \in Qu!Matching(args, e) <=>
                Qu!SqlWhere(args, e) /\ Qu!SqlVerifier(args, row) /\ (of = "identifiers" \/ did \in {"anyone", e.party, row[2]})
  BY DEF Qu!Matching, Qu!SqlAuthorized
<1>12. Qu!Matching(args, e) \subseteq joined
  BY DEF Qu!Matching
<1>13. Wanted(args, e) <=> (\A i \in DOMAIN where : Qu!Meets(where[i], e)) /\ did \in {"anyone", e.party} \union e.verifier
  BY DEF Wanted, Qu!Authorized
<1> HIDE DEF where, did, of, joined
<1>14. CASE \E i \in DOMAIN where : Column(i)
  <2>1. PICK i \in DOMAIN where : Column(i)
    BY <1>14
  <2>2. did = "anyone" /\ \A j \in DOMAIN where : Column(j) <=> j = i
    BY <1>3, <2>1
  <2>3. ASSUME NEW row \in joined
        PROVE  row \in Qu!Matching(args, e) <=>
                 Qu!SqlWhere(args, e) /\ IF where[i].op = "IsNull" THEN row[2] = "nobody" ELSE row[2] \in where[i].dids
    <3>1. Qu!SqlVerifier(args, row) <=> IF where[i].op = "IsNull" THEN row[2] = "nobody" ELSE row[2] \in where[i].dids
      BY <1>6, <2>2
    <3>2. QED BY <1>11, <2>2, <3>1
  <2>4. Wanted(args, e) <=> Qu!SqlWhere(args, e) /\ Qu!Meets(where[i], e)
    BY <1>4, <1>13, <2>2
  <2>5. Qu!Meets(where[i], e) <=> IF where[i].op = "IsNull" THEN e.verifier = {} ELSE e.verifier \cap where[i].dids # {}
    BY <1>5, <2>1
  <2>6. "nobody" \notin where[i].dids
    <3>1. where[i] \in Qu!VerifierCondition
      BY <2>1, AskedArgs DEF where
    <3>2. QED BY <3>1 DEF Qu!VerifierCondition, Qu!Parties
  <2>7. CASE where[i].op = "IsNull"
    BY <1>7, <1>10, <1>12, <2>3, <2>4, <2>5, <2>7
  <2>8. CASE where[i].op # "IsNull"
    <3>1. ASSUME Qu!Matching(args, e) # {} PROVE Wanted(args, e)
      <4>1. PICK row \in joined : row \in Qu!Matching(args, e)
        BY <1>12, <3>1
      <4>2. Qu!SqlWhere(args, e) /\ row[2] \in where[i].dids
        BY <2>3, <2>8, <4>1
      <4>3. row[2] \in e.verifier
        BY <1>8, <2>6, <4>2
      <4>4. QED BY <2>4, <2>5, <2>8, <4>2, <4>3
    <3>2. ASSUME Wanted(args, e) PROVE Qu!Matching(args, e) # {}
      <4>1. PICK v \in e.verifier : v \in where[i].dids
        BY <2>4, <2>5, <2>8, <3>2
      <4>2. PICK row \in joined : row[2] = v
        BY <1>9
      <4>3. QED BY <2>3, <2>4, <2>8, <3>2, <4>1, <4>2
    <3>3. QED BY <3>1, <3>2
  <2>9. QED BY <2>7, <2>8
<1>15. CASE ~ \E i \in DOMAIN where : Column(i)
  <2>1. ASSUME NEW row \in joined
        PROVE  row \in Qu!Matching(args, e) <=>
                 Qu!SqlWhere(args, e) /\ (of = "identifiers" \/ did \in {"anyone", e.party, row[2]})
    <3>1. Qu!SqlVerifier(args, row)
      BY <1>6, <1>15
    <3>2. QED BY <1>11, <3>1
  <2>2. Wanted(args, e) <=> Qu!SqlWhere(args, e) /\ did \in {"anyone", e.party} \union e.verifier
    BY <1>4, <1>13, <1>15
  <2>3. ASSUME Qu!Matching(args, e) # {} PROVE Wanted(args, e)
    <3>1. PICK row \in joined : row \in Qu!Matching(args, e)
      BY <1>12, <2>3
    <3>2. Qu!SqlWhere(args, e) /\ (of = "identifiers" \/ did \in {"anyone", e.party, row[2]})
      BY <2>1, <3>1
    <3>3. did # "nobody"
      BY <1>2
    <3>4. QED BY <1>3, <1>8, <2>2, <3>2, <3>3
  <2>4. ASSUME Wanted(args, e) PROVE Qu!Matching(args, e) # {}
    <3>1. CASE did \in e.verifier
      <4>1. PICK row \in joined : row[2] = did
        BY <1>9, <3>1
      <4>2. QED BY <2>1, <2>2, <2>4, <4>1
    <3>2. CASE did \in {"anyone", e.party}
      BY <1>10, <2>1, <2>2, <2>4, <3>2
    <3>3. QED BY <2>2, <2>4, <3>1, <3>2
  <2>5. QED BY <2>3, <2>4
<1>16. QED BY <1>14, <1>15

(* A row matches of nobody else's entry, unless it is an identifier. *)
LEMMA MatchingIsOwn ==
  ASSUME Qu!QueriesAssumption, NEW args \in Qu!Args, NEW e \in Elements(args.table.entries),
         args.table.of # "identifiers", Qu!Matching(args, e) # {}
  PROVE  Qu!Authorized(e, args.authorizedDID)
<1>1. PICK row : row \in Qu!Joined(args.table.of, e) /\ args.authorizedDID \in {"anyone", e.party, row[2]}
  BY DEF Qu!Matching, Qu!SqlAuthorized
<1>2. row[2] \in e.verifier \union {"nobody"}
  <2>1. CASE args.table.of = "presentations"
    BY <1>1, <2>1 DEF Qu!Joined
  <2>2. CASE args.table.of # "presentations"
    BY <1>1, <2>2 DEF Qu!Joined
  <2>3. QED BY <2>1, <2>2
<1>3. args.authorizedDID # "nobody"
  BY AskedArgs DEF Qu!Parties
<1>4. QED BY <1>1, <1>2, <1>3 DEF Qu!Authorized

(* data-store: the SQL of the conditions, of the caller's entries, of the order
   and of the page. *)
LEMMA SqlIs ==
  ASSUME Qu!QueriesAssumption, NEW args \in Qu!Args
  PROVE  /\ args.table.of # "identifiers" =>
               \A e \in Elements(Qu!SqlQuery(args)) : Qu!Authorized(e, args.authorizedDID)
         /\ Elements(Qu!SqlQuery(args)) \subseteq Elements(args.table.entries)
         /\ Qu!WithinSql(args) => Qu!SqlQuery(args) = Qu!Answer(args)
<1> DEFINE t == args.table.entries
           gone == {e \in Elements(t) : ~ (Qu!Matching(args, e) # {})}
           found == Without(t, gone)
           sorted == Qu!Sorted(found, Qu!SqlOrder(args.order))
<1>1. t \in Seq(Qu!Entry) /\ NoTwice(t) /\ args.skip \in Nat /\ args.take \in Nat
  BY AskedArgs
<1>2. ~ Qu!SqlRefuses(args) => Qu!SqlQuery(args) = Qu!SqlPage(args, sorted)
  <2>1. ~ Qu!SqlRefuses(args) => Qu!SqlQuery(args) = Qu!SqlPage(args, Qu!Sorted(
            Qu!Without(t, {e \in Qu!Range(t) : ~ (Qu!Matching(args, e) # {})}), Qu!SqlOrder(args.order)))
    BY DEF Qu!SqlQuery, Qu!Selected
  <2>2. Qu!Without(t, {e \in Qu!Range(t) : ~ (Qu!Matching(args, e) # {})}) = found
    BY QueriesFilter
  <2>3. QED BY <2>1, <2>2
<1>3. found \in Seq(Qu!Entry) /\ Elements(found) = Elements(t) \ gone /\ NoTwice(found)
  <2>1. PICK some : some = gone
    OBVIOUS
  <2> HIDE DEF gone
  <2>2. found \in Seq(Qu!Entry) /\ Elements(found) = Elements(t) \ gone
    BY <1>1, WithoutElements
  <2>3. NoTwice(Without(t, some))
    BY <1>1, WithoutNoTwice
  <2>4. QED BY <2>1, <2>2, <2>3
<1>4. sorted \in Seq(Qu!Entry) /\ Elements(sorted) = Elements(found) /\ NoTwice(sorted)
  <2> HIDE DEF found
  <2>1. QED BY <1>3, SortedKeeps
<1>5. \A i \in DOMAIN sorted : sorted[i] \in Elements(t) /\ Qu!Matching(args, sorted[i]) # {}
  <2>1. \A e \in Elements(t) \ gone : e \in Elements(t) /\ Qu!Matching(args, e) # {}
    OBVIOUS
  <2>2. \A i \in DOMAIN sorted : sorted[i] \in Elements(sorted)
    <3> HIDE DEF sorted
    <3>1. QED BY DEF Elements
  <2> HIDE DEF sorted, found, gone
  <2>3. QED BY <1>3, <1>4, <2>1, <2>2
<1>6. PICK skip, take : skip = args.skip /\ take = args.take
  OBVIOUS
<1>7. /\ Elements(Qu!SqlPage(args, sorted)) \subseteq Elements(sorted)
      /\ (\A i \in DOMAIN sorted : Count(args, sorted[i]) = 1) \/ (skip = 0 /\ take = 0)
           => Qu!SqlPage(args, sorted) = Qu!Page(sorted, skip, take)
  <2>1. \A i \in DOMAIN sorted : Qu!Matching(args, sorted[i]) # {}
    BY <1>5
  <2>2. skip \in Nat /\ take \in Nat
    BY <1>1, <1>6
  <2> HIDE DEF sorted
  <2>3. QED BY <1>4, <1>6, <2>1, <2>2, SqlPageIs
<1>8. \A e \in Elements(sorted) : e \in Elements(t) /\ Qu!Matching(args, e) # {}
  <2> HIDE DEF sorted
  <2>1. QED BY <1>5 DEF Elements
<1>9. /\ Elements(Qu!SqlQuery(args)) \subseteq Elements(t)
      /\ args.table.of # "identifiers" => \A e \in Elements(Qu!SqlQuery(args)) : Qu!Authorized(e, args.authorizedDID)
  <2>1. CASE Qu!SqlRefuses(args)
    <3>1. Elements(Qu!SqlQuery(args)) = {}
      BY <2>1 DEF Qu!SqlQuery, Elements
    <3>2. QED BY <3>1
  <2>2. CASE ~ Qu!SqlRefuses(args)
    <3>1. Elements(Qu!SqlQuery(args)) \subseteq Elements(sorted)
      BY <1>2, <1>7, <2>2
    <3> HIDE DEF sorted
    <3>2. QED BY <1>8, <3>1, MatchingIsOwn
  <2>3. QED BY <2>1, <2>2
<1>10. ASSUME Qu!WithinSql(args) PROVE Qu!SqlQuery(args) = Qu!Answer(args)
  <2>1. Qu!SqlOrder(args.order) = args.order
    <3>1. args.order \in Qu!Orders
      BY AskedArgs
    <3>2. PICK o : o = args.order
      OBVIOUS
    <3>3. CASE o = <<>>
      BY <3>2, <3>3 DEF Qu!SqlOrder
    <3>4. CASE o \in [1 .. 1 -> [column : {"text", "date"}, desc : BOOLEAN]]
      <4>1. o # <<>> /\ Len(o) = 1 /\ o = <<o[1]>>
        BY <3>4
      <4>2. QED BY <3>2, <4>1 DEF Qu!SqlOrder
    <3>5. CASE o = <<[column |-> "date", desc |-> TRUE], [column |-> "text", desc |-> FALSE]>>
      <4>1. Len(o) = 2
        BY <3>5
      <4>2. Len(o) <= 1
        BY <1>10, <3>2 DEF Qu!WithinSql
      <4>3. QED BY <4>1, <4>2
    <3>6. QED BY <3>1, <3>2, <3>3, <3>4, <3>5 DEF Qu!Orders
  <2>2. found = Without(t, Unwanted(args))
    <3>1. PICK some : some = gone
      OBVIOUS
    <3>2. \A e \in Elements(t) : e \in gone <=> e \in Unwanted(args)
      <4>1. \A e \in Elements(t) : Qu!Matching(args, e) # {} <=> Wanted(args, e)
        BY <1>10, MatchingIs
      <4>2. QED BY <4>1 DEF Unwanted
    <3> HIDE DEF gone
    <3>3. \A e \in Elements(t) : e \in some <=> e \in Unwanted(args)
      BY <3>1, <3>2
    <3>4. Without(t, some) = Without(t, Unwanted(args))
      BY <1>1, <3>3, WithoutAlike
    <3>5. QED BY <3>1, <3>4
  <2>3. (\A i \in DOMAIN sorted : Count(args, sorted[i]) = 1) \/ (skip = 0 /\ take = 0)
    <3>1. \/ \A i \in DOMAIN t : Qu!Cardinality(Qu!Joined(args.table.of, t[i])) = 1
          \/ skip = 0 /\ take = 0
      BY <1>6, <1>10 DEF Qu!WithinSql
    <3>2. SUFFICES ASSUME \A i \in DOMAIN t : Qu!Cardinality(Qu!Joined(args.table.of, t[i])) = 1, NEW i \in DOMAIN sorted
                   PROVE  Count(args, sorted[i]) = 1
      BY <3>1
    <3>3. PICK e : e = sorted[i]
      OBVIOUS
    <3>4. e \in Elements(t) /\ Qu!Matching(args, e) # {}
      BY <1>5, <3>2, <3>3
    <3>5. PICK j \in DOMAIN t : e = t[j]
      BY <3>4 DEF Elements
    <3>6. PICK joined : joined = Qu!Joined(args.table.of, e)
      OBVIOUS
    <3>7. Qu!Cardinality(joined) = 1
      BY <3>2, <3>5, <3>6
    <3>8. Cardinality(joined) = Qu!Cardinality(joined)
      BY DEF Qu!Cardinality, Cardinality
    <3>9. e \in Qu!Entry
      BY <1>1, <3>5
    <3>10. Count(args, e) = 1
      BY <3>4, <3>6, <3>7, <3>8, <3>9, CountIs
    <3>11. QED BY <3>3, <3>10
  <2>4. ~ Qu!SqlRefuses(args)
    BY <1>10 DEF Qu!WithinSql, Qu!SqlRefuses
  <2>5. Qu!SqlQuery(args) = Qu!Page(sorted, args.skip, args.take)
    BY <1>2, <1>6, <1>7, <2>3, <2>4
  <2>6. sorted = Qu!Sorted(Without(t, Unwanted(args)), args.order)
    <3> HIDE DEF found
    <3>1. QED BY <2>1, <2>2
  <2> HIDE DEF sorted
  <2>7. QED BY <2>5, <2>6, AnswerIs
<1>11. QED BY <1>9, <1>10

(* One query at most is asked. *)
OneQuery == query = Qu!NoCall \/ \E args \in Qu!Args : query = [of |-> "query", args |-> args]

(* The answers of both stores are the ones that were asked for, within what each
   keeps to, and never have an entry of somebody else, but for the identifiers of
   the SQL store. *)
THEOREM QueriesAreAnswered ==
  ASSUME Qu!QueriesAssumption
  PROVE  Qu!Spec => [](Qu!JsonAnswers /\ Qu!SqlAnswers /\ Qu!OwnEntriesOnly)
<1>1. Qu!Init => OneQuery
  BY DEF Qu!Init, OneQuery
<1>2. OneQuery /\ [Qu!Query]_query => OneQuery'
  <2>1. SUFFICES ASSUME OneQuery, [Qu!Query]_query PROVE OneQuery'
    OBVIOUS
  <2>2. CASE Qu!Query
    BY <2>2 DEF Qu!Query, OneQuery
  <2>3. CASE UNCHANGED query
    BY <2>1, <2>3 DEF OneQuery
  <2>4. QED BY <2>1, <2>2, <2>3
<1>3. OneQuery => Qu!JsonAnswers /\ Qu!SqlAnswers /\ Qu!OwnEntriesOnly
  <2>1. SUFFICES ASSUME OneQuery, Qu!Asked PROVE Qu!JsonAnswers /\ Qu!SqlAnswers /\ Qu!OwnEntriesOnly
    BY DEF Qu!JsonAnswers, Qu!SqlAnswers, Qu!OwnEntriesOnly
  <2>2. PICK args \in Qu!Args : query = [of |-> "query", args |-> args]
    BY <2>1 DEF OneQuery, Qu!Asked, Qu!NoCall
  <2>3. query.args = args
    BY <2>2
  <2>4. Qu!JsonAnswers
    BY <2>3, JsonIs DEF Qu!JsonAnswers
  <2>5. Qu!SqlAnswers
    BY <2>3, SqlIs DEF Qu!SqlAnswers
  <2>6. Qu!OwnEntriesOnly
    <3> DEFINE own == {e \in Elements(args.table.entries) : Qu!Authorized(e, args.authorizedDID)}
    <3>1. Elements(Qu!JsonQuery(args)) \subseteq own
      BY JsonIs
    <3>2. Elements(Qu!SqlQuery(args)) \subseteq own \/ args.table.of = "identifiers"
      BY SqlIs
    <3>3. own = {e \in Qu!Range(args.table.entries) : Qu!Authorized(e, args.authorizedDID)}
      BY QueriesFilter
    <3>4. Qu!Range(Qu!JsonQuery(args)) \subseteq own /\ (Qu!Range(Qu!SqlQuery(args)) \subseteq own \/ args.table.of = "identifiers")
      BY <3>1, <3>2, QueriesFilter
    <3> HIDE DEF own
    <3>5. QED BY <2>3, <3>3, <3>4 DEF Qu!OwnEntriesOnly
  <2>7. QED BY <2>4, <2>5, <2>6
<1>4. QED BY <1>1, <1>2, <1>3, PTL DEF Qu!Spec

(* All that is looked for in the stores: entries, identifiers and profiles. *)
THEOREM LookupsAreAnswered ==
  ASSUME Qu!QueriesAssumption, Prof!ProfilesAssumption
  PROVE  Qu!Spec /\ Prof!Spec => []QueriesAnswer
BY QueriesAreAnswered, DiscoveryIsFaithful, ReturnedProfilesAreDone, PTL DEF QueriesAnswer
==============================================================================
