-------------------------- MODULE RecipientUpdates --------------------------
(***************************************************************************)
(* Recipient updates and queries of coordinate-mediation 3.0 at a mediator *)
(* (coordinate-mediation-v3-message-handler.ts).  The updates of one       *)
(* message run concurrently, whoever registered the DIDs and whatever was  *)
(* answered to the requester.  A query goes through the store: one entry   *)
(* at a time when it is a map, and page by page, each at its offset among  *)
(* the rows that are there by then, when it is a database.                 *)
(***************************************************************************)
EXTENDS MediationManager

CONSTANTS
  Registered,    \* what may have been registered before
  UpdateSets,    \* the updates of a message
  Paged,         \* whether the store is a database (the TypeORM adapter)
  PageSize,      \* the rows of a page
  Place,         \* the order in which the database returns the rows
  Workers,       \* bound: messages that are handled at a time
  MaxArrivals,   \* bound: messages that arrive
  MaxFaults      \* bound: calls of the store that throw

UpdatesAssumption ==
  /\ Registered \subseteq [DIDs -> DIDs \union {NONE}]
  /\ UpdateSets \subseteq SUBSET [action : {"add", "remove", "other"}, recipient : DIDs]
  /\ IsFiniteSet(DIDs)
  /\ Paged \in BOOLEAN /\ PageSize \in Nat \ {0}
  /\ Place \in [DIDs -> Nat] /\ \A d, e \in DIDs : Place[d] = Place[e] => d = e

VARIABLES
  task,          \* task[w]: the message that worker w handles
  log,           \* history: what was registered after each change
  arrivals, faults

vars == <<managerVars, task, log, arrivals, faults>>

Update == [action : {"add", "remove", "other"}, recipient : DIDs]
Results == {"success", "no_change", "client_error", "server_error"}
Idle == [type |-> "idle"]
Updating(from, updates) ==
  [type |-> "update", from |-> from, since |-> Len(log), todo |-> updates, done |-> {}]
Querying(from) ==
  [type |-> "query", from |-> from, since |-> Len(log), todo |-> DIDs, done |-> {}, offset |-> 0]

TypeOK ==
  /\ ManagerTypeOK
  /\ \A w \in Workers : LET t == task[w] IN
      \/ t = Idle
      \/ /\ t.from \in DIDs /\ t.since \in 1 .. Len(log)
         /\ \/ t.type = "update" /\ t.todo \subseteq Update /\ t.done \subseteq Update \X Results
            \/ t.type = "query" /\ t.todo \union t.done \subseteq DIDs /\ t.offset \in Nat
  /\ log[Len(log)] = recipientDids
  /\ arrivals \in 0 .. MaxArrivals /\ faults \in 0 .. MaxFaults

Init ==
  /\ policies = [d \in DIDs |-> NONE] /\ mediations = [d \in DIDs |-> NONE]
  /\ recipientDids \in Registered
  /\ task = [w \in Workers |-> Idle]
  /\ log = <<recipientDids>>
  /\ arrivals = 0 /\ faults = 0

------------------------------------------------------------------------------
\* A message without `from` or `to` is refused by the type guards.
Arrive(w, message) ==
  /\ task[w] = Idle /\ arrivals < MaxArrivals
  /\ arrivals' = arrivals + 1
  /\ task' = [task EXCEPT ![w] = message]
  /\ UNCHANGED <<managerVars, log, faults>>

ReceiveRecipientUpdate(w, from, updates) == Arrive(w, Updating(from, updates))
ReceiveRecipientQuery(w, from) == Arrive(w, Querying(from))

Finished(w, u, result) ==
  task' = [task EXCEPT ![w].todo = @ \ {u}, ![w].done = @ \union {<<u, result>>}]

\* Mutant: whether there was anything to remove is not asked.
ResultAlways(u) == "success"

(* Adding replaces whoever registered the DID; removing tells whether it was there. *)
Result(u) ==
  CASE u.action = "add"    -> "success"
    [] u.action = "remove" -> IF IsMediationGranted(u.recipient) THEN "success" ELSE "no_change"
    [] u.action = "other"  -> "client_error"

Apply(from, u) ==
  CASE u.action = "add"    -> AddRecipientDid(from, u.recipient)
    [] u.action = "remove" -> RemoveRecipientDid(u.recipient)
    [] u.action = "other"  -> UNCHANGED recipientDids

\* applyUpdate: an update that throws turns only its own result into an error.
ApplyUpdate(w, u) ==
  /\ task[w].type = "update" /\ u \in task[w].todo
  /\ \/ /\ Apply(task[w].from, u)
        /\ log' = IF recipientDids' = recipientDids THEN log ELSE Append(log, recipientDids')
        /\ Finished(w, u, Result(u))
        /\ UNCHANGED faults
     \/ /\ faults < MaxFaults /\ faults' = faults + 1
        /\ Finished(w, u, "server_error")
        /\ UNCHANGED <<recipientDids, log>>
  /\ UNCHANGED <<policies, mediations, arrivals>>

\* Mutant: every recipient is listed, whoever registered it.
ListedOfAnybody(w, d) == IsMediationGranted(d)

\* mediationManagerListRecipientDids
Listed(w, d) == RegisteredBy(task[w].from, d)

ReadRecipientDid(w, d) ==
  /\ ~Paged
  /\ task[w].type = "query" /\ d \in task[w].todo
  /\ task' = [task EXCEPT ![w].todo = @ \ {d},
                          ![w].done = IF Listed(w, d) THEN @ \union {d} ELSE @]
  /\ UNCHANGED <<managerVars, log, arrivals, faults>>

Stored == {d \in DIDs : IsMediationGranted(d)}
Rank(d) == Cardinality({e \in Stored : Place[e] < Place[d]})
Page(offset) == {d \in Stored : Rank(d) \in offset .. offset + PageSize - 1}

\* iterate: a page that is not full is the last one.
ReadPage(w) ==
  LET page == Page(task[w].offset) IN
  /\ Paged
  /\ task[w].type = "query" /\ task[w].todo # {}
  /\ task' = [task EXCEPT ![w].offset = @ + PageSize,
                          ![w].done = @ \union {d \in page : Listed(w, d)},
                          ![w].todo = IF Cardinality(page) = PageSize THEN @ ELSE {}]
  /\ UNCHANGED <<managerVars, log, arrivals, faults>>

\* A query whose read throws is not answered.
ReadThrows(w) ==
  /\ task[w].type = "query" /\ task[w].todo # {}
  /\ faults < MaxFaults /\ faults' = faults + 1
  /\ task' = [task EXCEPT ![w] = Idle]
  /\ UNCHANGED <<managerVars, log, arrivals>>

\* The response is attached to the message, unless packing it throws.
Ends(w, type) ==
  /\ task[w].type = type /\ task[w].todo = {}
  /\ task' = [task EXCEPT ![w] = Idle]
  /\ UNCHANGED <<managerVars, log, arrivals, faults>>

RespondToUpdate(w) == Ends(w, "update")
RespondToQuery(w) == Ends(w, "query")

Handle(w) ==
  \/ \E u \in Update : ApplyUpdate(w, u)
  \/ \E d \in DIDs : ReadRecipientDid(w, d)
  \/ ReadPage(w) \/ ReadThrows(w)
  \/ RespondToUpdate(w) \/ RespondToQuery(w)

Next == \E w \in Workers :
  \/ \E from \in DIDs, updates \in UpdateSets : ReceiveRecipientUpdate(w, from, updates)
  \/ \E from \in DIDs : ReceiveRecipientQuery(w, from)
  \/ Handle(w)

Spec == Init /\ [][Next]_vars /\ \A w \in Workers : WF_vars(Handle(w))

------------------------------------------------------------------------------
\* What the registry held, and lost, since the message of task t arrived.
Held(t, d, by) == \E i \in t.since .. Len(log) : log[i][d] = by
Removed(t, d) == \E i \in t.since + 1 .. Len(log) : log[i - 1][d] # NONE /\ log[i][d] = NONE

(***************************************************************************)
(* What the mediator reports was so at some time while it handled the      *)
(* message, whatever others did to the same DIDs meanwhile: what was added *)
(* was the requester's, what was removed was there, and what was unchanged *)
(* was not; a query lists what was the requester's, and leaves out what    *)
(* was not.  Only a query of a database may leave out more: a DID whose    *)
(* row moved into a page already read, when one before it was removed.     *)
(***************************************************************************)
ReportsAreTrue ==
  \A w \in Workers : LET t == task[w] IN
    /\ t.type = "update" => \A r \in t.done :
        /\ r[1].action = "add" /\ r[2] = "success" => Held(t, r[1].recipient, t.from)
        /\ r[1].action = "remove" /\ r[2] = "success" => Removed(t, r[1].recipient)
        /\ r[2] = "no_change" => Held(t, r[1].recipient, NONE)
    /\ t.type = "query" =>
        /\ \A d \in t.done : Held(t, d, t.from)
        /\ \A d \in DIDs \ (t.todo \union t.done) :
            \/ \E i \in t.since .. Len(log) : log[i][d] # t.from
            \/ Paged /\ \E e \in DIDs : Place[e] < Place[d] /\ Removed(t, e)

(* Every update and query is done with, whatever the store throws. *)
EveryUpdateEnds == \A w \in Workers : task[w] # Idle ~> task[w] = Idle
==============================================================================
