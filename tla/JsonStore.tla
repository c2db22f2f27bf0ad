----------------------------- MODULE JsonStore -----------------------------
(***************************************************************************)
(* DataStoreJson (data-store-json): messages, credentials with their       *)
(* claims, presentations and the identifiers named by them, in one object  *)
(* in memory that notifyUpdate persists.  DIDStoreJson keeps identifiers   *)
(* in the same object.  A save runs from one await to the next, so saves   *)
(* and deletions interleave, and each of them persists whatever the object *)
(* holds by then, also what other calls have half done.                    *)
(*                                                                         *)
(* The object is a set of rows.  A row is told by its table and its key.   *)
(***************************************************************************)
EXTENDS Naturals, Sequences, FiniteSets, SequencesExt

CONSTANTS
  DIDs,
  Messages, Credentials, Presentations,
  Parties,      \* Parties[r]: the identifiers a record names
  Attached,     \* Attached[r]: the credentials and presentations in it
  Callers,
  MaxCalls,     \* bound: calls
  MaxFaults,    \* bound: updates that cannot be persisted
  MaxRestarts   \* bound: restarts of the agent

Records == Messages \union Credentials \union Presentations

JsonStoreAssumption ==
  /\ Parties \in [Records -> SUBSET DIDs]
  /\ \A m \in Messages : Attached[m] \in Seq(Credentials \union Presentations)
  /\ \A p \in Presentations : Attached[p] \in Seq(Credentials)
  /\ \A v \in Credentials : Attached[v] = <<>>
  /\ Credentials \intersect (Messages \union Presentations) = {}
  /\ MaxCalls \in Nat /\ MaxFaults \in Nat /\ MaxRestarts \in Nat

VARIABLES
  tree,        \* the rows in memory
  persisted,   \* the rows that notifyUpdate persisted
  calls,       \* what the running calls have left to do
  made, faults, restarts,
  present, absent,  \* history: rows whose saving or deletion was acknowledged last
  partial, deleted  \* history: records whose save was cut off, identifiers deleted

vars == <<tree, persisted, calls, made, faults, restarts, present, absent, partial, deleted>>

Record(r) == <<"record", r>>
Claims(v) == <<"claims", v>>
Did(d) == <<"did", d>>
Dids(r) == {Did(d) : d \in Parties[r]}
Rows == {Record(r) : r \in Records} \union {Claims(v) : v \in Credentials} \union {Did(d) : d \in DIDs}

\* A call adds rows segment by segment.  `undone`: rows deleted meanwhile.
Call == [segments : Seq(SUBSET Rows), adds : SUBSET Rows, undone : SUBSET Rows]
NoCall == [segments |-> <<>>, adds |-> {}, undone |-> {}]

TypeOK ==
  /\ tree \subseteq Rows /\ persisted \subseteq Rows
  /\ \A c \in Callers : calls[c] = NoCall \/ calls[c] \in Call
  /\ made \in 0 .. MaxCalls /\ faults \in 0 .. MaxFaults /\ restarts \in 0 .. MaxRestarts
  /\ present \subseteq Rows /\ absent \subseteq Rows /\ partial \subseteq Records /\ deleted \subseteq DIDs

Init ==
  /\ tree = {} /\ persisted = {}
  /\ calls = [c \in Callers |-> NoCall]
  /\ made = 0 /\ faults = 0 /\ restarts = 0
  /\ present = {} /\ absent = {} /\ partial = {} /\ deleted = {}

------------------------------------------------------------------------------
(* What a save adds between two awaits                                     *)

\* The subject is not listed.
OfCredentialUnlisted(v) == {Record(v), Claims(v)}
OfCredential(v) == {Record(v), Claims(v)} \union Dids(v)

\* Rows added in the segment in which the following ones begin.
Joined(rows, segments) == <<rows \union Head(segments)>> \o Tail(segments)

OfPresentation(p) ==
  Joined({Record(p)}, [i \in DOMAIN Attached[p] |-> OfCredential(Attached[p][i])] \o <<Dids(p)>>)

OfMessage(m) ==
  LET Part(r) == IF r \in Credentials THEN <<OfCredential(r)>> ELSE OfPresentation(r)
      parts == [i \in DOMAIN Attached[m] |-> Part(Attached[m][i])] IN
  Joined({Record(m)}, FlattenSeq(parts) \o <<Dids(m)>>)

Segments(r) ==
  IF r \in Messages THEN OfMessage(r)
  ELSE IF r \in Credentials THEN <<OfCredential(r)>> ELSE OfPresentation(r)

------------------------------------------------------------------------------

Begin(c) ==
  /\ calls[c] = NoCall
  /\ made < MaxCalls /\ made' = made + 1

\* The records that these calls were saving.
Cut(callers) == {r \in Records : \E c \in callers : Record(r) \in calls[c].adds}

\* The snapshot before the update is persisted.
PersistOld(rows) == persisted' = tree /\ UNCHANGED faults
\* notifyUpdate persists what the object holds by now, or throws.
Persist(rows) == persisted' = rows /\ UNCHANGED faults
Refuse == faults < MaxFaults /\ faults' = faults + 1 /\ UNCHANGED persisted

\* dataStoreSaveMessage, dataStoreSaveVerifiableCredential, dataStoreSaveVerifiablePresentation
Save(c, r) ==
  /\ Begin(c)
  /\ calls' = [calls EXCEPT ![c] = [segments |-> Segments(r),
                                    adds |-> UNION ToSet(Segments(r)), undone |-> {}]]
  /\ absent' = absent \ UNION ToSet(Segments(r))
  /\ UNCHANGED <<tree, persisted, faults, restarts, present, partial, deleted>>

Continue(c) ==
  LET rows == tree \union Head(calls[c].segments) IN
  /\ Len(calls[c].segments) > 1
  /\ tree' = rows
  /\ calls' = [calls EXCEPT ![c].segments = Tail(@)]
  /\ UNCHANGED <<persisted, made, faults, restarts, present, absent, partial, deleted>>

\* The last segment ends with the update.
End(c) ==
  LET rows == tree \union Head(calls[c].segments) IN
  /\ Len(calls[c].segments) = 1
  /\ tree' = rows
  /\ calls' = [calls EXCEPT ![c] = NoCall]
  /\ \/ /\ Persist(rows)
        /\ present' = present \union (calls[c].adds \ calls[c].undone)
        /\ UNCHANGED partial
     \/ /\ Refuse
        /\ partial' = partial \union Cut({c})
        /\ UNCHANGED present
  /\ UNCHANGED <<made, restarts, absent, deleted>>

\* Running calls that add these rows cannot promise them any more.
Undone(rows) == [c \in Callers |-> [calls[c] EXCEPT !.undone = @ \union (rows \intersect calls[c].adds)]]
BeingAdded == UNION {calls[c].adds : c \in Callers}

\* The claims of a deleted credential stay.
RemovedWithoutClaims(rows) == {row \in tree : row \notin rows \/ row[1] = "claims"}
Removed(rows) == tree \ rows

Discard(c, rows) ==
  /\ Begin(c)
  /\ rows \intersect tree # {}
  /\ tree' = Removed(rows)
  /\ calls' = Undone(rows)
  /\ present' = present \ rows
  /\ \/ Persist(Removed(rows)) /\ absent' = absent \union (rows \ BeingAdded)
     \/ Refuse /\ UNCHANGED absent
  /\ UNCHANGED <<restarts, partial>>

Delete(c, r) ==
  /\ Discard(c, {Record(r)} \union (IF r \in Credentials THEN {Claims(r)} ELSE {}))
  /\ UNCHANGED deleted
DeleteDid(c, d) == Discard(c, {Did(d)}) /\ deleted' = deleted \union {d}

\* The agent starts again from what was persisted.
Restart ==
  /\ restarts < MaxRestarts /\ restarts' = restarts + 1
  /\ tree' = persisted
  /\ calls' = [c \in Callers |-> NoCall]
  /\ partial' = partial \union Cut(Callers)
  /\ UNCHANGED <<persisted, made, faults, present, absent, deleted>>

Next ==
  \/ \E c \in Callers, r \in Records : Save(c, r)
  \/ \E c \in Callers, r \in Messages \union Credentials : Delete(c, r)
  \/ \E c \in Callers, d \in DIDs : DeleteDid(c, d)
  \/ \E c \in Callers : Continue(c) \/ End(c)
  \/ Restart

Spec == Init /\ [][Next]_vars

------------------------------------------------------------------------------
(* Properties                                                              *)

(***************************************************************************)
(* What was acknowledged survives a restart: rows whose saving returned    *)
(* are persisted, and rows whose deletion returned are not, whatever other *)
(* calls have half done by then and however their updates end.             *)
(***************************************************************************)
AcknowledgedIsPersisted ==
  /\ present \subseteq persisted \intersect tree
  /\ absent \intersect (persisted \union tree) = {}

(***************************************************************************)
(* A query by claims finds the credential of every claim it meets, in      *)
(* memory and after a restart.                                             *)
(***************************************************************************)
ClaimsHaveCredentials ==
  \A v \in Credentials, rows \in {tree, persisted} : Claims(v) \in rows <=> Record(v) \in rows

(***************************************************************************)
(* Everyone that a record names is listed by dataStoreORMGetIdentifiers:   *)
(* but while the record is being saved, after its save was cut off, and    *)
(* for identifiers that were deleted.                                      *)
(***************************************************************************)
PartiesAreListed ==
  \A r \in Records \ partial, d \in DIDs \ deleted :
    Record(r) \in tree \ BeingAdded /\ d \in Parties[r] => Did(d) \in tree

(***************************************************************************)
(* The store keeps what it was given, whole.                               *)
(***************************************************************************)
JsonStoreKeeps == AcknowledgedIsPersisted /\ ClaimsHaveCredentials /\ PartiesAreListed

=============================================================================
