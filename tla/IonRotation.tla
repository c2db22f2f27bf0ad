---------------------------- MODULE IonRotation ----------------------------
(***************************************************************************)
(* The keys of a did:ion identifier (did-provider-ion/src).  The ledger    *)
(* holds a commitment to the update key that may sign the next update and  *)
(* to the recovery key that may deactivate the DID.  An update resolves    *)
(* the DID, picks the listed key that matches the commitment, imports a    *)
(* fresh next key and submits a request, which the ledger anchors later.   *)
(* Then the DID manager saves the identifier that it read at first, with   *)
(* what the application added to it and removed from it.                   *)
(*                                                                         *)
(* A key is a number, and stands for its commitment.  An application may   *)
(* also add keys of its own, which match no commitment.                    *)
(***************************************************************************)
EXTENDS Naturals, FiniteSets

CONSTANTS
    Callers,    \* concurrent calls of the provider for the identifier
    MaxKeys     \* bounds the keys that are ever generated

NoKey == 0
Key == 1..MaxKeys
Recovery == 1   \* the first key that createIdentifier imports
Update == 2     \* and the second
Foreign == MaxKeys + 1  \* an application's key, with `meta` but no `meta.ion`

VARIABLES
    owned,      \* the keys in the key manager
    saved,      \* whether the identifier is in the DID store
    listed,     \* identifier.keys there
    updater,    \* the ledger's update commitment
    active,     \* whether the ledger has the DID, deactivated or not
    queue,      \* submitted requests that are not anchored
    calls,      \* the calls under way
    fresh,      \* the next key to be generated
    lost,       \* next keys of requests whose answer was lost, which is an error
    apart       \* history: keys that the application added or removed itself

vars == <<owned, saved, listed, updater, active, queue, calls, fresh, lost, apart>>
storeVars == <<saved, listed, apart>>

Request == [kind: {"create", "update", "deactivate"}, signer: Key \cup {NoKey}, next: Key \cup {NoKey}]
Listable == Key \cup {Foreign}
Call == [at: {"idle", "read", "resolved", "imported", "submitted"},
         keys: SUBSET Listable, current: Key \cup {NoKey}, next: Key \cup {NoKey}]
Idle == [at |-> "idle", keys |-> {}, current |-> NoKey, next |-> NoKey]

TypeOK ==
    /\ owned \subseteq Key /\ lost \subseteq Key
    /\ saved \in BOOLEAN /\ listed \subseteq Listable /\ apart \subseteq Listable
    /\ updater \in Key \cup {NoKey}
    /\ active \in {"no", "yes", "deactivated"}
    /\ queue \subseteq Request
    /\ calls \in [Callers -> Call]
    /\ fresh \in Nat

Init ==
    /\ owned = {} /\ lost = {}
    /\ saved = FALSE /\ listed = {} /\ apart = {}
    /\ updater = NoKey /\ active = "no"
    /\ queue = {}
    /\ calls = [c \in Callers |-> Idle]
    /\ fresh = 1

-----------------------------------------------------------------------------
(* What a submission comes to.  The node refuses a second request for a DID
   while one is in its queue; an error is thrown when it refuses, and when its
   answer is lost. *)
Accepted(request) == queue = {} /\ queue' = {request}
Refused == UNCHANGED queue

\* The recovery key is not handed to the DID manager.
CreatedWithoutRecovery(n) == {n + 1, n + 2}
(* createIdentifier: recovery, update and verification keys, listed together *)
Created(n) == n..(n + 2)

(* createIdentifier, and the DID manager's save: the keys are imported whatever
   the node says; without an answer the identifier is not saved.  With `anchor`
   false nothing is submitted. *)
Create ==
    /\ fresh = Recovery
    /\ owned' = Recovery..(Recovery + 2)
    /\ fresh' = fresh + 3
    /\ LET request == [kind |-> "create", signer |-> NoKey, next |-> Update]
       IN /\ Accepted(request) \/ Refused
          /\ \/ saved' = TRUE /\ listed' = Created(fresh)
             \/ UNCHANGED <<saved, listed>>
    /\ UNCHANGED <<updater, active, calls, lost, apart>>

(* An update is asked of the DID manager, which reads the identifier *)
Read(c) ==
    /\ calls[c].at = "idle" /\ saved
    /\ calls' = [calls EXCEPT ![c] = [Idle EXCEPT !.at = "read", !.keys = listed]]
    /\ UNCHANGED <<storeVars, owned, updater, active, queue, fresh, lost>>

(* veramoKeysOfType, of a list of keys: it throws on a key whose `meta` has no
   `ion`, and finds the keys with the commitment that is asked for *)
Throws(keys) == Foreign \in keys
Matching(keys, commitment) == IF Throws(keys) THEN {} ELSE {k \in keys : k = commitment}

(* The long form of a DID resolves before it is anchored, too. *)
Committed == IF active = "no" THEN Update ELSE updater

(* rotateVeramoKey: the DID is resolved, and the update key taken from the keys
   that were read; without one the call throws. *)
Resolve(c) ==
    /\ calls[c].at = "read" /\ active # "deactivated"
    /\ \E k \in Matching(calls[c].keys, Committed) :
        calls' = [calls EXCEPT ![c].at = "resolved", ![c].current = k]
    /\ UNCHANGED <<storeVars, owned, updater, active, queue, fresh, lost>>

ImportNext(c) ==
    /\ calls[c].at = "resolved" /\ fresh <= MaxKeys
    /\ owned' = owned \cup {fresh}
    /\ calls' = [calls EXCEPT ![c].at = "imported", ![c].next = fresh]
    /\ fresh' = fresh + 1
    /\ UNCHANGED <<storeVars, updater, active, queue, lost>>

UpdateRequest(c) == [kind |-> "update", signer |-> calls[c].current, next |-> calls[c].next]

Over(c) == calls' = [calls EXCEPT ![c] = Idle]

\* The key is deleted when the request was made without an error, too.
KeptAlways(c) == owned \ {calls[c].next}
(* What is in the key manager once a request was made without an error *)
Kept(c) == owned

(* anchorRequest, in addKey, addService, removeKey and removeService *)
Submit(c) ==
    /\ calls[c].at = "imported"
    /\ Accepted(UpdateRequest(c)) \/ Refused   \* Refused: `anchor` is false
    /\ owned' = Kept(c)
    /\ calls' = [calls EXCEPT ![c].at = "submitted"]
    /\ UNCHANGED <<storeVars, updater, active, fresh, lost>>

(* An error: deleteKeyOnError takes the next key back.  The node may have
   accepted the request all the same. *)
SubmitFails(c) ==
    /\ calls[c].at = "imported"
    /\ \/ /\ Accepted(UpdateRequest(c))
          /\ lost' = lost \cup {calls[c].next}
       \/ Refused /\ UNCHANGED lost
    /\ owned' = owned \ {calls[c].next}
    /\ Over(c)
    /\ UNCHANGED <<storeVars, updater, active, fresh>>

(* The DID manager saves the identifier as it read it, with the key that
   didManagerAddKey pushes or without the one that didManagerRemoveKey filters
   out; the calls about services leave the keys. *)
Save(c) ==
    /\ calls[c].at = "submitted"
    /\ \E pushed \in {{}, {Foreign}}, filtered \in {{}} \cup {{k} : k \in calls[c].keys} :
        /\ pushed = {} \/ filtered = {}
        /\ listed' = (calls[c].keys \cup pushed) \ filtered
        /\ apart' = apart \cup pushed \cup filtered
    /\ saved' = TRUE
    /\ Over(c)
    /\ UNCHANGED <<owned, updater, active, queue, fresh, lost>>

(* A call ends without a change: it does not resolve, finds no key, or the DID
   store throws. *)
Fails(c) ==
    /\ calls[c].at \in {"read", "submitted"}
    /\ Over(c)
    /\ UNCHANGED <<storeVars, owned, updater, active, queue, fresh, lost>>

(* deleteIdentifier: signed with the recovery key.  Then the DID manager deletes
   the identifier, with which the SQL store deletes the keys that it lists, and
   the JSON store none.  No call of the application is under way meanwhile. *)
Deactivate ==
    /\ saved /\ active # "deactivated" /\ \A c \in Callers : calls[c] = Idle
    /\ Recovery \in Matching(listed, Recovery) \cap owned
    /\ \/ /\ Accepted([kind |-> "deactivate", signer |-> Recovery, next |-> NoKey])
          /\ owned' \in {owned, owned \ listed}
          /\ saved' = FALSE /\ listed' = {}
       \/ /\ \/ Accepted([kind |-> "deactivate", signer |-> Recovery, next |-> NoKey])
             \/ Refused
          /\ UNCHANGED <<owned, saved, listed>>
    /\ UNCHANGED <<updater, active, calls, fresh, lost, apart>>

(* The agent restarts: what was imported stays *)
Restart ==
    /\ \E c \in Callers : calls[c] # Idle
    /\ calls' = [c \in Callers |-> Idle]
    /\ UNCHANGED <<storeVars, owned, updater, active, queue, fresh, lost>>

(* The ledger anchors a request; an update counts only if its signer is the one
   committed to. *)
Anchor ==
    /\ \E request \in queue :
        /\ queue' = queue \ {request}
        /\ active' = CASE request.kind = "deactivate" /\ active = "yes" -> "deactivated"
                       [] request.kind = "create" -> "yes"
                       [] OTHER -> active
        /\ updater' = IF \/ request.kind = "create"
                         \/ request.kind = "update" /\ active = "yes" /\ request.signer = updater
                      THEN request.next ELSE updater
    /\ UNCHANGED <<storeVars, owned, calls, fresh, lost>>

Next ==
    \/ Create \/ Deactivate \/ Restart \/ Anchor
    \/ \E c \in Callers :
        Read(c) \/ Resolve(c) \/ ImportNext(c) \/ Submit(c) \/ SubmitFails(c) \/ Save(c) \/ Fails(c)

Spec == Init /\ [][Next]_vars

-----------------------------------------------------------------------------
(* The update key that the ledger is committed to stays in the key manager: keys
   are imported before they are submitted and taken back only when the request
   is not known to be accepted.  Left out: requests accepted with their answer
   lost, whose key deleteKeyOnError deletes. *)
CommittedKeyIsOwned ==
    active = "yes" /\ saved => updater \in owned \cup lost

(* As long as the DID manager has the identifier, its recovery key is owned
   whatever updates did, and the DID can be deactivated with it unless the
   application removed that key, or added one that the provider throws on. *)
RecoveryIsPossible ==
    saved => /\ Recovery \in owned
             /\ apart \cap {Recovery, Foreign} = {} => Matching(listed, Recovery) = {Recovery}

(* The DID manager does not lose control of an identifier that it has. *)
IonStaysControlled == CommittedKeyIsOwned /\ RecoveryIsPossible

(* The provider takes care of both the rotation and the selection of the correct
   update key: when no call is under way, the key that the ledger is committed to
   can be selected, as long as no answer was lost and the application adds and
   removes no key itself. *)
UpdateKeyIsSelectable ==
    active = "yes" /\ saved /\ apart \cup lost = {} /\ (\A c \in Callers : calls[c] = Idle)
        => Matching(listed, updater) # {}
=============================================================================
