----------------------------- MODULE SqlStores -----------------------------
(***************************************************************************)
(* The TypeORM stores (data-store/src): identifiers with their keys and    *)
(* services, credentials with their claims, and messages, as rows that     *)
(* refer to one another.  A row whose foreign key says ON DELETE CASCADE   *)
(* goes with the row it refers to; any other keeps that row from being     *)
(* removed.  One `save` or `remove` is a transaction of its own; deleting  *)
(* an identifier or a credential takes several, and may stop between them. *)
(***************************************************************************)
EXTENDS FiniteSets, Naturals

CONSTANTS
    DIDs,        \* the identifiers
    Keys,        \* keys, in the key store from the start
    Creds,       \* credentials
    Issuer,      \* the issuer of each credential
    Subject,     \* its subject
    Callers      \* concurrent callers

NoDID == "no DID"

SqlAssumption ==
    /\ NoDID \notin DIDs
    /\ Issuer \in [Creds -> DIDs] /\ Subject \in [Creds -> DIDs]

VARIABLES
    rows,        \* identifier rows
    managed,     \* those with a provider: what listDIDs and get know
    keyOf,       \* the identifier a key row is linked to
    creds,       \* credential rows
    claims,      \* the credentials whose claim rows are there
    messages,    \* message rows, from one identifier to another
    calls,       \* the deletions under way
    partial,     \* credentials whose deletion stopped half way
    layout       \* whether the tables are those of the entities or of the migrations

vars == <<rows, managed, keyOf, creds, claims, messages, calls, partial, layout>>

Idle == [at |-> "idle", did |-> NoDID, creds |-> {}]
Call == [at: {"idle", "found", "unissued", "claims"}, did: DIDs \cup {NoDID}, creds: SUBSET Creds]

TypeOK ==
    /\ rows \subseteq DIDs /\ managed \subseteq rows
    /\ keyOf \in [Keys -> DIDs \cup {NoDID}]
    /\ creds \subseteq Creds /\ claims \subseteq creds
    /\ messages \subseteq DIDs \X DIDs
    /\ calls \in [Callers -> Call]
    /\ partial \subseteq Creds
    /\ layout \in {"entities", "migrations"}

Init ==
    /\ rows = {} /\ managed = {}
    /\ keyOf = [k \in Keys |-> NoDID]
    /\ creds = {} /\ claims = {} /\ messages = {}
    /\ calls = [c \in Callers |-> Idle]
    /\ partial = {}
    /\ layout \in {"entities", "migrations"}

-----------------------------------------------------------------------------
(* DIDStore.importDID: the row, made or rewritten, with its provider; the keys it
   names are linked to it, wherever they were linked before, and the keys it no
   longer names are unlinked. *)
ImportDID(did, keys) ==
    /\ rows' = rows \cup {did}
    /\ managed' = managed \cup {did}
    /\ keyOf' = [k \in Keys |-> IF k \in keys THEN did
                                ELSE IF keyOf[k] = did THEN NoDID ELSE keyOf[k]]
    /\ UNCHANGED <<creds, claims, messages, calls, partial, layout>>

\* The row is written again, without a provider.
MentionedRewritten(dids) == managed \ dids
(* Saving what mentions identifiers inserts those that have no row, without a
   provider, and leaves the rows that are there alone. *)
Mentioned(dids) == managed

\* The claims of a credential that is there are not looked at.
ClaimedIfNew(c) == IF c \in creds THEN claims ELSE claims \cup {c}
(* Saving a credential inserts the claims that are not there. *)
Claimed(c) == claims \cup {c}

(* dataStoreSaveVerifiableCredential *)
SaveCredential(c) ==
    /\ rows' = rows \cup {Issuer[c], Subject[c]}
    /\ managed' = Mentioned({Issuer[c], Subject[c]})
    /\ creds' = creds \cup {c}
    /\ claims' = Claimed(c)
    /\ partial' = partial \ {c}
    /\ UNCHANGED <<keyOf, messages, calls, layout>>

(* dataStoreSaveMessage *)
SaveMessage(from, to) ==
    /\ rows' = rows \cup {from, to}
    /\ managed' = Mentioned({from, to})
    /\ messages' = messages \cup {<<from, to>>}
    /\ UNCHANGED <<keyOf, creds, claims, calls, partial, layout>>

DeleteMessage(m) ==
    /\ messages' = messages \ {m}
    /\ UNCHANGED <<rows, managed, keyOf, creds, claims, calls, partial, layout>>

-----------------------------------------------------------------------------
(* dataStoreDeleteVerifiableCredential: find it, remove its claims, remove it *)
StartDeleteCredential(k, c) ==
    /\ calls[k] = Idle /\ c \in creds
    /\ claims' = claims \ {c}
    /\ calls' = [calls EXCEPT ![k] = [Idle EXCEPT !.at = "claims", !.creds = {c}]]
    /\ UNCHANGED <<rows, managed, keyOf, creds, messages, partial, layout>>

RemoveCredential(k) ==
    /\ calls[k].at = "claims"
    /\ creds' = creds \ calls[k].creds
    /\ claims' = claims \ calls[k].creds
    /\ partial' = partial \ calls[k].creds
    /\ calls' = [calls EXCEPT ![k] = Idle]
    /\ UNCHANGED <<rows, managed, keyOf, messages, layout>>

(* DIDStore.deleteDID: the identifier is found with the credentials it issued *)
StartDeleteDID(k, did) ==
    /\ calls[k] = Idle /\ did \in rows
    /\ calls' = [calls EXCEPT ![k] =
            [at |-> "found", did |-> did, creds |-> {c \in creds : Issuer[c] = did}]]
    /\ UNCHANGED <<rows, managed, keyOf, creds, claims, messages, partial, layout>>

(* the credentials it issued are removed, their claims with them *)
RemoveIssued(k) ==
    /\ calls[k].at = "found"
    /\ creds' = creds \ calls[k].creds
    /\ claims' = claims \ calls[k].creds
    /\ partial' = partial \ calls[k].creds
    /\ calls' = [calls EXCEPT ![k].at = "unissued"]
    /\ UNCHANGED <<rows, managed, keyOf, messages, layout>>

\* The subject of a credential is declared ON DELETE CASCADE as well.
GoesWithSubject(c, did) == Issuer[c] = did \/ Subject[c] = did
(* The foreign keys of credentials: the issuer's row takes them along *)
GoesWith(c, did) == Issuer[c] = did

\* Nothing refers to an identifier but what goes with it.
HeldByNone(did) == {}
(* and the subject's row cannot go before them. *)
HeldBy(did) == {c \in creds : Subject[c] = did /\ ~GoesWith(c, did)}

(* Messages go with whom they are from and to, by the entities; the tables that
   the migrations create have them hold the row. *)
MessagesHolding(did) ==
    IF layout = "migrations" THEN {m \in messages : did \in {m[1], m[2]}} ELSE {}

(* The row itself, with the keys linked to it and its messages, unless some row
   that stays refers to it *)
RemoveDID(k) ==
    /\ calls[k].at = "unissued"
    /\ LET did == calls[k].did
           gone == {c \in creds : GoesWith(c, did)}
       IN IF HeldBy(did) = {} /\ MessagesHolding(did) = {}
          THEN /\ rows' = rows \ {did}
               /\ managed' = managed \ {did}
               /\ keyOf' = [x \in Keys |-> IF keyOf[x] = did THEN NoDID ELSE keyOf[x]]
               /\ creds' = creds \ gone
               /\ claims' = claims \ gone
               /\ partial' = partial \ gone
               /\ messages' = {m \in messages : m[1] # did /\ m[2] # did}
          ELSE UNCHANGED <<rows, managed, keyOf, creds, claims, messages, partial>>
    /\ calls' = [calls EXCEPT ![k] = Idle]
    /\ UNCHANGED layout

(* The connection is lost between two steps *)
Stop(k) ==
    /\ calls[k] # Idle
    /\ partial' = partial \cup (IF calls[k].at = "claims" THEN calls[k].creds \cap creds ELSE {})
    /\ calls' = [calls EXCEPT ![k] = Idle]
    /\ UNCHANGED <<rows, managed, keyOf, creds, claims, messages, layout>>

Next ==
    \/ \E did \in DIDs, keys \in SUBSET Keys : ImportDID(did, keys)
    \/ \E c \in Creds : SaveCredential(c)
    \/ \E from, to \in DIDs : SaveMessage(from, to)
    \/ \E m \in messages : DeleteMessage(m)
    \/ \E k \in Callers :
        \/ \E c \in Creds : StartDeleteCredential(k, c)
        \/ \E did \in DIDs : StartDeleteDID(k, did)
        \/ RemoveCredential(k) \/ RemoveIssued(k) \/ RemoveDID(k) \/ Stop(k)

Spec == Init /\ [][Next]_vars

-----------------------------------------------------------------------------
BeingDeleted == UNION {calls[k].creds : k \in Callers}

(* Every credential has its claims, which the queries for credentials by claims
   rely on, unless its deletion is under way or has stopped half way; saving it
   again brings them back. *)
CredentialsHaveClaims == creds \ (BeingDeleted \cup partial) \subseteq claims

(* An identifier that the agent manages stays managed until it is deleted: that
   credentials and messages mention it, whose entities carry a bare DID, does
   not take the provider from its row. *)
ManagedUntilDeleted ==
    [][\A did \in managed \ managed' : \E k \in Callers : calls[k].did = did]_vars

(* Deleting an identifier removes no credential that another has issued. *)
OthersCredentialsStay ==
    [][\A c \in creds \ creds' : \E k \in Callers :
        c \in calls[k].creds \/ calls[k].did = Issuer[c]]_vars

(* A deletion takes what is its own. *)
OnlyItsOwnGoes == ManagedUntilDeleted /\ OthersCredentialsStay

(* The rows that others refer to are there: the subjects of credentials, whose
   foreign key does not cascade, outlive them. *)
ReferencesResolve ==
    /\ \A c \in creds : {Issuer[c], Subject[c]} \subseteq rows
    /\ \A m \in messages : {m[1], m[2]} \subseteq rows
    /\ \A k \in Keys : keyOf[k] # NoDID => keyOf[k] \in rows
=============================================================================
