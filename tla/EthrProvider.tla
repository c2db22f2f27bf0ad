---------------------------- MODULE EthrProvider ----------------------------
(***************************************************************************)
(* The did:ethr provider (did-provider-ethr): which network a DID is made  *)
(* on and found again on, and how its keys and services become attributes  *)
(* of the registry contract: in a transaction of its controller, in one    *)
(* that another identifier sends with the controller's signature over the  *)
(* registry's nonce, or signed now and sent by someone else later.         *)
(***************************************************************************)
EXTENDS Naturals, Sequences, FiniteSets

CONSTANTS
    Networks,     \* the configured networks: name ("" if none), chain, and how chainId is given
    Specifiers,   \* the networks asked for: how, and which
    Keys,         \* keys to add
    KeyType,      \* their types
    Services,     \* the types and endpoints of the services to add, by their ids
    Encodings,    \* the encodings that callers ask for
    Callers,
    MaxNonce, MaxSlips

Unspecified == [is |-> "nothing", of |-> ""]
Mainnet == [is |-> "name", of |-> "mainnet"]
NoNetwork == 0
Idle == [at |-> "idle"]
NetworkConfig == [name: STRING, chain: STRING, given: {"no", "number", "hex"}]

VARIABLES
    did,        \* the DID: the specifier in it, and the network it was created on
    attrs,      \* the attributes of the DID in the registry of each network
    nonce,      \* the registry's nonce of its controller
    calls,      \* the provider calls under way
    slips,      \* operations signed with signOnly, to be sent by anyone
    addedAs,    \* the encoding each key or service was added with last
    added,      \* keys and services whose last acknowledged operation was their addition,
    removed     \* or their removal

vars == <<did, attrs, nonce, calls, slips, addedAs, added, removed>>

KeyNames == [key: Keys, encoding: Encodings \cup {"hex", "base58"}]
ServiceNames == {Services[id] : id \in DOMAIN Services}
Subjects == Keys \cup DOMAIN Services

(* Networks with a name have one of their own, no service has the id of a key or
   the type and endpoint of another, and the registry tells keys from services. *)
EthrAssumption ==
    /\ Networks \in Seq(NetworkConfig)
    /\ \A i, j \in DOMAIN Networks :
          Networks[i].name = Networks[j].name /\ Networks[i].name # "" => i = j
    /\ \A i, j \in DOMAIN Services : Services[i] = Services[j] => i = j
    /\ Keys \cap DOMAIN Services = {} /\ KeyNames \cap ServiceNames = {}
    /\ MaxNonce \in Nat

TypeOK ==
    /\ did.is \in {"none", "created"}
    /\ attrs \in [DOMAIN Networks -> SUBSET (KeyNames \cup ServiceNames)]
    /\ nonce \in 0..MaxNonce
    /\ \A c \in Callers : calls[c].at \in {"idle", "signed"}
    /\ \A s \in slips : s.op.name \in KeyNames \cup ServiceNames
    /\ added \cup removed \subseteq Subjects

Init ==
    /\ did = [is |-> "none"]
    /\ attrs = [n \in DOMAIN Networks |-> {}]
    /\ nonce = 0 /\ calls = [c \in Callers |-> Idle] /\ slips = {}
    /\ addedAs = [x \in Subjects |-> "none"] /\ added = {} /\ removed = {}

-----------------------------------------------------------------------------
(* getNetworkFor: a number is compared with chain IDs as numbers, and text with
   names, or with chain IDs that are configured as text *)
Matches(n, spec) ==
    \/ spec.is = "number" /\ n.given # "no" /\ n.chain = spec.of
    \/ spec.is = "hex" /\ n.given = "hex" /\ n.chain = spec.of
    \/ spec.is = "name" /\ n.name = spec.of

Found(spec) == {i \in DOMAIN Networks : Matches(Networks[i], IF spec = Unspecified THEN Mainnet ELSE spec)}
FirstOf(S) == CHOOSE i \in S : \A j \in S : i <= j
\* The first network does for whatever is not found.
NetworkForOrFirst(spec) == IF Found(spec) # {} THEN FirstOf(Found(spec)) ELSE 1
NetworkFor(spec) ==
    LET found == Found(spec)
    IN IF found # {} THEN FirstOf(found)
       ELSE IF spec = Unspecified /\ Len(Networks) = 1 THEN 1 ELSE NoNetwork

(* createIdentifier: the specifier goes into the DID; a number becomes the name of
   its network or, without one, hexadecimal digits without 0x. *)
InDid(spec, n) ==
    IF spec.is = "number"
    THEN IF Networks[n].name # "" THEN [is |-> "name", of |-> Networks[n].name] ELSE [is |-> "digits", of |-> spec.of]
    ELSE spec

CreateIdentifier(spec) ==
    /\ did.is = "none" /\ NetworkFor(spec) # NoNetwork
    /\ LET written == InDid(spec, NetworkFor(spec))
       IN did' = [is |-> "created", spec |-> IF written = Mainnet THEN Unspecified ELSE written, on |-> NetworkFor(spec)]
    /\ UNCHANGED <<attrs, nonce, calls, slips, addedAs, added, removed>>

(* getEthrDidController finds the network by the DID *)
Network == NetworkFor(did.spec)
Controlled == did.is = "created" /\ Network # NoNetwork

-----------------------------------------------------------------------------
(* The attribute of a key, as addKey names it and as removeKey does; `asked` is the
   encoding of the options. *)
AddName(k, asked) == [key |-> k, encoding |-> IF KeyType[k] = "X25519" THEN "base58" ELSE asked]
\* The encoding that is asked for counts for all keys.
RemoveNameAsAsked(k, asked) == [key |-> k, encoding |-> asked]
RemoveName(k, asked) == [key |-> k, encoding |-> IF KeyType[k] = "X25519" THEN "base58" ELSE asked]

(* What a method wants the registry to do, and on whose behalf *)
Op(what, subject, asked, name) == [what |-> what, of |-> subject, asked |-> asked, name |-> name]
AddKey(k, asked) == Op("set", k, asked, AddName(k, asked))
RemoveKey(k, asked) == Op("revoke", k, asked, RemoveName(k, asked))
(* A service is an attribute of its type with its endpoint; its id is not in it. *)
AddService(id) == Op("set", id, "hex", Services[id])
\* A service is looked for by its type.
RemoveServiceOfType(id) ==
    Op("revoke", id, "hex", Services[CHOOSE other \in DOMAIN Services : Services[other].type = Services[id].type])
RemoveService(id) == Op("revoke", id, "hex", Services[id])
Ops == {AddKey(k, e) : k \in Keys, e \in Encodings} \cup {RemoveKey(k, e) : k \in Keys, e \in Encodings}
       \cup {AddService(id) : id \in DOMAIN Services} \cup {RemoveService(id) : id \in DOMAIN Services}

(* What the registry does with an operation *)
Applied(op) ==
    attrs' = [attrs EXCEPT ![Network] = IF op.what = "set" THEN @ \cup {op.name} ELSE @ \ {op.name}]
Noted(op) ==
    IF op.what = "set"
    THEN /\ addedAs' = [addedAs EXCEPT ![op.of] = op.asked]
         /\ added' = added \cup {op.of} /\ removed' = removed \ {op.of}
    ELSE /\ addedAs' = addedAs /\ added' = added \ {op.of}
         /\ removed' = IF addedAs[op.of] = op.asked THEN removed \cup {op.of} ELSE removed

(* In a transaction of the controller *)
Direct(op) ==
    /\ Controlled
    /\ Applied(op) /\ Noted(op)
    /\ UNCHANGED <<did, nonce, calls, slips>>

(* With a metaIdentifierKeyId: the controller signs a hash that has the registry's
   nonce in it *)
Sign(c, op) ==
    /\ Controlled /\ calls[c] = Idle
    /\ calls' = [calls EXCEPT ![c] = [at |-> "signed", op |-> op, nonce |-> nonce]]
    /\ UNCHANGED <<did, attrs, nonce, slips, addedAs, added, removed>>

(* and the transaction is sent by the other identifier; the registry refuses it when the nonce has moved. *)
Send(c) ==
    /\ calls[c].at = "signed"
    /\ calls' = [calls EXCEPT ![c] = Idle]
    /\ IF calls[c].nonce = nonce /\ nonce < MaxNonce
       THEN nonce' = nonce + 1 /\ Applied(calls[c].op) /\ Noted(calls[c].op)
       ELSE UNCHANGED <<nonce, attrs, addedAs, added, removed>>
    /\ UNCHANGED <<did, slips>>

(* With signOnly the signature is all there is; whoever gets it sends it *)
SignOnly(op) ==
    /\ Controlled /\ Cardinality(slips) < MaxSlips
    /\ slips' = slips \cup {[op |-> op, nonce |-> nonce]}
    /\ UNCHANGED <<did, attrs, nonce, calls, addedAs, added, removed>>

SendSlip(s) ==
    /\ s.nonce = nonce /\ nonce < MaxNonce
    /\ nonce' = nonce + 1
    /\ Applied(s.op) /\ Noted(s.op)
    /\ slips' = slips \ {s}
    /\ UNCHANGED <<did, calls>>

Next ==
    \/ \E spec \in Specifiers : CreateIdentifier(spec)
    \/ Controlled /\ \E op \in Ops : Direct(op) \/ SignOnly(op) \/ (\E c \in Callers : Sign(c, op))
    \/ \E c \in Callers : Send(c)
    \/ \E s \in slips : SendSlip(s)

Spec == Init /\ [][Next]_vars

-----------------------------------------------------------------------------
(* What is done to a DID is done on the network that it was created on. *)
OwnNetworkOnly == \A n \in DOMAIN Networks : attrs[n] # {} => did.is = "created" /\ did.on = n

(* A key or service that was removed with the encoding it was added with,
   whichever that was and whoever sent the transactions, is not in the registry. *)
RemovedIsGone ==
    \A n \in DOMAIN Networks :
        /\ \A k \in removed \cap Keys : AddName(k, addedAs[k]) \notin attrs[n]
        /\ \A id \in removed \ Keys : Services[id] \notin attrs[n]

(* One that was added and not removed is, whatever was done to the others: of
   services this needs that no two have the same type and endpoint. *)
AddedIsThere ==
    /\ \A k \in added \cap Keys : AddName(k, addedAs[k]) \in attrs[did.on]
    /\ \A id \in added \ Keys : Services[id] \in attrs[did.on]

(* What is asked of the provider is done, and only where the DID is. *)
EthrIsHonoured == OwnNetworkOnly /\ RemovedIsGone /\ AddedIsThere
=============================================================================
