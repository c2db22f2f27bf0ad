----------------------------- MODULE DidMethods -----------------------------
(***************************************************************************)
(* The providers of did:key, did:jwk, did:peer, did:pkh and did:web, each  *)
(* with the resolver, or the router, that makes the document of what it    *)
(* created, and how an agent finds its own keys in a document.             *)
(***************************************************************************)
EXTENDS Naturals, Sequences, FiniteSets, Filters

CONSTANTS
    Requests,       \* the arguments of didManagerCreate
    Views,          \* the options of resolveDid: [format, accept, derive]
    Default,        \* the view that a caller gets who asks for none
    MaxKeys, MaxCreations, MaxFaults

VARIABLES
    held,           \* the keys of the key manager
    listed,         \* the identifiers of the DID manager
    making, going,  \* the creation and the deletion under way
    begun, count, faults    \* creations, generated keys and failures so far

vars == <<held, listed, making, going, begun, count, faults>>

(* A key that was imported has number 0; keys are named by their public key. *)
KeyTypes == {"Ed25519", "X25519", "Secp256k1", "Secp256r1"}
Key == [id: 0..MaxKeys, type: KeyTypes]
Idle == [asked |-> "nothing"]
NoService == "no service"

\* A request names its method and, but for those that choose it, the type of the key.
DidMethodsAssumption ==
    /\ \A o \in Requests :
          /\ o.method \in {"key", "jwk", "peer", "pkh", "web"} /\ o.given \in BOOLEAN
          /\ o.method \in {"key", "jwk", "web"} => o.type \in KeyTypes
          /\ o.method = "jwk" => o.use \in {"unset", "sig", "enc"}
    /\ Default.format = "JsonWebKey2020" /\ Default.accept = "did+ld+json"
    /\ MaxKeys \in Nat /\ MaxCreations \in Nat /\ MaxFaults \in Nat

TypeOK ==
    /\ held \subseteq Key
    /\ \A i \in listed : \A n \in DOMAIN i.keys : i.keys[n] \in Key
    /\ begun \in 0..MaxCreations /\ count \in 0..MaxKeys /\ faults \in 0..MaxFaults

Init ==
    /\ held = {} /\ listed = {}
    /\ making = Idle /\ going = Idle
    /\ begun = 0 /\ count = 0 /\ faults = 0

-----------------------------------------------------------------------------
(* Creation *)

(* did:key knows the codecs of three types, and takes Ed25519 for any other. *)
KeyMethodType(type) == IF type = "Secp256r1" THEN "Ed25519" ELSE type

(* A service makes it a peer DID of the second kind. *)
Algo(o) == IF o.service # NoService THEN 2 ELSE o.algo

(* The types of the keys that are made, in their order *)
KeysFor(o) ==
    CASE o.method = "key" -> <<KeyMethodType(o.type)>>
      [] o.method = "peer" -> IF Algo(o) = 2 THEN <<"Ed25519", "X25519">> ELSE <<"Ed25519">>
      [] o.method = "pkh" -> <<"Secp256k1">>
      [] OTHER -> <<o.type>>

(* What is refused before a key is made, and after it: the latter stays. *)
RefusedAtOnce(o) ==
    \/ o.method = "peer" /\ Algo(o) \notin {0, 2}
    \/ o.method = "pkh" /\ o.namespace # "eip155"
    \/ o.method = "web" /\ \E i \in listed : i.did.method = "web" /\ i.did.alias = o.alias
RefusedLate(o) ==
    o.method = "jwk" /\ <<o.type, o.use>> \in {<<"X25519", "sig">>, <<"Ed25519", "enc">>}

\* Without a use that is asked for, a JWK has none.
KeyUseAsAsked(o) == o.use
(* getKeyUse: the use that is asked for, or what the type is for *)
KeyUse(o) == IF o.use # "unset" THEN o.use ELSE IF o.type = "X25519" THEN "enc" ELSE "sig"

(* The DIDs that are made of the keys *)
KeyDid(keys) == [method |-> "key", key |-> keys[1]]
JwkDid(o, keys) == [method |-> "jwk", key |-> keys[1], use |-> KeyUse(o)]
PeerDid(o, keys) == [method |-> "peer", keys |-> keys, service |-> o.service]
PkhDid(keys) == [method |-> "pkh", key |-> keys[1]]
WebDid(o) == [method |-> "web", alias |-> o.alias]
DidOf(o, keys) ==
    CASE o.method = "key" -> KeyDid(keys)
      [] o.method = "jwk" -> JwkDid(o, keys)
      [] o.method = "peer" -> PeerDid(o, keys)
      [] o.method = "pkh" -> PkhDid(keys)
      [] o.method = "web" -> WebDid(o)

Quiet == making = Idle /\ going = Idle

BeginCreate(o) ==
    /\ Quiet /\ ~RefusedAtOnce(o) /\ begun < MaxCreations
    /\ begun' = begun + 1
    /\ making' = [asked |-> o, keys |-> <<>>]
    /\ UNCHANGED <<held, listed, going, count, faults>>

(* keyManagerCreate, or keyManagerImport of a private key that is given *)
ImportOrGenerateKey(o, type) == [id |-> IF o.given THEN 0 ELSE count + 1, type |-> type]

MakeKey ==
    /\ making # Idle /\ Len(making.keys) < Len(KeysFor(making.asked))
    /\ making.asked.given \/ count < MaxKeys
    /\ LET k == ImportOrGenerateKey(making.asked, KeysFor(making.asked)[Len(making.keys) + 1])
       IN /\ held' = held \union {k}
          /\ making' = [making EXCEPT !.keys = Append(@, k)]
    /\ count' = IF making.asked.given THEN count ELSE count + 1
    /\ UNCHANGED <<listed, going, begun, faults>>

(* The DID manager stores what the provider returns, over what had its DID. *)
FinishCreate ==
    /\ making # Idle /\ Len(making.keys) = Len(KeysFor(making.asked))
    /\ making' = Idle
    /\ LET o == making.asked
           did == DidOf(o, making.keys)
           services == IF o.method = "peer" THEN {o.service} \ {NoService} ELSE {}
       IN listed' = IF RefusedLate(o) THEN listed
                    ELSE {i \in listed : i.did # did} \union
                         {[did |-> did, keys |-> making.keys, services |-> services]}
    /\ UNCHANGED <<held, going, begun, count, faults>>

(* A key store or KMS throws: the keys that were made stay. *)
CreateFails ==
    /\ making # Idle /\ faults < MaxFaults /\ faults' = faults + 1
    /\ making' = Idle
    /\ UNCHANGED <<held, listed, going, begun, count>>

-----------------------------------------------------------------------------
(* Updates and deletion *)

(* Four providers throw at every change of a document; that of did:web agrees
   to any. *)
KeyProviderThrows(i) == i.did.method = "key"
JwkProviderThrows(i) == i.did.method = "jwk"
PeerProviderThrows(i) == i.did.method = "peer"
PkhProviderThrows(i) == i.did.method = "pkh"

Change(i, keys, services) ==
    /\ Quiet /\ i \in listed
    /\ ~(KeyProviderThrows(i) \/ JwkProviderThrows(i) \/ PeerProviderThrows(i) \/ PkhProviderThrows(i))
    /\ listed' = (listed \ {i}) \union {[i EXCEPT !.keys = keys, !.services = services]}
    /\ UNCHANGED <<held, making, going, begun, count, faults>>

AddKey(i, k) == k \in held /\ Len(i.keys) < MaxKeys /\ Change(i, Append(i.keys, k), i.services)
RemoveKey(i, k) == Change(i, Without(i.keys, {k}), i.services)
AddService(i, s) == Change(i, i.keys, i.services \union {s})
RemoveService(i, s) == s \in i.services /\ Change(i, i.keys, i.services \ {s})

BeginDelete(i) ==
    /\ Quiet /\ i \in listed
    /\ going' = [asked |-> i, left |-> i.keys]
    /\ UNCHANGED <<held, listed, making, begun, count, faults>>

(* keyManagerDelete of one key after another throws at a key that is gone. *)
DeleteKey ==
    /\ going # Idle /\ going.left # <<>>
    /\ held' = held \ {going.left[1]}
    /\ going' = IF going.left[1] \in held THEN [going EXCEPT !.left = Tail(@)] ELSE Idle
    /\ UNCHANGED <<listed, making, begun, count, faults>>

FinishDelete ==
    /\ going # Idle /\ going.left = <<>>
    /\ listed' = listed \ {going.asked} /\ going' = Idle
    /\ UNCHANGED <<held, making, begun, count, faults>>

Next ==
    \/ \E o \in Requests : BeginCreate(o)
    \/ MakeKey \/ FinishCreate \/ CreateFails
    \/ \E i \in listed : BeginDelete(i) \/ AddService(i, "s") \/ RemoveService(i, "s")
    \/ \E i \in listed, k \in held : AddKey(i, k) \/ RemoveKey(i, k)
    \/ DeleteKey \/ FinishDelete

Spec == Init /\ [][Next]_vars

-----------------------------------------------------------------------------
(* Documents *)

Method(k, as) == [id |-> k.id, type |-> k.type, as |-> as]
Doc(signing, agreement, services) ==
    [methods |-> signing \union agreement, signing |-> signing, agreement |-> agreement,
     services |-> services]
NoDocument == Doc({}, {}, {})

(* Ed25519 keys serve to encrypt in their X25519 form. *)
Converted(m) == IF m.type = "Ed25519" THEN [m EXCEPT !.type = "from Ed25519"] ELSE m

(* The formats of each type, and how the key is written in them *)
Written ==
    [JsonWebKey2020 |-> "jwk", EcdsaSecp256r1VerificationKey2019 |-> "jwk", Multikey |-> "multibase",
     EcdsaSecp256k1VerificationKey2019 |-> "multibase", EcdsaSecp256k1VerificationKey2020 |-> "multibase",
     Ed25519VerificationKey2020 |-> "multibase", X25519KeyAgreementKey2020 |-> "multibase",
     Ed25519VerificationKey2018 |-> "base58", X25519KeyAgreementKey2019 |-> "base58"]
EcdsaFormats ==
    {"JsonWebKey2020", "EcdsaSecp256r1VerificationKey2019", "Multikey",
     "EcdsaSecp256k1VerificationKey2019", "EcdsaSecp256k1VerificationKey2020"}
EddsaFormats == {"JsonWebKey2020", "Multikey", "Ed25519VerificationKey2020", "Ed25519VerificationKey2018"}
X25519Formats == {"JsonWebKey2020", "Multikey", "X25519KeyAgreementKey2020", "X25519KeyAgreementKey2019"}

KnownAccept(v) == v.accept \in {"did+ld+json", "did+json"}

ResolveECDSA(k, v) ==
    IF v.format \in EcdsaFormats THEN Doc({Method(k, Written[v.format])}, {}, {}) ELSE NoDocument
ResolveEDDSA(k, v) ==
    LET m == Method(k, Written[v.format])
    IN IF v.format \in EddsaFormats THEN Doc({m}, IF v.derive THEN {Converted(m)} ELSE {}, {}) ELSE NoDocument
ResolveX25519(k, v) ==
    IF v.format \in X25519Formats THEN Doc({}, {Method(k, Written[v.format])}, {}) ELSE NoDocument
ResolveKey(k, v) ==
    CASE ~KnownAccept(v) -> NoDocument
      [] KnownAccept(v) /\ k.type = "X25519" -> ResolveX25519(k, v)
      [] KnownAccept(v) /\ k.type = "Ed25519" -> ResolveEDDSA(k, v)
      [] KnownAccept(v) /\ k.type = "Secp256k1" -> ResolveECDSA(k, v)

ResolveJwk(did) ==
    LET m == {Method(did.key, "jwk")}
    IN [Doc(IF did.use = "sig" THEN m ELSE {}, IF did.use = "enc" THEN m ELSE {}, {}) EXCEPT !.methods = m]

(* The library decodes a service that the provider encoded. *)
ResolvePeer(did) ==
    LET m == Method(did.keys[1], "multibase")
    IN IF Len(did.keys) = 1 THEN Doc({m}, {Converted(m)}, {})
       ELSE Doc({m}, {Method(did.keys[2], "multibase")}, {did.service} \ {NoService})

ResolvePkh(did, v) == IF KnownAccept(v) THEN Doc({Method(did.key, "account")}, {}, {}) ELSE NoDocument

\* Only keys that were made for encryption are listed for it.
ServeX25519Only(i) ==
    LET keys == {i.keys[n] : n \in DOMAIN i.keys}
    IN Doc({Method(k, "raw") : k \in {x \in keys : x.type # "X25519"}},
           {Method(k, "raw") : k \in {x \in keys : x.type = "X25519"}}, i.services)
(* didDocForIdentifier: Ed25519 keys are listed for encryption too. *)
Serve(i) ==
    LET keys == {i.keys[n] : n \in DOMAIN i.keys}
    IN Doc({Method(k, "raw") : k \in {x \in keys : x.type # "X25519"}},
           {Method(k, "raw") : k \in {x \in keys : x.type \in {"Ed25519", "X25519"}}}, i.services)

Resolve(did, v) ==
    CASE did.method = "key" -> ResolveKey(did.key, v)
      [] did.method = "jwk" -> ResolveJwk(did)
      [] did.method = "peer" -> ResolvePeer(did)
      [] did.method = "pkh" -> ResolvePkh(did, v)
      [] did.method = "web" -> Serve(CHOOSE i \in listed : i.did = did)

-----------------------------------------------------------------------------
(* mapIdentifierKeysToDoc: the methods of a section that are the identifier's
   own.  Secp256k1 keys are compared by address as well; the coordinates of a
   JWK give the long form of a P-256 key, which the KMS keeps in short form. *)
Local(i, section) ==
    LET keys == {Method(i.keys[n], "") : n \in DOMAIN i.keys}
    IN IF section = "agreement"
       THEN {Converted(k) : k \in {x \in keys : x.type \in {"Ed25519", "X25519"}}}
       ELSE keys

IsOwn(m, section, i) ==
    LET shown == IF section = "agreement" THEN Converted(m) ELSE m
    IN [shown EXCEPT !.as = ""] \in Local(i, section) /\ ~(m.type = "Secp256r1" /\ m.as = "jwk")

Mapped(i, doc, section) == {m \in doc[section] : IsOwn(m, section, i)}

(* Keys that agree on no secret in this agent, or that it does not recognise *)
NotMapped(i) ==
    i.did.method = "jwk" /\ (i.did.key.type = "Secp256r1" \/ (i.did.key.type = "Secp256k1" /\ i.did.use = "enc"))

(* An identifier that was created resolves; whichever way its document is
   written, the agent recognises each of its entries, and finds in it a key for
   each use that the identifier's keys have. *)
CreatedResolves ==
    \A i \in listed, v \in Views :
        LET doc == Resolve(i.did, v)
            types == {i.keys[n].type : n \in DOMAIN i.keys}
        IN /\ v = Default /\ i.keys # <<>> => doc # NoDocument
           /\ ~NotMapped(i) /\ doc # NoDocument =>
                /\ \A s \in {"signing", "agreement"} : Mapped(i, doc, s) = doc[s]
                /\ types \cap {"Ed25519", "Secp256k1", "Secp256r1"} # {} => Mapped(i, doc, "signing") # {}
                /\ \/ "X25519" \in types
                   \/ "Ed25519" \in types /\ i.did.method # "jwk" /\ v.derive
                   => Mapped(i, doc, "agreement") # {}
           /\ i.did.method = "peer" => i.services = doc.services

=============================================================================
