----------------------------- MODULE KeyManager -----------------------------
(***************************************************************************)
(* What the keys of an agent can be used for: the key manager records which *)
(* algorithms a key has and which key management system (KMS) keeps it,    *)
(* and asks that one to sign or to agree on a secret.  Calls are whole     *)
(* here; their interleavings and failures are in Identifiers.              *)
(***************************************************************************)
EXTENDS Naturals, FiniteSets

CONSTANTS
    Stores,     \* the KMSs that hold private keys
    Accounts,   \* the accounts of the browser wallets, by kid
    Kids,       \* the aliases that keys are imported under
    Privates,   \* private keys
    Claims      \* the sets of algorithms that importers may claim

VARIABLES
    listed,     \* the key store: kid to [type, kms, algs, private]
    held        \* of each KMS, kid to [type, private]

vars == <<listed, held>>

Types == {"Ed25519", "X25519", "Secp256k1", "Secp256r1"}
NoKey == [type |-> "none"]
Wallets == "web3"

\* The key manager keeps its KMSs by their names.
KeyManagerAssumption == Wallets \notin Stores

TypeOK ==
    /\ \A k \in DOMAIN listed : listed[k] = NoKey \/ listed[k].kms \in Stores \union {Wallets}
    /\ \A s \in Stores, k \in Kids : held[s][k] = NoKey \/ held[s][k].type \in Types

Init ==
    /\ listed = [k \in Kids \union Accounts |-> NoKey]
    /\ held = [s \in Stores |-> [k \in Kids |-> NoKey]]

-----------------------------------------------------------------------------
(* asManagedKeyInfo: the algorithms of each type *)
Agreeing == {"ECDH", "ECDH-ES", "ECDH-1PU"}
Ethereum == {"eth_signTransaction", "eth_signTypedData", "eth_signMessage", "eth_rawSign"}
Algs ==
    [Ed25519 |-> {"EdDSA", "Ed25519"}, X25519 |-> Agreeing,
     Secp256k1 |-> {"ES256K", "ES256K-R"} \union Ethereum, Secp256r1 |-> {"ES256"}]

\* What the importer claims of the key stands.
RecordedAsClaimed(type, claimed) == IF claimed = {} THEN Algs[type] ELSE claimed
(* The algorithms that the KMS says replace what the importer claimed. *)
Recorded(type, claimed) == Algs[type]

Record(k, type, kms, algs, private) ==
    listed' = [listed EXCEPT ![k] = [type |-> type, kms |-> kms, algs |-> algs, private |-> private]]

(* keyManagerImport, and keyManagerCreate with a private key that is new: under
   an alias that a KMS has for another private key it is refused. *)
Import(s, k, type, private, claimed) ==
    /\ held[s][k] # NoKey => held[s][k].private = private
    /\ held' = [held EXCEPT ![s][k] = [type |-> type, private |-> private]]
    /\ Record(k, type, s, Recorded(type, claimed), private)

(* The wallets' KMS returns what it is given, and holds nothing. *)
ImportAccount(k) ==
    /\ Record(k, "Secp256k1", Wallets, {"eth_signMessage", "eth_signTypedData"}, k)
    /\ UNCHANGED held

(* keyManagerDelete: in the KMS that the key store names, then there *)
Delete(k) ==
    /\ listed[k] # NoKey
    /\ held' = IF listed[k].kms \in Stores THEN [held EXCEPT ![listed[k].kms][k] = NoKey] ELSE held
    /\ listed' = [listed EXCEPT ![k] = NoKey]

Next ==
    \/ \E s \in Stores, k \in Kids, type \in Types, p \in Privates, claimed \in Claims :
         Import(s, k, type, p, claimed)
    \/ \E k \in Accounts : ImportAccount(k)
    \/ \E k \in Kids \union Accounts : Delete(k)

Spec == Init /\ [][Next]_vars

-----------------------------------------------------------------------------
(* What a key does.  A signature and a secret are told by what they are made
   of, or the call throws. *)
Throws == "throws"

(* What the local KMS signs with keys of each type, for JWTs and for Ethereum *)
SignsJwt ==
    [Ed25519 |-> {"Ed25519", "EdDSA"}, X25519 |-> {}, Secp256k1 |-> {"ES256K", "ES256K-R"},
     Secp256r1 |-> {"ES256"}]
SignsEthereum ==
    {"eth_signTransaction", "signTransaction", "signTx", "eth_signMessage", "eth_signTypedData",
     "EthereumEip712Signature2021", "eth_rawSign"}

(* sign of the local KMS, by the type that it holds the private key with *)
LocalSigns(key, alg) == alg \in SignsJwt[key.type] \/ (key.type = "Secp256k1" /\ alg \in SignsEthereum)

(* sign of the wallets *)
WalletSigns(alg) == alg \in {"eth_signMessage", "eth_signTypedData", "EthereumEip712Signature2021"}

Sign(k, alg) ==
    LET s == listed[k].kms
    IN IF s = Wallets THEN (IF WalletSigns(alg) THEN k ELSE Throws)
       ELSE IF held[s][k] # NoKey /\ LocalSigns(held[s][k], alg) THEN held[s][k].private ELSE Throws

(* The two types whose keys agree on secrets, Ed25519 keys in their other form *)
Agree == {"Ed25519", "X25519"}

\* The key manager asks the KMS only for keys of one type.
SharedBySameType(k, their) ==
    LET mine == listed[k]
    IN IF mine.type # their.type \/ mine.kms = Wallets \/ mine.type \notin Agree THEN {}
       ELSE {<<held[mine.kms][k].type, held[mine.kms][k].private>>, <<their.type, their.private>>}
(* keyManagerSharedSecret and sharedSecret: what the two sides put in, or nothing *)
Shared(k, their) ==
    LET mine == listed[k]
    IN IF mine.type # their.type /\ {mine.type, their.type} # Agree THEN {}
       ELSE IF mine.kms = Wallets \/ held[mine.kms][k] = NoKey THEN {}
       ELSE IF held[mine.kms][k].type \notin Agree \/ their.type \notin Agree THEN {}
       ELSE {<<held[mine.kms][k].type, held[mine.kms][k].private>>, <<their.type, their.private>>}

(* keyManagerEncryptJWE makes an X25519 key for the message; keyManagerDecryptJWE
   has the recipient's key agree with it. *)
Ephemeral == [type |-> "X25519", private |-> "ephemeral"]
Encrypted(to) == IF to.type \in Agree THEN {<<"X25519", "ephemeral">>, <<to.type, to.private>>} ELSE {}
Decrypts(k) == Encrypted(listed[k]) # {} /\ Shared(k, Ephemeral) = Encrypted(listed[k])

Listed == {k \in DOMAIN listed : listed[k] # NoKey}

(* A key that the agent lists does what its algorithms say, by the KMS that the
   key store names, under whichever names and in whichever KMSs keys were
   imported before; its owner opens what was encrypted to it; and two keys agree
   on one secret, whichever of them asks. *)
ListedKeysServe ==
    \A k \in Listed :
        /\ \A alg \in listed[k].algs :
              IF alg \in Agreeing THEN Shared(k, Ephemeral) # {} ELSE Sign(k, alg) = listed[k].private
        /\ listed[k].type \in Agree => Decrypts(k)
        /\ \A other \in Listed :
              Shared(k, listed[other]) = Shared(other, listed[k])

=============================================================================
