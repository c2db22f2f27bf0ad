------------------------------ MODULE LdSuites ------------------------------
(***************************************************************************)
(* JSON-LD credentials and presentations (credential-ld): which of the     *)
(* installed signature suites signs with which key, and the documents that *)
(* are loaded for the suites when they verify, which every suite alters in *)
(* turn and in place, as the resolver holds them.                          *)
(***************************************************************************)
EXTENDS Naturals, Sequences, FiniteSets, SequencesExt, Filters

CONSTANTS
    KeyType,         \* the type of each key of the issuer
    Installations,   \* the proof types of the suites that may be installed, in order
    Documents,       \* the documents that the issuer's DID may have
    Payloads         \* the presentations that may be asked for

Suite(proof, keyType, types) == [proof |-> proof, keyType |-> keyType, types |-> types]
EcdsaRecovery2020 ==
    Suite("EcdsaSecp256k1RecoverySignature2020", "Secp256k1", <<"EcdsaSecp256k1RecoveryMethod2020">>)
Ed25519Of2018 ==
    Suite("Ed25519Signature2018", "Ed25519", <<"Ed25519VerificationKey2018", "JsonWebKey2020">>)
Ed25519Of2020 ==
    Suite("Ed25519Signature2020", "Ed25519", <<"Ed25519VerificationKey2020", "Ed25519VerificationKey2018">>)
JsonWebSignature2020 == Suite("JsonWebSignature2020", "Ed25519", <<"JsonWebKey2020">>)

Adapters == {EcdsaRecovery2020, Ed25519Of2018, Ed25519Of2020, JsonWebSignature2020}

(* A document, with what the suites look at in it *)
Method == [name: STRING, kid: STRING, type: STRING, account: STRING, context: STRING, multibase: BOOLEAN]
Document == [ethr: BOOLEAN, contexts: SUBSET STRING, methods: Seq(Method)]

(* The suites of veramo, and documents as resolvers make them: each method has an id
   of its own, those of recovery have an account, for did:ethr maybe in the old
   form, and an Ed25519VerificationKey2020 has none. *)
LdAssumption ==
    /\ \A installed \in Installations : installed \in Seq({s.proof : s \in Adapters})
    /\ \A document \in Documents :
          LET methods == document.methods IN
          /\ document \in Document
          /\ \A i, j \in DOMAIN methods : methods[i].name = methods[j].name => i = j
          /\ \A i \in DOMAIN methods :
                /\ methods[i].type = "EcdsaSecp256k1RecoveryMethod2020" =>
                      methods[i].account = "chain:address" \/ (document.ethr /\ methods[i].account = "address@chain")
                /\ methods[i].type = "Ed25519VerificationKey2020" => methods[i].account = "none"

VARIABLES
    suites,      \* what the plugin was constructed with
    resolved,    \* the issuer's document as the resolver holds it
    proof,       \* what was signed, and by what
    verifies     \* what verifying it has said

vars == <<suites, resolved, proof, verifies>>

NoDocument == [ethr |-> FALSE, contexts |-> {}, methods |-> <<>>]
NoProof == [suite |-> "none"]
TypeOK ==
    /\ suites \in Seq(Adapters) /\ proof.suite \in STRING /\ verifies \in BOOLEAN
    /\ DOMAIN resolved = DOMAIN NoDocument /\ resolved.contexts \subseteq STRING

Init == suites = <<>> /\ resolved = NoDocument /\ proof = NoProof /\ verifies = TRUE

(* The constructor, and an identifier that resolves *)
Construct(installed, document) ==
    /\ suites = <<>> /\ resolved' = document
    /\ suites' = [i \in DOMAIN installed |-> CHOOSE s \in Adapters : s.proof = installed[i]]
    /\ UNCHANGED <<proof, verifies>>

-----------------------------------------------------------------------------
(* The suite loader: suites are kept by key type and verification type, in the
   order in which they, and the types, were first named. *)
SuitesFor(installed, keyType, type) ==
    Without(installed, {s \in Adapters : s.keyType # keyType \/ ~Contains(s.types, type)})
Distinct(seq) ==
    LET found[i \in 0..Len(seq)] ==
            IF i = 0 THEN <<>>
            ELSE IF Contains(found[i - 1], seq[i]) THEN found[i - 1] ELSE Append(found[i - 1], seq[i])
    IN found[Len(seq)]
TypesOf(installed, keyType) ==
    Distinct(FlattenSeq([i \in DOMAIN installed |->
                            IF installed[i].keyType = keyType THEN installed[i].types ELSE <<>>]))
(* A suite is there once for each of its verification types. *)
AllSuites(installed) ==
    LET keyTypes == Distinct([i \in DOMAIN installed |-> installed[i].keyType])
        ofType(t) == LET types == TypesOf(installed, t)
                     IN FlattenSeq([i \in DOMAIN types |-> SuitesFor(installed, t, types[i])])
    IN FlattenSeq([i \in DOMAIN keyTypes |-> ofType(keyTypes[i])])
AllTypes(installed) == UNION {Range(installed[i].types) : i \in DOMAIN installed}

-----------------------------------------------------------------------------
(* getDIDComponentById: the first method with the id; 0 if there is none *)
GetDIDComponentById(document, name) ==
    SelectInSeq(document.methods, LAMBDA method : method.name = name)

\* Only an outdated link is replaced.
ModernLinkOnly(document) ==
    LET linked == IF "legacy" \in document.contexts
                  THEN (document.contexts \ {"legacy"}) \cup {"recovery/v2"} ELSE document.contexts
    IN [document EXCEPT !.contexts = linked]
(* EcdsaSecp256k1RecoverySignature2020 replaces an outdated context, drops one
   that conflicts with its own, and for did:ethr account ids in an old form. *)
ForEcdsaRecovery(document) ==
    LET linked == IF "legacy" \in document.contexts
                  THEN (document.contexts \ {"legacy"}) \cup {"recovery/v2"} ELSE document.contexts
    IN [document EXCEPT
          !.contexts = IF {"security/v3-unstable", "recovery/v2"} \subseteq linked
                       THEN linked \ {"security/v3-unstable"} ELSE linked,
          !.methods = [i \in DOMAIN @ |-> IF document.ethr /\ @[i].account = "address@chain"
                                          THEN [@[i] EXCEPT !.account = "chain:address"] ELSE @[i]]]

(* Ed25519Signature2020 gives its methods their context and their key's form. *)
TransformVerificationMethod(method) ==
    IF method.type # "Ed25519VerificationKey2020" THEN method
    ELSE [method EXCEPT !.context = "ed25519-2020/v1", !.multibase = TRUE]
Transformed(document) ==
    [document EXCEPT !.methods = [i \in DOMAIN @ |-> TransformVerificationMethod(@[i])]]

\* Whatever the method, the suite hands out the method alone.
ForEd25519Of2020Always(document, name) ==
    [document |-> Transformed(document), at |-> GetDIDComponentById(document, name)]
(* It wants the method that a URL with a fragment names, if it is one of its
   own, instead of the document (`at` is 0 for the whole document). *)
ForEd25519Of2020(document, name) ==
    LET at == GetDIDComponentById(document, name)
        own == at # 0 /\ document.methods[at].type = "Ed25519VerificationKey2020"
    IN [document |-> Transformed(document), at |-> IF own THEN at ELSE 0]

(* preDidResolutionModification; once there is a method alone, nothing more is
   changed of it. *)
PreDidResolutionModification(suite, name, loaded) ==
    CASE loaded.at # 0 \/ suite.proof \in {"Ed25519Signature2018", "JsonWebSignature2020"} -> loaded
      [] loaded.at = 0 /\ suite.proof = "EcdsaSecp256k1RecoverySignature2020" ->
           [loaded EXCEPT !.document = ForEcdsaRecovery(@)]
      [] loaded.at = 0 /\ suite.proof = "Ed25519Signature2020" -> ForEd25519Of2020(loaded.document, name)

(* The document loader, for a DID or for a DID URL with the name of a method *)
Loads(all, name, document) ==
    LET loaded[i \in 0..Len(all)] ==
            IF i = 0 THEN [document |-> document, at |-> 0]
            ELSE PreDidResolutionModification(all[i], name, loaded[i - 1])
    IN loaded[Len(all)]
Result(loaded) ==
    IF loaded.at = 0 THEN [whole |-> TRUE, is |-> loaded.document.contexts, of |-> loaded.document.methods]
    ELSE [whole |-> FALSE, is |-> {}, of |-> <<loaded.document.methods[loaded.at]>>]

Names == {"the DID"} \cup {resolved.methods[i].name : i \in DOMAIN resolved.methods}
Load(name) ==
    /\ suites # <<>> /\ resolved' = Loads(AllSuites(suites), name, resolved).document
    /\ UNCHANGED <<suites, proof, verifies>>

-----------------------------------------------------------------------------
NoMethod == [name |-> "none", kid |-> "none", type |-> "none"]
FirstWhere(seq, Test(_)) == LET at == SelectInSeq(seq, Test) IN IF at = 0 THEN NoMethod ELSE seq[at]
Supported(method) == method.type \in AllTypes(suites)

\* The first supported entry of the document, whichever key was asked for.
FindSigningKeyAny(ref) == FirstWhere(resolved.methods, Supported)
(* findSigningKeyWithId looks at the first entry of the key asked for, and then,
   unless a suite supports it, for the first entry that any suite supports. *)
FindSigningKeyWithId(ref) ==
    LET asked == FirstWhere(resolved.methods, LAMBDA m : m.kid = ref)
    IN IF Supported(asked) THEN asked ELSE FirstWhere(resolved.methods, Supported)

(* Which suite signs with the key of an entry, if any *)
SigningSuites(method) ==
    IF method = NoMethod THEN <<>> ELSE SuitesFor(suites, KeyType[method.kid], method.type)

Signed(method, payload) ==
    [suite |-> SigningSuites(method)[1].proof, name |-> method.name, kid |-> method.kid,
     type |-> method.type, contents |-> payload]

(* createVerifiableCredentialLD, issueLDVerifiableCredential *)
Issue(ref) ==
    LET method == FindSigningKeyWithId(ref) IN
    /\ suites # <<>> /\ proof = NoProof /\ SigningSuites(method) # <<>>
    /\ proof' = Signed(method, "credential")
    /\ UNCHANGED <<suites, resolved, verifies>>

\* The presentation is signed as it was given.
PreparedAsGiven(payload) == payload
(* createVerifiablePresentationLD leaves out what its library refuses and puts
   JWT credentials in as JWTs; preSigningPresModification an empty list. *)
Prepared(payload) ==
    [issuanceDate |-> FALSE,
     verifier |-> IF payload.verifier = "empty" THEN "none" ELSE payload.verifier,
     credentials |-> [i \in DOMAIN payload.credentials |->
                         IF payload.credentials[i] = "decoded JWT" THEN "JWT" ELSE payload.credentials[i]]]
(* What the library signs *)
Signable(payload) ==
    ~payload.issuanceDate /\ payload.verifier # "empty" /\ "decoded JWT" \notin Range(payload.credentials)

(* createVerifiablePresentationLD, signLDVerifiablePresentation *)
Present(ref, payload) ==
    LET method == FindSigningKeyWithId(ref) IN
    /\ suites # <<>> /\ proof = NoProof /\ SigningSuites(method) # <<>>
    /\ proof' = IF Signable(Prepared(payload)) THEN Signed(method, Prepared(payload))
                ELSE [suite |-> "threw", kid |-> ref]
    /\ UNCHANGED <<suites, resolved, verifies>>

(* What a suite's library takes from the loader: the entry in a form it knows. *)
Reads(suite, name, loaded) ==
    \E i \in DOMAIN loaded.of :
        /\ loaded.of[i].name = name /\ Contains(suite.types, loaded.of[i].type)
        /\ suite.proof = "EcdsaSecp256k1RecoverySignature2020" =>
              /\ "legacy" \notin loaded.is /\ ~({"security/v3-unstable", "recovery/v2"} \subseteq loaded.is)
              /\ loaded.of[i].account = "chain:address"
        /\ suite.proof = "Ed25519Signature2020" =>
              ~loaded.whole /\ loaded.of[i].context = "ed25519-2020/v1" /\ loaded.of[i].multibase

(* verifyCredential, verifyPresentation *)
Verify ==
    /\ proof.suite \notin {"none", "threw"}
    /\ LET loaded == Loads(AllSuites(suites), proof.name, resolved) IN
       /\ resolved' = loaded.document
       /\ verifies' = \E i \in DOMAIN suites :
                          suites[i].proof = proof.suite /\ Reads(suites[i], proof.name, Result(loaded))
    /\ UNCHANGED <<suites, proof>>

Next ==
    \/ suites = <<>> /\ \E installed \in Installations, document \in Documents : Construct(installed, document)
    \/ \E name \in Names : Load(name)
    \/ \E ref \in DOMAIN KeyType \cup {"any"} : Issue(ref) \/ (\E p \in Payloads : Present(ref, p))
    \/ Verify

Spec == Init /\ [][Next]_vars

-----------------------------------------------------------------------------
(* What one agent signs, an agent with the same suites verifies, however many
   documents were loaded in between and altered in place, unless it was signed
   by the suite of 2020 for an entry of 2018: that suite comes first only where
   the suite of 2018 is installed after it, or not at all. *)
SignedVerifies ==
    proof.suite \notin {"none", "threw"} =>
        \/ verifies
        \/ proof.suite = "Ed25519Signature2020" /\ proof.type = "Ed25519VerificationKey2018"

(* The suites' turns at a document do not get into each other's way: the order
   in which they were installed changes nothing of what is loaded, nor does
   having been loaded before. *)
TurnsDoNotMatter ==
    LET all == AllSuites(suites)
        inOneOrder == AllSuites(Without(<<EcdsaRecovery2020, Ed25519Of2018, Ed25519Of2020, JsonWebSignature2020>>,
                                        Adapters \ Range(suites)))
    IN suites # <<>> /\ proof = NoProof =>
         \A name \in Names :
            LET result == Result(Loads(all, name, resolved)) IN
            /\ Result(Loads(inOneOrder, name, resolved)) = result
            /\ \A other \in Names : Result(Loads(all, name, Loads(all, other, resolved).document)) = result

(* A presentation of the issuer is signed, and the key asked for signs if a
   suite supports its first entry in the document. *)
AskedKeySigns ==
    /\ proof.suite # "threw"
    /\ \A ref \in DOMAIN KeyType :
          LET own == FirstWhere(resolved.methods, LAMBDA m : m.kid = ref)
          IN SigningSuites(own) # <<>> => FindSigningKeyWithId(ref) = own
=============================================================================
