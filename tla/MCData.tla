------------------------------- MODULE MCData -------------------------------
(***************************************************************************)
(* What an agent stores, and what it decides from it: the identifiers and  *)
(* keys, the key-value store, the private keys, the JSON and SQL stores    *)
(* with their layouts and queries, credentials and their suites, selective *)
(* disclosure, profiles and the discovery of DIDs, the packing of          *)
(* messages, the providers of DIDs, the keys that they use, and the calls  *)
(* of its methods.  They share nothing that changes, so one run checks     *)
(* them next to one another: a behaviour is one of the chosen component.   *)
(***************************************************************************)
EXTENDS DataKeys, DataRecords, DataAnswers, TLC

VARIABLE chosen

(* Methods that touch keys which identifiers share, of the identifiers or of the
   keys themselves. *)
WithSharedKeys == {"create", "setAlias", "addKey", "delete"}

(* Identifiers whose keys are removed again. *)
Keyed == INSTANCE Identifiers WITH Operations <- {"create", "addKey", "deleteKey", "delete"}

(* Entries that last, of a store whose clock stands still. *)
Lasting == INSTANCE KvStore WITH
        Keys <- EntryKeys, Callers <- KvCallers, Exclusive <- KvTurns, Ttls <- {0}, MaxTime <- 0,
        MaxFaults <- MaxKvFaults, local <- near, calls <- uses, now <- kvNow, faults <- failures

(* A message with a credential and a presentation in it, which has a credential
   of its own and the message's. *)
PartiesOf == ("m" :> {"alice"}) @@ ("v" :> {"alice", "bob"}) @@ ("p" :> {"bob"}) @@ ("w" :> {"alice"})
AttachedTo == ("m" :> <<"v", "p">>) @@ ("v" :> <<>>) @@ ("w" :> <<>>) @@ ("p" :> <<"w", "v">>)

(* A credential that one identifier issued to another. *)
IssuedBy == [v \in {"v"} |-> "alice"]
IssuedTo == [v \in {"v"} |-> "bob"]

Row(id, text, date, maybe, party, verifier, joined) ==
    [id |-> id, text |-> text, date |-> date, maybe |-> maybe, party |-> party,
     verifier |-> verifier, rows |-> joined]
FourRows == << Row(1, 2, 1, 1, "alice", {}, 1), Row(2, 1, 1, 99, "bob", {}, 2), Row(3, 3, 2, 2, "alice", {}, 1),
               Row(4, 3, 1, 1, "alice", {}, 1) >>
ThreePresentations ==
    << Row(1, 2, 1, 1, "bob", {"alice", "bob"}, 1), Row(2, 1, 2, 99, "bob", {}, 1), Row(3, 3, 1, 2, "alice", {"bob"}, 1) >>
Where(op, columns, value) == [column: columns, op: {op}, value: {value}, not: BOOLEAN]

(* Four entries, of which one has two joined rows or none has, or three, which are
   identifiers or presentations, of which one has two verifiers or none has. *)
FourEntries ==
    {[of |-> "others", entries |-> FourRows],
     [of |-> "others", entries |-> [i \in 1..4 |-> [FourRows[i] EXCEPT !.rows = 1]]],
     [of |-> "identifiers", entries |-> [i \in 1..3 |-> [FourRows[i] EXCEPT !.rows = 1]]],
     [of |-> "presentations", entries |-> ThreePresentations],
     [of |-> "presentations", entries |-> Tail(ThreePresentations)]}
SomeConditions == Where("Equal", {"text", "maybe"}, {2}) \cup Where("LessThan", {"date"}, {2})
                  \cup Where("In", {"text"}, {1, 3}) \cup Where("IsNull", {"maybe"}, {2})
                  \cup [column: {"verifier"}, op: {"Equal"}, dids: {{"bob"}}, not: BOOLEAN]

SigningKey(kid, type, algs) == [kid |-> kid, type |-> type, algs |-> algs]

(* An issuer with a key of a browser wallet and two that the local KMS signs with. *)
OneIssuersKeys ==
    << SigningKey("web3", "Secp256k1", {"eth_signTypedData"}), SigningKey("ed", "Ed25519", {"EdDSA"}),
       SigningKey("secp", "Secp256k1", {"ES256K", "ES256K-R", "eth_signTypedData"}) >>
TwoManaged == <<"me", "also me">>

Claim(type, value, issuers, essential, name) ==
    [type |-> type, value |-> value, issuers |-> issuers[1], given |-> issuers[2], essential |-> essential,
     credentialType |-> name[1], credentialContext |-> name[2]]
Held(issuer, subject, types, contexts, parts) ==
    [issuer |-> issuer, subject |-> subject, types |-> types, contexts |-> contexts, claims |-> parts]

(* Credentials of two issuers about a name, an age or both, and of a longer type. *)
NamesAndAges ==
    {Held(issuer, "me", {"Pass"}, {"v1"}, parts) : issuer \in {"gov", "bank"},
       parts \in {[name |-> "A"], [name |-> "B"], [name |-> "A", age |-> "9"], [age |-> "9"]}}
    \cup {Held("gov", "me", {"BusPass"}, {"v1"}, [name |-> "A"]), Held("gov", "you", {"Pass"}, {"v2"}, [name |-> "A"])}
ClaimsOfThem ==
    {Claim(p[1], p[2], q, p[1] = "name", <<"anything", "anything">>) :
       p \in {<<"name", "anything">>, <<"name", "A">>, <<"age", "anything">>},
       q \in {<<{}, FALSE>>, <<{}, TRUE>>, <<{"gov"}, TRUE>>}}
    \cup {Claim("name", "anything", <<{}, FALSE>>, TRUE, name) : name \in {<<"Pass", "anything">>, <<"BusPass", "v1">>}}
FoundIn == [x \in {"Pass", "BusPass", "v1", "v2"} |-> IF x = "Pass" THEN {"Pass", "BusPass"} ELSE {x}]

Method(id, type, pub) == [id |-> id, type |-> type, pub |-> pub]
Lists(auth, agree) == [auth |-> auth, agree |-> agree]

(* Documents with keys of two curves, each rotated once. *)
RotatedDocs ==
    [alice |-> << Lists(<<Method("a1", "Ed25519", "A1"), Method("a2", "P-256", "A2")>>,
                        <<Method("a3", "X25519", "A3"), Method("a4", "P-256", "A4")>>),
                  Lists(<<Method("a1", "Ed25519", "A5")>>, <<Method("a3", "X25519", "A6")>>) >>,
     bob |-> << Lists(<<>>, <<Method("b1", "X25519", "B1"), Method("b2", "X25519", "B2"),
                              Method("b3", "P-256", "B3")>>),
                Lists(<<>>, <<Method("b1", "X25519", "B4"), Method("b2", "X25519", "B2")>>) >>,
     carol |-> << Lists(<<>>, <<Method("c1", "X25519", "C1")>>),
                  Lists(<<>>, <<Method("c2", "P-256", "C2")>>) >>]
ManagedByAgent == [x |-> {"bob"}, y |-> {"bob", "carol"}]
KeysOfAgent == [x |-> {"B2", "B4", "B3"}, y |-> {"B1", "B2", "C1", "C2"}]
AskedOfPacking ==
    [packing: {"authcrypt", "anoncrypt"}, to: {<<"bob">>, <<"bob", "carol">>},
     bcc: {<<>>, <<"carol">>}, kids: {{}, {"b2"}, {"b3", "c1"}}, keyRef: {"none", "a2", "a4"},
     alg: {<<"default">>, <<"ECDH-1PU", "XC20PKW">>, <<"ECDH-ES", "A256KW">>},
     enc: {"XC20P", "A256GCM", "A256CBC-HS512", "other"}]
    \cup [packing: {"none", "jws"}, to: {<<"bob">>}, bcc: {<<>>}, kids: {{}}, keyRef: {"none", "a2", "a4"},
          alg: {<<"default">>}, enc: {"XC20P"}]

Network(name, chain, given) == [name |-> name, chain |-> chain, given |-> given]
Chosen(is, of) == [is |-> is, of |-> of]

(* Networks that are named, or have a chain ID as a number or in hexadecimal. *)
FourNetworks ==
    << Network("mainnet", "1", "no"), Network("sepolia", "11155111", "number"),
       Network("", "42", "number"), Network("", "5", "hex") >>
SixSpecifiers ==
    {Chosen("nothing", ""), Chosen("name", "mainnet"), Chosen("number", "42"), Chosen("hex", "5"),
     Chosen("number", "11155111"), Chosen("name", "other")}
TypeOfAdded == [enc |-> "X25519"]
TwoHubs == [inbox |-> [type |-> "hub", endpoint |-> "e1"], outbox |-> [type |-> "hub", endpoint |-> "e2"]]

View(format, accept, derive) == [format |-> format, accept |-> accept, derive |-> derive]

(* Requests of each provider, some with a private key that is given. *)
RequestsOfEach ==
    [method: {"key"}, type: {"Ed25519", "X25519", "Secp256k1", "Secp256r1"}, given: {FALSE}]
    \cup [method: {"jwk"}, type: {"Ed25519", "X25519", "Secp256k1"}, use: {"unset", "sig", "enc"}, given: {TRUE}]
    \cup [method: {"peer"}, algo: {0, 1}, service: {"no service", "s"}, given: {TRUE}]
    \cup [method: {"pkh"}, namespace: {"eip155", "solana"}, given: {TRUE}]
    \cup [method: {"web"}, type: {"Ed25519", "Secp256r1"}, alias: {"host"}, given: {FALSE}]
EveryView ==
    [format: {"JsonWebKey2020", "Multikey", "Ed25519VerificationKey2018", "X25519KeyAgreementKey2019",
              "EcdsaSecp256k1VerificationKey2019"},
     accept: {"did+ld+json", "text"}, derive: BOOLEAN]
ViewByDefault == View("JsonWebKey2020", "did+ld+json", TRUE)

Plugin(id, methods, schema) == [id |-> id, methods |-> methods, schema |-> schema]

(* Plugins that share methods, one of which has a schema for another's; methods
   that are not authorized, not exposed or overridden. *)
CallingAgent ==
    [plugins |-> << Plugin("one", {"m", "n", "o"}, {"m"}), Plugin("client", {"n", "r", "s"}, {"m", "r"}),
                    Plugin("two", {"m"}, {}) >>,
     overrides |-> {"o", "q"}, authorized |-> {"m", "n", "o", "r", "s"}, validates |-> TRUE]
ServingAgent ==
    [plugins |-> << Plugin("three", {"n", "p", "r"}, {"r"}), Plugin("four", {"s"}, {"n"}) >>,
     overrides |-> {}, authorized |-> {"n", "p", "r", "s"}, validates |-> TRUE]
CallsOfMethods ==
    [method: {"m", "n", "o", "p", "q", "r", "s"}, args: SUBSET {"client", "three"},
     token: {"", "key", "other"}, result: {"value", "nothing", "throws"}, returns: SUBSET {"client", "three"}]

(* An importer of keys may claim algorithms of other types. *)
ClaimedAlgorithms == {{"EdDSA", "ES256", "ECDH"}}

Entry(name, kid, type, account) ==
    [name |-> name, kid |-> kid, type |-> type, account |-> account, context |-> "none", multibase |-> FALSE]
EthrEntries ==
    {Entry("#secp", "secp", "EcdsaSecp256k1RecoveryMethod2020", account) : account \in {"chain:address", "address@chain"}}
Written(entry) ==
    LET ed(type) == Entry("#ed", "ed", type, "none")
    IN {[ethr |-> entry.account # "none", contexts |-> contexts, methods |-> methods] :
          contexts \in {{"legacy"}, {"security/v3-unstable", "legacy"}},
          methods \in UNION {{<<entry, ed(type)>>, <<ed(type), entry>>} :
                                type \in {"Ed25519VerificationKey2018", "Ed25519VerificationKey2020", "JsonWebKey2020"}}}
Orders(set) == {order \in [1..Cardinality(set) -> set] : \A x \in set : \E i \in DOMAIN order : order[i] = x}

(* Every order of the four suites, and of fewer; both keys of the issuer have an
   entry in its document, in either order. *)
TypeOfSuiteKeys == [ed |-> "Ed25519", secp |-> "Secp256k1"]
SuitesInOrders == UNION {Orders(set) : set \in {
    {"EcdsaSecp256k1RecoverySignature2020", "Ed25519Signature2018", "Ed25519Signature2020", "JsonWebSignature2020"},
    {"EcdsaSecp256k1RecoverySignature2020", "Ed25519Signature2018"}, {"Ed25519Signature2020"}}}
IssuerDocuments == UNION {Written(entry) : entry \in EthrEntries \cup {Entry("#secp", "secp", "JsonWebKey2020", "none")}}
OnePayload == {[issuanceDate |-> TRUE, verifier |-> "empty", credentials |-> <<"decoded JWT", "JSON-LD">>]}

Service(is, of) == [is |-> is, of |-> of]

(* A message in two versions with some of its parts, credentials with either
   proof, and an identifier with endpoints of each kind. *)
EitherProof == [v |-> [proof |-> "jwt", issuer |-> "alice", names |-> "string"],
                w |-> [proof |-> "LD", issuer |-> "bob", names |-> "object"]]
WithEndpoints ==
    [alias: {"one", "unset"}, keys: SUBSET {"k1", "k2"},
     services: SUBSET {Service("text", "uri"), Service("object", "hub"), Service("quoted", "uri")}]

Wanted(parts, verifier, save) ==
    [holder |-> "did:me", claims |-> parts, verifier |-> verifier, save |-> save, send |-> TRUE]
About(subject, type, parts) == [subject |-> subject, type |-> type, claims |-> parts]
BobsPicture == [name |-> "alice", picture |-> "bob.png"]

(* Profiles whose parts contain one another's texts, and DIDs that a query is
   part of. *)
FourWishes ==
    {Wanted(BobsPicture, "nobody", TRUE), Wanted([name |-> "bobby"], "did:shop", TRUE),
     Wanted(BobsPicture, "did:shop", FALSE), Wanted([name |-> "bobby"], "did:carol", TRUE)}
FromOthers == {About("did:carol", "Profile", [name |-> "bob"]), About("did:carol", "Pass", [name |-> "bobby"])}
PartOf == {<<"bob", "bob">>, <<"bob", "bobby">>, <<"bob", "bob.png">>, <<"carol", "did:carol">>,
           <<"did:me", "did:me">>}

ASSUME Prof!ProfilesAssumption
ASSUME Kv!KvAssumption /\ Box!PrivateKeysAssumption /\ Js!JsonStoreAssumption /\ Sql!SqlAssumption
ASSUME Am!MethodsAssumption /\ Cr!CredentialsAssumption /\ Ethr!EthrAssumption
       /\ Km!KeyManagerAssumption /\ Dm!DidMethodsAssumption /\ Ld!LdAssumption /\ Qu!QueriesAssumption
       /\ Mig!MigrationsAssumption /\ Di!DisclosureAssumption /\ Rec!RecordsAssumption /\ Pack!PackingAssumption

DataInit ==
    /\ chosen \in {"identifiers", "keyed identifiers", "kv", "lasting kv", "private keys", "json", "sql",
                  "queries", "credentials", "disclosure", "packing", "ion", "ethr", "did methods",
                  "agent methods", "key manager", "ld suites", "migrations", "message rows",
                  "credential rows", "identifier rows", "profiles"}
    /\ Init /\ Kv!Init /\ Box!Init /\ Js!Init /\ Sql!Init
    /\ Qu!Init /\ Cr!Init /\ Di!Init /\ Pack!Init /\ Ion!Init /\ Ethr!Init
    /\ Dm!Init /\ Am!Init /\ Km!Init /\ Ld!Init /\ Mig!Init /\ Rec!Init /\ Prof!Init
    /\ chosen # "migrations" => driver = "sqlite" /\ db = Mig!Empty
    /\ chosen # "credentials" => doc = {}
    /\ chosen # "sql" => layout = "entities"

kvVars == <<near, remote, flight, uses, kvNow, sets, failures, may>>
boxVars == <<entries, imports, writes, boxFaults, imported>>
jsVars == <<tree, persisted, saves, made, storeFaults, restarts, present, absent, halfDone, deleted>>
sqlVars == <<sqlRows, managed, keyOf, creds, claims, messages, deletions, partial, layout>>
credVars == <<ring, doc, day, revoked, vc, verdict, vp, aimed>>
discVars == <<request, about, held, where, gathered, checked>>
packVars == <<documents, packed, asked, unpacked>>
ionVars == <<owned, saved, listed, updater, active, requests, rotations, fresh, lost, apart>>
ethrVars == <<did, attrs, nonce, sendings, slips, addedAs, added, removed>>
didVars == <<madeKeys, created, making, going, begun, count, didFaults>>
methodVars == <<methodCall, methodStage, ran, methodOutcome>>
keyVars == <<known, inKms>>
ldVars == <<suites, resolved, proof, verifies>>
migVars == <<driver, db, committed, transaction, enforced, todo, runs, cut, migrated>>
recVars == <<messageRow, sent, credentialRows, holderOf, identifierRow, latest>>
profVars == <<aliasOf, savedCreds, profile, posted, search, profiles, profileChanges, mishaps>>
dataVars == <<chosen, vars, kvVars, boxVars, jsVars, sqlVars, query, credVars, discVars,
              packVars, ionVars, ethrVars, didVars, methodVars, keyVars, ldVars, migVars, recVars,
              profVars>>

Others(one) ==
    /\ chosen = one /\ UNCHANGED chosen
    /\ IF one \in {"identifiers", "keyed identifiers"} THEN TRUE ELSE UNCHANGED vars
    /\ IF one \in {"kv", "lasting kv"} THEN TRUE ELSE UNCHANGED kvVars
    /\ IF one = "private keys" THEN TRUE ELSE UNCHANGED boxVars
    /\ IF one = "json" THEN TRUE ELSE UNCHANGED jsVars
    /\ IF one = "sql" THEN TRUE ELSE UNCHANGED sqlVars
    /\ IF one = "queries" THEN TRUE ELSE UNCHANGED query
    /\ IF one = "credentials" THEN TRUE ELSE UNCHANGED credVars
    /\ IF one = "disclosure" THEN TRUE ELSE UNCHANGED discVars
    /\ IF one = "packing" THEN TRUE ELSE UNCHANGED packVars
    /\ IF one = "ion" THEN TRUE ELSE UNCHANGED ionVars
    /\ IF one = "ethr" THEN TRUE ELSE UNCHANGED ethrVars
    /\ IF one = "did methods" THEN TRUE ELSE UNCHANGED didVars
    /\ IF one = "agent methods" THEN TRUE ELSE UNCHANGED methodVars
    /\ IF one = "key manager" THEN TRUE ELSE UNCHANGED keyVars
    /\ IF one = "ld suites" THEN TRUE ELSE UNCHANGED ldVars
    /\ IF one = "migrations" THEN TRUE ELSE UNCHANGED migVars
    /\ IF one \in {"message rows", "credential rows", "identifier rows"} THEN TRUE ELSE UNCHANGED recVars
    /\ IF one = "profiles" THEN TRUE ELSE UNCHANGED profVars

DataNext ==
    \/ Others("identifiers") /\ Next
    \/ Others("keyed identifiers") /\ Keyed!Next
    \/ Others("kv") /\ Kv!Next
    \/ Others("lasting kv") /\ Lasting!Next
    \/ Others("private keys") /\ Box!Next
    \/ Others("json") /\ Js!Next
    \/ Others("sql") /\ Sql!Next
    \/ Others("queries") /\ Qu!Query
    \/ Others("credentials") /\ Cr!Next
    \/ Others("disclosure") /\ Di!Next
    \/ Others("packing") /\ Pack!Next
    \/ Others("ion") /\ Ion!Next
    \/ Others("ethr") /\ Ethr!Next
    \/ Others("did methods") /\ Dm!Next
    \/ Others("agent methods") /\ Am!Next
    \/ Others("key manager") /\ Km!Next
    \/ Others("ld suites") /\ Ld!Next
    \/ Others("migrations") /\ Mig!Next
    \/ Others("message rows") /\ Rec!SaveMessages
    \/ Others("credential rows") /\ Rec!SaveCredentials
    \/ Others("identifier rows") /\ Rec!SaveIdentifiers
    \/ Others("profiles") /\ Prof!Next

DataSpec == DataInit /\ [][DataNext]_dataVars
CallerSymmetry == Permutations(Callers)

-----------------------------------------------------------------------------
(* A component that is not chosen stays in an initial state, where its properties
   hold: TLC need not evaluate them there again. *)
Of(one, property) == chosen = one => property

(* Every component is in the states that its module describes. *)
DataTypeOK ==
    /\ Of("identifiers", TypeOK) /\ Of("keyed identifiers", TypeOK)
    /\ Of("kv", Kv!TypeOK) /\ Of("lasting kv", Kv!TypeOK) /\ Of("private keys", Box!TypeOK)
    /\ Of("json", Js!TypeOK) /\ Of("sql", Sql!TypeOK) /\ Of("credentials", Cr!TypeOK)
    /\ Of("disclosure", Di!TypeOK) /\ Of("packing", Pack!TypeOK) /\ Of("ion", Ion!TypeOK)
    /\ Of("ethr", Ethr!TypeOK) /\ Of("did methods", Dm!TypeOK) /\ Of("agent methods", Am!TypeOK)
    /\ Of("key manager", Km!TypeOK) /\ Of("ld suites", Ld!TypeOK) /\ Of("migrations", Mig!TypeOK)
    /\ Of("profiles", Prof!TypeOK) /\ Of("message rows", Rec!TypeOK)
    /\ Of("credential rows", Rec!TypeOK) /\ Of("identifier rows", Rec!TypeOK)

=============================================================================
