# Veramo: TLA+ models and proofs

Veramo is a TypeScript framework for agents that manage decentralised
identifiers (DIDs), keys, credentials and DIDComm messages. An agent is a bag of
plugins: a call `agent.method(args)` is dispatched to the plugin that provides
the method, and plugins call each other through the agent. Everything is
asynchronous on one event loop. No plugin takes a lock, so every `await` is a
place where other calls run; the models below make exactly these places
steps.

Contents: 1 inventory, 2 how modules and code correspond, 3 the modules,
4 the runs, 5 bounds, 6 fairness, 7 proofs, 8 what the models reach and no run
reports, 9 what is not modelled, 10 plan.

## 1. Inventory

| Component | State | Operations | What is hard | What makes it correct |
|---|---|---|---|---|
| did-comm: message pickup | queued messages in the mediator's data store | status-request, delivery-request, messages-received (mediator), delivery (recipient) | acknowledgements lost, repeated or concurrent; one attachment of a batch failing; restarts; pattern queries that match other DIDs | nothing leaves the queue before its owner handled it; everything readable leaves it in the end |
| did-comm: routing | queued messages | forward | two awaited checks, then one save per recipient; errors swallowed | queued only for the mediated, whole or as a prefix |
| did-comm: coordinate mediation 2.0, 3.0 | services of DIDs, stored requests and answers | mediate-request, -grant, -deny, recipient-update, recipient-query | policy changes meanwhile; saves that throw; unasked answers; concurrent updates | documents list only what a mediator that was asked named in its answer; answers are on record; reports are true |
| mediation-manager | three key-value stores | set, get, remove, list | shared by all handlers | see coordination and routing |
| did-comm: DIDComm plugin, encryption | none of its own | pack, unpack, send; choice of ciphers | one message for several recipients, services, transports and mediators; documents change between packing and unpacking | recipients can open what arrives, as what it was packed |
| core: agent | event bus, queue of listener promises; tables of methods | execute, emit | concurrent emits drain one shared queue; errors are re-emitted; overrides and schemas are merged | an awaited emit waits for its listeners; only what was allowed runs |
| message-handler with the handlers of did-comm, did-jwt, credential-w3c, selective-disclosure, url-handler | chain of handlers; messages in the data store | handleMessage | handlers rewrite the message and fail; saving fails after they acted | what a stored message lists came in something verified; what was answered was saved |
| did-manager | DID store | create, getOrCreate, import, delete, setAlias, add/remove key and service | read, await the provider, write back the whole identifier | no update is lost, nothing is created under an alias that is taken, stores and providers agree |
| key-manager, kms-local, kms-web3 | key store, private key store | create, import, delete, get, sign, encrypt, agree | the two stores change one after the other; algorithms are listed by type | a key that is listed does what is listed for it |
| kv-store | backing maps | get, set, delete, clear, iterate, with TTLs | read-through between tiers, iteration by offset while entries go | no stale value outlives its expiry or deletion |
| data-store-json | one object, an update callback | save, delete, query; private keys | the callback fails or is late; objects are shared; paging | what was acknowledged survives; queries return what was asked for |
| data-store (TypeORM) | SQL tables in four versions | the same; migrations | deletions of several steps without a transaction; crashes between statements | no dangling rows; migrations lose nothing |
| credential-w3c, -status, -ld, -eip712 | none (LD: documents altered in place) | issue, present, verify | which key and format is usable; which errors make a verification fail | verified means signature, dates and status hold, and what was issued verifies |
| selective-disclosure | none | request, gather, validate; profiles | conditions of several claims; sends that fail | credentials gathered satisfy the claim; a returned profile is whole |
| did-discovery | none | discoverDid | stores change between reads, providers fail | found means it matched; a match all the while is found |
| did-provider-* , did-resolver | ledgers, or none | create, update, delete, add/remove key and service, resolve | keys rotate before the ledger accepts; names of networks; formats of documents | the agent keeps the keys the ledger knows, and finds its keys in its documents |
| remote-server, remote-client | none | HTTP to methods and back | schemas and API key on both sides, lost answers | what ran was asked for and allowed |
| cli, core-types, utils, test-* | none, or start-up | terminal commands, types, helpers | | |

Interactions: HTTP posts reach `MessagingRouter` (remote-server), which calls
`handleMessage` (message-handler); the chain unpacks (did-comm), runs the
protocol handlers, which read and write the data store, the mediation manager
and the DID manager, and attach a `ReturnRouteResponse` that the router sends
back. Events go through the bus of the agent (core). The DID manager calls the
providers, which call the key manager, which calls a key management system.

The hazards at their lines, with the properties that cover them and the
conditions under which they do, are the `hazards` of `PROJECT.json`; the status of
each package is in its `components`.

## 2. Conventions

- A call that awaits is a *task* (or a worker, a session, a promise, a *call*)
  with the stage it has reached, and each awaited call that changes or reads
  state is one action: what happens between two awaits happens in one step, as on
  the event loop. A call that throws is an action that ends the task and leaves
  what was done before.
- Where nothing that another call could change is read again after an await,
  a method is one step, and the module's header says so (`KeyManager`, `Queries`,
  `Records`, `Packing`).
- Variables marked *history* record what happened and are read by properties only.
- Definitions whose comment says *Mutant*, or that stand before a definition
  whose name begins theirs, state a plausible mistake in the code; no
  specification uses them.
- `MCData` and `MCProgress` put components next to one another that share nothing
  that changes. Their initial states choose one component, and only the chosen
  one moves: the state space is the sum of the components', not their product, and
  a behaviour of the run is a behaviour of one component. Each instance has the
  bounds given where it is instantiated.
- A property of such a run is the conjunction of what several components promise,
  each stated, with its comment, in the component's module.
- `DataKeys`, `DataRecords` and `DataAnswers` hold the instances of the components of
  `MCData`, each with constants and variables of its own, and the properties that
  the run checks. `MCData` extends all three and gives the constants values; a proof
  module extends the one whose components it proves about. So the definition
  that TLC checks is the one that the theorem names.

## 3. Modules

### Mediation

`MessagePickup` is `messagepickup-message-handler.ts`, both roles. `queue` is the
set of messages of type `QUEUE_MESSAGE_TYPE` in the mediator's data store, and `log`
numbers them in the order in which they were saved.

| Code | Model |
|---|---|
| `dataStoreORMGetMessages` with `Like('${from}%')` or a `recipient_key` | `Matching`; `Likes` says which DIDs a pattern matches, so a DID that is a prefix of another is an input of the model |
| `take: limit` without an order | `Taken`: any `Limit` of the matching entries |
| delivery and its `Promise.all` over attachments | `DeliveryRequest`, `HandleAttachment`, `AttachmentFails`, `DeliveryDone`: attachments are handled in any order, the first failure gives the acknowledgement up, those under way go on |
| messages-received, one lookup and one delete per id | `MessagesReceived`, `LookUpReceived`, `DeleteReceived`, `ReceivedDone` |
| the network and the processes | `LoseAck`, `EndSession`, `RestartMediator`; an acknowledgement that is received stays in `acks` unless it is lost, so it can be received again |

`Mailbox` is what the two roles promise together: an accepted item is discarded
only after the agent of its owner has handled it.

`MediationManager` has the three stores of `mediation-manager.ts` and one operator
per operation; three modules extend it.

`CoordinateMediation` has the requests, grants and denials of versions 2 and 3.
The stages of a request (`policy`, `default`, `save`, `track`, `reply`) are the
awaits of `handleMediateRequest`: reading the policy (`ReadPolicy`), deciding
(`Decide`), saving the status (`RecordStatus`) and, for version 2, the message
(`TrackAnswer`, whose failing save the handler swallows). `HandleGrant` and
`HandleDeny` are the recipient's side, with the `serviceEndpoint` in both of its
forms, because the denial treats them differently. A grant names the place where messages go
(`routing`, the `routing_did` of its body): this repository's mediators name themselves, others
name whom they like, and `HandleGrant` stores it as it came. `granted` keeps what was sent.

`Filters` is how an array is filtered in these handlers and in the DID manager.

`RecipientUpdates` has recipient-update and recipient-query of version 3 at the
mediator: `todo` are the updates that `Promise.all` has started and that have not
taken effect, or the entries a query has still to read: one by one when the store is a map
(`ReadRecipientDid`), page by page and by offset when it is a database (`Paged`, `ReadPage`),
whose rows move up when one before them is removed. What is reported is
compared with the registry as it was while the message was handled (`log`).

`Routing` has `RoutingMessageHandler.handle`: `CheckV3`, then `CheckV2`, then one
`SaveQueued` per recipient in the header of the packed message, while mediation
changes by `Register`, `Unregister` (version 3) and `Respond` (version 2, whose
responses carry `created_time`; responses of one instant are in any order).

### Messages

`Jwe` has the encrypters and decrypters of `did-comm/src/encryption` as records of
key agreement, key wrapping and content cipher; `Packing` extends it by
`packDIDCommMessage` and `unpackDIDCommMessage` in each packing, with recipients in `bcc`, a
choice of keys, and documents that rotate between packing and unpacking.
A key is told by its public key and what is encrypted by what opens it.

`SendMessage` is `sendDIDCommMessage`: a stack of frames, because the endpoint of a
service may be a mediator's DID, to which the message is sent by a send of its own.
`Wrapped` is the forward wrapping, `Transmit` one transport, which may lose the
message or its response.

`MessageHandling` is a request to `MessagingRouter` from its post to its answer: the
chain of handlers (`HandleUrl`, `HandleDIDComm`, `HandlePing`, `HandleJwt`,
`HandleW3c`, `HandleSdr`), what is swallowed on the way (`Caught`), `Save`, the events
and the answer. Of a JWT presentation the presentation is verified, the credentials in it are
decoded and listed: `verified` and `lists` keep the two apart. Messages come packed, in the alpha forms (`HandleDIDCommAlpha`), as
JWTs, behind URLs, or as noise, and are posted again when there was no answer.

`AgentEvents` is `emit` in `agent.ts`. A promise of a listener is an element of
`promises`, the shared `eventQueue` holds the numbers of those that no emit has
taken. `StartEmit` is the synchronous part of `emit` up to its first await: it calls
the listeners, queues their promises and takes the first. `Continue` is the loop.
`RunCatch` is the callback attached to each promise, which emits the error, or,
for a failing listener of errors, queues a promise that is already rejected
(`Crash`). `EmitInside` is a listener that awaits an emit of its own.

`AgentMethods` is `execute`: which plugin or override a method belongs to, what
authorization and the merged schemas refuse, and the way of a call through
`remote-client`, the agent router with its API key, and back.

### Identifiers and keys

`Identifiers` is `id-manager.ts`, `key-manager.ts`, the JSON stores of identifiers
and keys and the KMS that holds private keys, for a provider that makes an
identifier from one key (did:key). A call goes through the stages

| Method | Stages |
|---|---|
| `didManagerGetOrCreate` | `lookup`, then as create |
| `didManagerCreate` | `check` (if there is an alias), `generate`, `list`, `save` |
| `didManagerImport` | `generate` (the KMS's import), `list`, `save` |
| `keyManagerCreate` | `generate`, `list` |
| `didManagerSetAlias`, `AddKey`, `RemoveKey`, `AddService`, `RemoveService` | `read`, `save` |
| `didManagerDelete` | `read`, then `find`, `erase`, `unlist` for each key, `drop` |
| `keyManagerDelete` | `find`, `erase`, `unlist` |

where `was` is the copy that `getDID` returned and `Save` writes back as a whole.
A look-up that throws is taken for no match (`Swallow`), as in the code. An import brings the
alias and services of the caller, whoever has that alias; `unchecked` is a history of
the aliases that were saved without a look at who has them.
`acknowledged` keeps the calls that succeeded and that no call made since, or
running at the same time, undoes. `Exclusive` is a discipline of the callers, not
something the code does: with it, a call waits while another one is about the same
identifier, key or alias. The code has no such lock. What it keeps under that
discipline, and what breaks without it, are two questions, asked by different runs.

`KeyManager` says what keys are good for: the algorithms that are recorded of a key
(`Algs`, `Recorded`) and what the KMS that holds it does (`Sign`, `Shared`, `Decrypts`).

`PrivateKeys` is the store of private keys with its secret box, in both
implementations: `InPlace` is the JSON store, which works on the objects it keeps.

`DidMethods` has the providers of did:key, did:jwk, did:peer, did:pkh and did:web,
each with its resolver or router; `Mapped` is how an agent finds its keys in the
document. `EthrProvider` has networks and the registry's attributes, with transactions that are
the controller's own, signed by it and sent by another, or signed now and sent
later (`slips`). `IonRotation` has the commitments of a did:ion over a ledger that
anchors late (`queue`) and may not answer, next to the keys that the DID manager lists: a call
reads the list (`Read`), the provider looks for the update key in it (`Matching`, which a key without
`meta.ion`, `Foreign`, makes throw), and `Save` writes it back with the key that the application added or
without the one it removed, while other calls are under way.

### Stores

`JsonStore` is the object of `data-store-json` as a set of rows: a save adds its rows in
segments between awaits, `Persist` hands over whatever is there by then, a restart
reads the last version that was persisted.

`SqlStores` has the rows of `data-store` with their foreign keys, for tables made by the entities
or by the migrations; deletions are several transactions and may stop between them.
`Migrations` has the four migrations statement by statement, for SQLite (whose
pragma is ignored inside a transaction) and PostgreSQL, with a crash anywhere.
`Records` is what is written to columns and read back. `Queries` compares both
implementations of `IDataStoreORM` with a reference definition of a query (`Answer`), for the
three sorts of tables that they treat differently: identifiers, presentations with their
verifiers, and the others. `WithinJson` and `WithinSql` name, case by case, what each implementation does
not answer as asked.

`KvStore` is a Keyv with expiry over the tiered adapter over a map and a remote
store, whose operations land in any order or fail; iteration pages by offset.

### Credentials and discovery

`Credentials` has the three proof formats with the keys that each can use, the
status check, documents that rotate and a clock, and what may be shown instead of what was issued: with
fields altered, and altered next to a JWT whose proof says another type; `LdSuites` the suites of linked data
proofs, their order, and the documents that they alter in place; `Disclosure` the
gathering for a request, in which the conditions of one claim stay for the next and names of types and
contexts are searched for with `LIKE` (`Containing`), and
the validation, which compares them as they are; `Profiles` the profiles of `createProfilePresentation`,
sent by `sendMessageDIDCommAlpha1`, and `discoverDid` with the alias and data-store
providers, one read at a time while the store changes.

## 4. Runs

Runs that pass:

| Run | Shows | Distinct states |
|---|---|---|
| `pickup_safety` | no queued message is lost, and the roles implement `Mailbox`, with an unreadable message, a DID that is a prefix of another, two acknowledgements handled at a time, and a fault of any kind | 1 961 162 |
| `pickup_liveness` | recipients that keep polling empty the queue although deliveries may hold entries of somebody else | 114 842 |
| `mediation` | documents list only what a mediator that their owner asked named in its answer to that request, version 3 answers are on record first, and what is recorded follows a policy that was in force | 2 809 486, up to symmetry |
| `routing` | forwards are queued only when mediated at some instant of their handling, refused only when not mediated all the time, and queued as a prefix of the recipients | 236 275 |
| `agent_events` | no listener's promise or failure is forgotten, the queue is drained, no promise is taken twice | 951 119 |
| `agent_progress` | five components under fairness: every emit, send, request, recipient update and query and repeated deletion ends, and what they leave behind is sound | 55 514 |
| `agent_data` | eighteen components, see below | 824 448, up to symmetry |

What `agent_progress` checks of its components:

| Component | Properties |
|---|---|
| `AgentEvents` | `EveryEmitEnds`, unless listeners that await emits wait for themselves |
| `Identifiers` | `DeletionCompletes`, `IdentifiersAreSound`: stores agree, of two identifiers under an alias one was imported or its look-up failed, acknowledged updates stay |
| `SendMessage` | `ExchangesAreSound`: each mediator on the way can open its envelope, and what is announced was accepted; `MessagesAreDone` |
| `MessageHandling` | `HandlingIsSound`: a stored message lists a presentation only if that was verified, and a credential only if it, or the presentation it came in, was; what was answered was saved; one pong per request; `UnpackedIsKept`; `MessagesAreDone` |
| `RecipientUpdates` | `ExchangesAreSound`: what the mediator reports was so while it handled the message, and what it leaves out was not so, or its row moved up when another was removed (a database only); `MessagesAreDone` |

What `agent_data` checks:

| Component | Properties |
|---|---|
| `Identifiers` | `AcknowledgedUpdatesStay`, with a fault anywhere and keys that identifiers share |
| `KvStore` | `EntriesAreKept`: each tier holds what was acknowledged, iterations are complete |
| `PrivateKeys`, `KeyManager` | `KeysStayUsable`: no import, listing or failure makes another key of one that was acknowledged, and a key does what its recorded algorithms say |
| `JsonStore` | `JsonStoreKeeps`: what was acknowledged survives a restart, claims have credentials, parties are listed |
| `SqlStores`, `Migrations`, `Records` | `SqlStoreKeeps`: rows refer to rows that are there, migrations lose none and move each private key, and what was saved is read back |
| `SqlStores` | `OnlyItsOwnGoes`: an identifier stays managed until it is deleted, whoever mentions it, and its deletion leaves the credentials of other issuers |
| `Queries`, `Profiles` | `QueriesAnswer`: both stores return what the reference definition does, within `WithinJson` and `WithinSql`, and to a DID only entries that it is a party to, but for identifiers of the SQL store; a search finds whoever matched all the while, and nobody who never did |
| `Credentials` | `OnlyValidVerifies`: what verifies was signed by the issuer, but for fields next to a JWT whose proof says another type, and is neither expired nor revoked; `ValidVerifies`: what was issued verifies until then |
| `LdSuites` | `SuitesServe`: the key that was asked for signs, what was signed verifies, and turns of the suites do not matter |
| `Disclosure` | `DisclosureIsFaithful`: what is gathered answers the claim, and satisfies it when no other name contains that of its type or context; valid means that every essential claim has what it asks for |
| `Packing`, `Jwe` | `PackingIsFaithful`, `EveryRecipientCanRead` |
| `IonRotation` | `IonStaysControlled`: the key manager has the update key that the ledger is committed to, and the recovery key, which is found unless the application removed it or added a key without `meta.ion` |
| `EthrProvider` | `EthrIsHonoured` |
| `DidMethods` | `CreatedResolves`: the agent finds its keys in the document, whichever view is asked for |
| `AgentMethods` | `MethodsRunAsAsked` |

`DataTypeOK` and `ProgressTypeOK` say that each component is in the states its module
describes.

Runs that show a disagreement between the code and its documentation (`findings`):

| Run | Shows |
|---|---|
| `mediation_denial` | a denial does not remove the service that the same mediator's grant added: the grant stores an array of objects, the denial looks for a string |
| `identifier_lost_update` | of two overlapping `didManagerAddService` that both succeed one is lost |
| `disclosure` | of a request of two claims the second is not gathered: its query still has the first one's conditions |
| `ion_selection` | after one update the key the ION ledger is committed to is not among the identifier's keys, where the next update looks for it |
| `private_keys_in_memory` | listing the keys of the JSON store leaves them in clear in memory, where its documentation says that they are encrypted |

Every property of a passing run has a mutant: a definition is replaced by one with a
plausible mistake and TLC then reports the property violated.

## 5. Bounds

Two of everything that can interfere: two recipients, sessions, handlers, emits
or calls show every interference of a pair, and no handler reads or writes
anything about a third. Faults are counted together, whatever they are, so that
one or two of them fall on any combination of steps.

- `pickup_safety`: two entries and a limit of two, so that a delivery holds an
  entry of its own and one of somebody else, or a readable and an unreadable one;
  two workers, so that two acknowledgements of the same entry are handled at a time.
- `pickup_liveness`: a limit of one, so that the wrong entry can fill a delivery.
- `mediation`: two recipients and two arrivals at two handlers, so that requests of
  one and of two DIDs overlap; one change of the policy and one fault. The handlers,
  and the recipients, are told apart by nothing but what is recorded of them, so TLC
  takes states that differ in their names for one.
- `routing`: a forward with one recipient and one with two; two changes; a clock
  of two instants, so that responses can have the same time.
- `agent_events`: three emits by the application or listeners and two failures of
  listeners: one emit takes the other's promises while a third is started inside.
- `Identifiers`: two keys, and so two identifiers, that may list each other's key and bring the same alias.
  `MaxListed` bounds what addKey adds, since nothing in the code refuses a key twice.
  `agent_data` and `agent_progress` each check two groups of methods, with creation
  and deletion in both: aliases or services, and keys that come and go.
- `MessageHandling`: one message of each sort and form, posted at most twice, so
  that an answer is lost and the retry finds what the first left.
- `SendMessage`: two mediators, named by routing keys, by endpoints, and one behind
  the other, so that a stack has three sends; services that fall back on one another.
- `RecipientUpdates`: two messages at a time with up to two updates each, of the
  same DIDs, with a DID registered by another requester, and one fault of the store; and
  a database with pages of one row, in which one of two rows goes while a query is between its pages.
- `KvStore`: two keys and pages of one entry, so that an iteration has a page to
  lose; a store with a clock, whose entries expire under way, and one with entries
  that last.
- `PrivateKeys`: two aliases and two secrets, so that an import can meet its own
  and another's.
- `JsonStore`, `SqlStores`: a message with a credential and a presentation that share a
  credential; one identifier that issued to another: the smallest instance where
  deletions meet at a row.
- `Queries`: two conditions, which may be on the same column, over four entries of
  which one has two joined rows, in a table of each sort; pages of up to two.
- `Migrations`: four runs, so that a database is upgraded, reverted, cut off and
  upgraded again; two private keys and two presentations.
- `Credentials`: an issuer with a key for each signer; one tick of the clock, which
  makes what was issued expire. `LdSuites`: every order of all four suites,
  over documents that have the context of the legacy key type alone or next to
  another; section 7 proves what is checked here for every document.
- `Packing`: keys of two curves, each rotated once, a sender, a recipient and one in
  bcc; the algorithms and recipients vary where the message is encrypted.
- `Disclosure`: two claims and credentials of two types, the name of one contained in the other's.
- `IonRotation`: six keys, so that updates follow one another after failures.
  `EthrProvider`: two transactions of the controller, so that a nonce is used up.
- `DidMethods`: two creations of each request, with one failure.
- `Profiles`: one profile, two changes of the store and one failure during one
  search: enough that an alias, a received profile and the own profile come and go
  between two reads.

The proofs of section 7 hold for all values of the bounds of their modules.

## 6. Fairness

- `MessagePickup`: a handler that has started is carried on (weak fairness of
  `Acknowledge` and `Recipient`): the event loop runs every callback that is due.
  Recipients poll again and again (weak fairness of `DeliveryRequest`): this is an
  assumption on the applications, no code of the repository polls by itself. An
  acknowledgement that is sent again and again is received some time (strong
  fairness of `MessagesReceived` for each DID). Faults are bounded, so they stop.
- `AgentEvents`: listeners end, callbacks run, emits that can go on do. That
  listeners end is the assumption on plugins. `EveryEmitEnds` says that an emit
  ends or is part of a circle of listeners that wait for themselves.
- `Identifiers`: calls are carried on (weak fairness of `Step`), and the
  application asks again for a deletion whenever it can (strong fairness of
  `BeginDelete` for each identifier: it has to wait for callers and for the calls
  on the same identifier). `DeletionCompletes` is checked without faults and without
  shared keys, since section 8 says what happens with them.
- `SendMessage`, `MessageHandling`, `RecipientUpdates`: a send, a request or an update that was
  begun is carried on; nobody has to begin one. Fetches end, if only in an error.
  Endpoints are assumed not to lead back to the same mediators (`EndpointsLeadOut`,
  asserted by the run): with documents that do, the code recurs for ever.

The other modules state no liveness: nothing in them waits for anything but the end of
an await.

## 7. Proofs

`tlapm` checks every step of the eight proof modules: no statement is without a
proof. Each theorem is for all values of the constants that its assumptions allow.
The assumptions say what the constants are (sets, functions, lists) and no more:
`KeysAssumption`, `LikesAssumption` (a pattern made from a DID matches that DID),
`EventsAssumption`, `NoneAssumption`, `MediatorAssumption`, `ForwardsAssumption`,
`IdentifiersAssumption`, the `BoundsAssumption` of each module, `UpdatesAssumption` (pages of any size, rows in any order), `HandlingAssumption` (any chain, in any order),
`SendingAssumption` (any documents; endpoints may lead back to one another, which
only liveness excludes). The instances of the runs satisfy them: TLC evaluates them.
The theorems about the components of `agent_data` name theirs as hypotheses, and the run's instance satisfies
each of them:

| Component | Hypothesis | What it says |
|---|---|---|
| `KvStore` | `KvAssumption`; of what is held also `TakingTurns` | pages are not empty; callers take turns on a key |
| `PrivateKeys` | `Boxed` | imports under an alias take turns, and the store is that of `data-store` (`~InPlace`) |
| `IonRotation` | `RotationKeys >= 3` | `createIdentifier` makes three keys |
| `EthrProvider` | `EthrAssumption` | a network's name is no other's, and services and keys are told apart |
| `KeyManager` | `KeyManagerAssumption` | no other KMS has the name of the one for browser wallets |
| `AgentMethods` | `MethodsAssumption` | a method returns a value, returns nothing or throws |
| `SqlStores`, `Migrations` | `SqlAssumption`, `MigrationsAssumption` | issuers and subjects are identifiers; the bound is a number |
| `Records` | `RecordsAssumption` | credentials and identifiers have the parts that the interfaces give them |
| `JsonStore` | `JsonStoreAssumption` | messages carry credentials and presentations, these carry credentials |
| `Credentials` | `CredentialsAssumption`; of what keys serve for also `~SharedKeys` | the issuer's keys have different ids and the algorithms that a KMS lists for their types; the DID store keeps its keys to itself |
| `Disclosure` | `DisclosureAssumption` | issuers that are named were given; a name contains itself |
| `Packing` | `PackingAssumption` | IDs are unique in a document, as DID Core demands; documents and packings have the form that the interfaces give them |
| `Profiles` | `ProfilesAssumption` | profiles have the three parts, and received credentials are about somebody |
| `DidMethods` | `DidMethodsAssumption` | requests have what their provider asks for; the default view is the resolvers' |
| `LdSuites` | `LdAssumption` | an installation lists suites of the package; the methods of a document have different ids, those of recovery an account (for did:ethr maybe in the old form) and an Ed25519VerificationKey2020 none |
| `Queries` | `QueriesAssumption` | the ids of a table increase with insertion; only presentations have verifiers; conditions are on columns with values of their types |

Each component has an inductive invariant, since hardly any property of the runs
is inductive: what is said of an end of a handler depends on what it knew before. Eight modules hold
the proofs of all components; where components share a module, they share nothing but its file,
and each is an instance with variables of its own.

| Module | Theorems | What the inductive invariant adds |
|---|---|---|
| `MessagePickup_proofs` | `TypeCorrect`, `MailboxSafety` (`NoMessageLost`), `MailboxRefinement`; of `Profiles` `ReturnedProfilesAreDone`, `DiscoveryIsFaithful`; of `Queries` `QueriesAreAnswered`, and with `Profiles` `LookupsAreAnswered` | `PickupInv`, `ProfInv` |
| `AgentEvents_proofs` | `TypeCorrect`, `NobodyIsForgotten`, `QueueDrained`, `EachTakenOnce`; of `SqlStores` `SqlTypeCorrect`, `RowsResolve`, `NothingElseGoes`; of `Migrations` `MigrationsKeepKeys`, `MigrationsKeepRows`; of `Records` `RecordsAreReadBack`; of the three `SqlStoreKeepsAll` | `EventsInv`, `SqlInv`, `MigInv`, `RecInv` |
| `CoordinateMediation_proofs` | `TypeCorrect`, `OnlyRequestedServices`, `LawfulAnswers`; of `RecipientUpdates` `UpdatesTypeCorrect`, `TrueReports`; of `KvStore` `KvTypeCorrect`, `StoredIsHeld`, `IterationIsComplete`, `EntriesStay` | `IInv`, `UpdatesInv`, `KvInv`, `IterInv` |
| `Routing_proofs` | `TypeCorrect`, `RoutingFollowsMediation`, `RoutingQueuesInFull`; of `LdSuites` `SuitesAlwaysServe` | `IInv`, `LdInv` |
| `Identifiers_proofs` | `TypeCorrect`, `AcknowledgedStays`, `AliasNamesOne`, `StoresStayTogether`, `IdentifiersStaySound`; of `IonRotation` `RotationTypeCorrect`, `IonIsControlled`; of `PrivateKeys` `ImportsAreKept`, `KeysStaySealed`; of `EthrProvider` `EthrTypeCorrect`, `EthrHonoured`; of `KeyManager` `KeysTypeCorrect`, `ListedKeysServe`, and with the imports `ImportedKeysServe` | `KeepsInv`, `AliasInv`, `StoresInv`, `RotationInv`, `BoxInv`, `EthrInv`, `KeysInv` |
| `MessageHandling_proofs` | `TypeCorrect`, `HandledSoundly`, `UnpackedStays`; of `Credentials` `NothingElseVerifies`, `ValidAlwaysVerifies`; of `Disclosure` `DisclosureFulfils`; of `Packing` `MessagesReadAsPacked`, `RecipientsRead`; of `JsonStore` `JsonStoreKeepsAll` | `IInv`, `CrInv`, `DiInv`, `PackInv`, `JsInv` |
| `SendMessage_proofs` | `TypeCorrect`, `SentSoundly`; of `DidMethods` `MethodsTypeCorrect`, `CreatedAlwaysResolves`; of `AgentMethods` `AgentsTypeCorrect`, `AgentsRunAsAsked` | `IInv`, `MadeInv`, `AmInv` |
| `Filters_proofs` | `WithoutElements`, and the lemma `FlatElements` | |

`MessagePickup_proofs`. That an entry may be
deleted depends on the acknowledgement, which depends on the batch it was made
from. `PickupInv` adds a fact for each link: of a batch that has not failed,
what is done has been handled (`BatchesHandled`); what an acknowledgement names has been handled by
its sender (`AcksHandled`); so has what a handler at the mediator has still to do,
and what it has found belongs to the sender (`TasksHandled`). Entries in `log`
never change, so owners do not (`SameOwners`). `MailboxRefinement` is
`Spec => Mbx!Spec`: only `DeleteReceived` discards, and by
`TasksHandled` its entry has been seen by its owner; queueing accepts, handling an
attachment sees, every other step stutters.
What is looked up in the stores is in the same module.

- `Profiles`: a search reads one store after another while all of them change. `ReadSoFar` says for each reason
  (an alias, a part of a profile, the DID itself) whether it has been looked at: who deserved to be
  found for that reason all the while is among the results from then on. The proof was first tried with
  deserving for some reason all the while, and failed: somebody who at first has a matching alias, and later a
  matching profile name, can be missed, because the stores are read at different times. TLC confirmed it, and the property was
  restated per reason. The theorem says what the loop keeps.
- `Queries`: a query filters, sorts, expands joined rows and takes a page. `Answer` defines it by sets of
  entries; the lemmas say that each stage of either implementation has that set and that order. Sorting is
  an insertion sort as a recursive function, about which is proved that it orders by the column and keeps
  the order of insertion of equals.

`AgentEvents_proofs`. The three safety properties are about the queue and the
emits together: `Shared` says that numbers in the queue are distinct, are not
awaited, and are awaited by one emit; `PromisesInv` relates the state of a promise
to its callback; with `NobodyForgotten` and `QueueIsDrained` they form
`EventsInv`. Lemmas about sequences (`Shift`, `Concatenation`, `Queueing`, `Taking`)
say what appending to a queue and taking its head do to the set of its elements.
The tables of the SQL store are in the same module.

- `SqlStores`: `OnlyBaredLackClaims` says that a credential without claims is one whose deletion is under way or
  was cut off. That rows which others refer to stay needs no more than the order of each deletion's statements.
- `Migrations`: the statements that are left to run are the rest of one of three scripts (`UpAt`, `Down4At`,
  `Down3At`, at a place `i`), and the place says what the tables look like, whether a transaction is open and whether
  foreign keys are enforced. Each statement is proved to lead from its place to the next; what a crash
  returns to is settled (`Settled`), because under SQLite the pragma stands outside of the transactions.
- `Records`: what is read back is the last that was written of each part, since columns keep the others.

`CoordinateMediation_proofs`. A version 3 answer is sent some awaits after the policy was read, and
the policy may have changed since. `Sound` says what a request in progress knows at each stage: the
policy it has read was in force once (`PoliciesAreLogged` keeps what ever was), its decision
follows that policy, and from the reply on its status is on record; the histories only grow.
`OnlyRequestedServices` needs that requests are never forgotten, that an answer on its way was sent
(`GrantsAreLogged`), and that the filter by which a denial removes services adds none: what a handled grant
appends was named by whom its owner asked, in the answer to that request (`AskedAndNamed`).
For `RecipientUpdates` the invariant has
the shape of the log: it ends in what is registered and no message arrived after its end,
so that what an update or a read finds is an entry of the log since the arrival of its message;
`TrueStays` says that a log that grows keeps what was true. Of a query by pages it says more than the property: a DID
that is not among the results has been missed for one of the two reasons (`Missed`), or is still
ahead (`Ahead`), which counts the rows before it: they are at least as many as the offset, so that no page read so
far had it. A row that is removed lowers that number, and is the reason why the DIDs behind it may be missed.

`KvStore`, in which the mediator registers all this, is in the same module, as an instance with variables of
its own. The theorem is about the instants at which nothing of a key is under way; the
invariant says for each operation on its way what its landing may acknowledge (`Fits`): a set has the value
that is already in the local tier, a reply is something the key may hold, a purge that nobody awaits takes away
only what may be gone. `TurnStep` reduces each step of a caller on its keys (`Turn`) to a few facts about
those keys, so that a step needs no more than to be described as a turn.
It turns out that the remote tier never holds anything else than what was acknowledged, also
while operations are under way (`TiersHold`).
That an iteration is complete needs no turns, and another argument. Pages are cut by
counting, so `StillAhead` says of an entry that has still to be visited that its rank, the number of stored
keys before it, is not below the offset; a set that lands only raises ranks (`RanksStayBehind`), and what a page
leaves out has a rank beyond it. Deletions would lower ranks, which is why `due` leaves out the
entries of iterations that overlap one: the mutant that keeps them violates the property.

`Routing_proofs`. `past` is the history of what was granted. The invariant says which of its
instants a handling has seen at each stage (`ChecksAreSound`), that its last is the present
(`HistoryIsCurrent`), and what a handling has queued so far (`TasksAreSound`); handlings are
told apart by number (`RunsAreDistinct`), so no save of one counts for another.
The suites of linked data proofs are in the same module.

- `LdSuites`: the suites alter a document in turn, and the next load starts from what they left. `AfterTurns`
  says what a document looks like when the suites in a set have had a turn, whatever their order and number;
  turns compose (`DocumentsTurn`), so that what was loaded is `AfterTurns` of the document for some of the
  installed suites, all of them unless the suite of 2020 has handed out a method alone (`LoadedBy`). What
  the loader answers then depends on the set only (`Canonical`), which is `TurnsDoNotMatter`. `LdInv` keeps
  of what is signed that an installed suite signed it for a method of the document that it supports, and
  `SignedReads` that this suite reads such a method again. Here the assumption counts that no Ed25519VerificationKey2020
  has an account, and that an account in the old form is that of a did:ethr.

`Identifiers_proofs`. The theorems about `Identifiers` are for callers that take turns
(`Exclusive`): without it `identifier_lost_update` shows the first of them false. `KeepsInv`
is what the read, await and write back of a whole identifier rests on: calls in progress are about different
identifiers, keys and aliases (`CallsAreDisjoint`), so the copy that a call will write back is
what is stored (`CopiesAreCurrent`), and no call in progress undoes what was acknowledged
(`NothingIsUndone`). `AcknowledgedStays` holds for all methods and any faults. `AliasNamesOne`
holds for all methods and any faults, and leaves out what the code does not look at: identifiers that were
given their alias by `setAlias` or an import, or created after a look-up that threw (`unchecked`).
`AliasesAreFree` says that an alias found free stays free over the awaits
until it is saved. `StoresStayTogether` says of each stage of a
deletion which of the two stores has the key (`KeysFollow`, `KeysAreThere`), and holds without faults and for
methods by which no two identifiers share a key (neither `addKey` nor `keyManagerDelete`): section 8 says what
happens with them. `IdentifiersStaySound` joins the three, under these conditions,
which the instances in `agent_progress` satisfy.

The keys themselves are in the same module, as instances with variables of their own. Of a did:ion,
`RotationInv` says that a next key is its call's alone until it is submitted (`NextKeysAreApart`), and that
the next key of a request, and the key that the ledger is committed to, are kept until the DID manager deletes
the DID, or are those of a request whose answer was lost (`RequestsAreCovered`, `LedgerIsCovered`). So no
error path of one call takes back the key of another, though calls resolve the same commitment at a time.
That the recovery key is found rests on every list there is, in the DID store or in the hands of a call
that will write it back: each has the recovery key, and no key that the provider throws on,
unless the application did that once (`ListsAreSound`).
Of the private keys, the theorems are for the store that keeps its rows to itself (`~InPlace`) and for imports
that wait for each other: run `private_keys_in_memory` and section 8 show what happens without.
`ImportsAreApart` carries over each await that what an import has read, and compared its key
with, is still what is stored.
Of a did:ethr, `FoundAgain` says that the network that is found by the DID is the one it was made on or none,
which rests on what `createIdentifier` writes into the DID for each way of naming a network;
`SignedWhenControlled` that nothing is on its way, signed or not, for a DID whose network is not found;
`Attributed` that the registry has what was added and not removed, under the name of the encoding it was added
with. The last is kept by transactions in any order because names of keys and services never coincide.
`KeysInv` says that a listed key is an account of a wallet, or is in the KMS that the key store names with the
type and the algorithms of its type: whatever an importer claims, and also when a kid is imported
into another KMS.

`MessageHandling_proofs`. Handlers are chained in any order and each may rewrite
the message, so the invariant says what every form of a message on its way may list: only
what came in something that was verified (`SoundMessage`). One lemma, `HandlersKeepSound`, is about the handlers;
the others are about the chain. `PongIsOpen` counts pongs against requests, `SavedIsStored`
links the stage after saving to the data store. The theorems
are of the specification that `agent_progress` extends.

The JSON store and what an agent makes of credentials and messages are in the same module.

- `JsonStore`: a save puts its rows into the object in segments, between which others run and persist what
  is there. `Whole` says that each segment adds a credential with its claims or neither, so that no version
  ever persisted separates them, and `SaveOK` that what a running save has not added it will add: who is
  named in what it has added is on its list.
- `Credentials`: `KeysAreTheIssuers` says that the issuer's keys stay those it was made with, but for the types that
  the in-memory store shares, and `WhatWasIssued` what a proof was made with; `ValidAlwaysVerifies` is the
  converse of `NothingElseVerifies`, format by format.
- `Disclosure`: the conditions of a claim are put together from a list with optional parts. `Stated` is each
  part, with at most one condition, and the lemmas say that what either store returns for them are the credentials that
  answer the claim, longer names included (`AnsweredBy`); with the conditions that earlier claims have left behind, some of them.
- `Packing`: `EncryptersTabled` and `DecryptersTabled` say of every algorithm and cipher that can be asked for
  what encrypter the tables have, `SealedOpens` that the decrypter that is found for its header opens it. `IsSealed` is what
  a sealed message keeps of its recipients; that they can read it as long as their key is in the document
  follows because the ID in the header names one key of the document (`PackingAssumption`).

Several of these go through lists that are flattened or folded. `FlatElements` says what elements the
flattening of a list of lists has, for every list: by induction on prefixes (`Filters_proofs`).

`SendMessage_proofs`. The envelopes that a service gets were put on by several sends of
a stack. `Leads` says at each stage for whom the outermost envelope is; `WrappedIsSound`
and `ForEndpointIsSound` that wrapping keeps envelopes chained whatever the number of
mediators; a send may be marked as accepted only when a service has accepted (`StackIsSound`),
also of the sends below, that wait for the one on top. `SentSoundly` is one part of the run's
`ExchangesAreSound`; `TrueReports`, of `RecipientUpdates`, is the other.

The methods of DIDs and of agents are in the same module.

- `DidMethods`: `IsMade` says of an identifier in the list what its provider made it from, and `Making` of a creation
  that is half done which keys it has. The rest is about documents: in each format and under
  each media type, every entry is one that the agent maps back to a key of the identifier
  (`Recognised`), and a key that signs, or that encrypts, has an entry for it (`HasUses`).
- `AgentMethods`: `CallIsFollowed` says at each stage of a call what was let through on the way
  there, and that the answer that travels back is that of the one run there was: an answer
  200 with a value is what the schema of the remote agent lets out, and the caller's agent
  validates it once more.

`Filters_proofs`. The prover has no induction over sequences, and the standard `SelectSeq` means
nothing to it. `Without` is a recursive function, and `Least` (a set of numbers has a least
element, from the well-foundedness of strict inclusion of finite sets) stands for
induction: no least number is a counterexample.

### Only model-checked

- Liveness: `EveryEntryDequeued`, `EveryEmitEnds`, `DeletionCompletes`, `MessagesAreDone`. They need
  fairness and `ENABLED`, which the prover does not have.
- `DataTypeOK` and `ProgressTypeOK` as one formula: they are conjunctions over components, each of which
  has a theorem of its own but `LdSuites` (no prover here knows that a text is in `STRING`).
  `IdentifiersAreSound` and `ExchangesAreSound` are proved as `IdentifiersStaySound`, and `SentSoundly` with `TrueReports`, of the modules that `MCProgress` instantiates.
- That a property is violated (`findings`) is shown by TLC's behaviour, not by proof.

## 8. Reached by the models, reported by no run

The models also reach what follows; the property that comes nearest leaves it
out where the property's comment says so. Some of it contradicts a comment or a
document, the rest is what a maintainer should know.

Agent and messages
- An awaited `emit` returns while promises queued before it are pending, when
  another emit has taken them (`agent.ts:223`; the comment at `:203` says otherwise);
  it throws when a listener of errors throws (`:227`); a listener that awaits an emit can wait for itself.
- Schemas are merged apart from methods, so a method may be validated with another
  plugin's schema. `remote-client` turns a refusal of the validator (status 400, without `error`) into
  `Error(undefined)`, and the empty answer of a method that returns nothing into an
  error of the JSON parser, though the method ran.
- After a service with routing keys, the next service is sent the message wrapped
  for the first one's mediators (`didcomm.ts:819`). A message that
  reached its service is not announced when the response is lost, and a send that was
  announced throws when the message that came back cannot be handled (`IDIDComm.ts:132`
  promises the event after the message was sent).
- The anonymous A256GCM encrypters call themselves `XC20P` (`xc20pkw-encrypters.ts:124`,
  `a256kw-encrypters.ts:116`) and the A256CBC-HS512 decrypter `A256GCM`
  (`a256cbc-hs512-dir.ts:153`): harmless, because the content cipher writes the header.
- `sendMessageDIDCommAlpha1` swallows every failure of the encryption and posts the
  message in clear (`didcomm.ts:951`).

Mediation
- `mediationManagerIsMediationGranted` is true for a DID that was added by a
  requester without a grant, and a requester may remove what another registered
  (`coordinate-mediation-v3-message-handler.ts:402`). An add and a remove of one DID
  in one message take effect in either order (`:416`).
- Version 2 attaches the grant to the message before it saves it, and swallows the
  error of the save (`coordinate-mediation-message-handler.ts:151`): routing later finds no response.
- The `routing_did` of a grant is stored as it came, and compared with nothing: a mediator that was asked
  may name another one that was not (`coordinate-mediation-v3-message-handler.ts:537`,
  `coordinate-mediation-message-handler.ts:211`). `ServicesWereRequested` compares it with the answer, not with its sender.
- A recipient query leaves out DIDs that were registered all the while, when the registry is a database and rows before
  theirs go between two pages (`kv-store/src/store-adapters/typeorm/index.ts:66`).
- Of a JWT presentation only the presentation is verified. The credentials in it are decoded, listed and stored
  with the message (`credential-w3c/src/message-handler.ts:64`), whoever signed them; `HandlingIsSound` tells the two apart.

Identifiers and keys
- A deletion that failed after a key was deleted throws `Key not found` at every
  retry (`key-manager.ts:108`), also when another identifier shared an imported key.
- Overlapping `didManagerGetOrCreate` create two identifiers for one alias
  (`id-manager.ts:137`), and `didManagerSetAlias` does not look whether the alias
  is taken (`id-manager.ts:184`), nor does `didManagerImport`, which saves whatever alias the caller
  gives (`:198`); the JSON store refuses none (`did-store.ts:84`). A look-up that throws counts as no match,
  so that a creation goes on under an alias that is taken (`id-manager.ts:110`, `:138`).
- A key deleted by `keyManagerDelete` is listed again, without its private key, by
  the next change of an identifier that has it (`did-store.ts:88`); a KMS holds a key nobody lists when the key store's save
  fails (`key-manager.ts:94`); importing a kid into another KMS leaves the private key in the first.
- With the in-memory DID store, packing for an identifier of the agent converts its
  keys in the store, which then sign no more.
- did:ethr: the documented form `did:ethr:0x2a:` (`ethr-did-provider.ts:97`) is not
  what is written for a hexadecimal chain ID, and what is written finds no network.
  The methods delete `metaIdentifierKeyId` from the caller's own options, so a
  second call with the same options is the controller's own transaction. Two
  services of one type and endpoint are one attribute.
- did:ion: when an answer is lost, `deleteKeyOnError` deletes a key that the ledger is committed to.
  A key that an application adds without `meta.ion` makes `veramoKeysOfType` throw (`functions.ts:223`), so that the
  identifier is neither updated nor deactivated any more until that key is removed; and the recovery key may be
  removed like any other (`id-manager.ts:240`).
- did:pkh ignores `options.chainId`, which its documentation promises; did:jwk with a use
  that its type cannot have, and did:peer when its second key fails, throw after a
  key was made; the resolver of did:key accepts formats of the other curve for
  P-256 and secp256k1 keys; did:peer abbreviates names wherever they first occur
  in a service; `createJWK` drops leading zeros of coordinates.
- `createDefaultDid` adds its two services at every start, so that an identifier of the
  JSON store lists them again and again.

Stores
- Paging from `skip` 2 on (`data-store-json.ts:621`), comparisons of dates (which in the JSON store compare a
  `Date` with a text and never hold, `:512`, `:553`), negated
  conditions on absent values, several orders, and pages over joined rows differ
  from the reference definition or between the stores; `QueriesAnswer` leaves these
  cases out one by one (`WithinJson`, `WithinSql`).
- `dataStoreORMGetIdentifiers` of the SQL store never uses the authorized DID (`data-store-orm.ts:85-104`), so that it
  answers with everybody's identifiers; its orders name a column of another table and are refused. Conditions on
  verifiers ignore `not`, and of several only the first counts (`:341-354`).
- `createMessageEntity` writes `expiresAt` into `createdAt` and stores no `expiresAt`
  (`entities/message.ts:157`); `createMessage` returns `replyUrl` only with `replyTo`.
  Columns of unset properties stay when a row is saved again. An endpoint that is a
  quoted JSON text changes on the way (`did-store.ts:64`, `:152`), and `listDIDs` returns endpoints as text.
- In databases made by the migrations the foreign keys of messages do not cascade
  (`1.createDatabase.ts:213`), so an identifier with messages cannot be deleted,
  after its credentials were. A reverted migration 4 that is cut off on SQLite leaves
  the date required with the migration recorded; reverted migration 3 loses private keys without a
  key row; reverted migration 4 makes missing dates 1970.
- `getConnectedDb` (`utils.ts:13`): concurrent first calls both initialise the connection.

Credentials
- `Ed25519Signature2020`, installed before or without the suite of 2018, signs for
  entries of 2018 what it cannot verify. `findSigningKeyWithId` accepts an entry whose type is supported
  for another type of key, and issuing then throws.
- Fields next to a JWT are compared with those that were signed only when the proof says `JwtProof2020`
  (`credential-w3c/src/action-handler.ts:308`), but any proof with a `jwt` is verified as a JWT (`:570`): under
  another type the credential verifies whatever stands next to the JWT, against the comment at `:307`.
  `OnlyValidVerifies` says so of each.
- Selective disclosure searches for the names of types and contexts with `LIKE '%name%'`
  (`selective-disclosure/src/action-handler.ts:164`) and validates them as they are (`:243`), so that a credential of type
  `BusPass` is gathered for `Pass` and then refused; whose credential it is is asked when gathering, not when validating.
- `createProfilePresentation` names the holder as the verifier
  (`selective-disclosure/src/action-handler.ts:331`), and when its send fails the presentation stays
  saved, so that a retry makes another.
- `discoverDid` always sets `errors`, and the alias provider swallows its own, so a
  failed lookup looks like no match.

## 9. Not modelled

- Cryptography and encodings: signatures, ciphers, JSON-LD canonicalisation and
  multibase are abstracted to which key makes and opens what. That a decrypter
  computes the inverse of its encrypter is not a question for a model checker.
- `plugin.schema.ts` of every package and most of `core-types` (some 12 000 lines):
  generated schemas and interfaces have no behaviour of their own; what validating
  against them does is in `AgentMethods`.
- `cli`: commands that ask on a terminal and call one agent method each. `test-utils`,
  `test-react-app`: fakes and examples.
- `didManagerUpdate` of the full document, which only did:ion could support and does not by
  this way; gas, lifetimes of did:ethr attributes; wallets behind kms-web3.
- `createDefaultDid`, the routers that publish schemas and set the agent of a
  request, the HTTP client of the universal resolver: single calls without state of
  their own.
- TypeORM, Keyv's backends, the ledgers and the browser storage are external and
  modelled from how the code uses them (`"external"` in the map).
- Message pickup's status replies and the return-route checks of its handlers: a reply that cannot be sent
  back is a reply that is lost.
- Components are not composed beyond what extends or instantiates what: the pieces
  that share state (`MediationManager` in three modules, `Mailbox` under `MessagePickup`, `Jwe` in
  `Packing`) are; a product of all of them is beyond TLC.

## 10. Plan

| | Work |
|---|---|
| next | models: the status replies of message pickup, and `didManagerUpdate` of a full document once a provider supports it |
| next | an abstract registry of identifiers that `Identifiers` implements for exclusive callers; one map with expiry that `KvStore` implements for callers that take turns |
| later | `createDefaultDid` and restarts of a server over either DID store; the universal resolver |
