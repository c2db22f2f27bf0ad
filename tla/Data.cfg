\* Two callers of each store, and a failure or a restart between any two awaits.
CONSTANTS
  Callers = {t1, t2}
  Aliases = {a1}
  Services = {s1}
  None = None
  Operations <- WithSharedKeys
  Exclusive = TRUE
  MaxKeys = 2
  MaxListed = 2
  MaxFaults = 1
  \* KvStore: two keys and pages of one entry.
  EntryKeys = {1, 2}
  KvCallers = {t1, t2}
  Nobody = "nobody"
  LocalOnly = FALSE
  KvTurns = TRUE
  Ttls = {1}
  PageSize = 1
  MaxSets = 2
  MaxTime = 2
  MaxKvFaults = 1
  \* PrivateKeys: the store of data-store, which keeps its rows to itself.
  BoxAliases = {"a1", "a2"}
  Secrets = {"k1", "k2"}
  NoSecret = ""
  InPlace = FALSE
  MaxWrites = 3
  \* IonRotation, EthrProvider and KeyManager: two KMSs and a wallet.
  RotationKeys = 6
  Networks <- FourNetworks
  Specifiers <- SixSpecifiers
  KeysToAdd = {"enc"}
  KeyType <- TypeOfAdded
  ServicesToAdd <- TwoHubs
  Encodings = {"hex"}
  Senders = {"e1"}
  MaxNonce = 2
  MaxSlips = 1
  Systems = {"local", "other"}
  Accounts = {"account"}
  KeyAliases = {"k1", "k2"}
  Privates = {"p", "q"}
  KeyClaims <- ClaimedAlgorithms
  \* SqlStores and JsonStore.
  DIDs = {"alice", "bob"}
  StoreCallers = {t1, t2}
  Keys = {"k"}
  Creds = {"v"}
  Issuer <- IssuedBy
  Subject <- IssuedTo
  Messages = {"m"}
  Credentials = {"v", "w"}
  Presentations = {"p"}
  RecordParties <- PartiesOf
  Attached <- AttachedTo
  MaxCalls = 3
  MaxStoreFaults = 1
  MaxRestarts = 1
  \* Migrations: a database of Veramo 2 or none yet, and a key and a presentation made later.
  TableKeys = {"k1", "k2"}
  TablePresentations = {"p1", "p2"}
  MaxRuns = 4
  \* Records.
  PartValues = {"a", "b"}
  RowCredentials <- EitherProof
  ImportedIdentifiers <- WithEndpoints
  GivenAliases = {"one", "two"}
  \* Credentials and Disclosure.
  IssuerKeys <- OneIssuersKeys
  Installed = {"LD", "EIP712", "status"}
  ManagedDIDs <- TwoManaged
  Audiences = {{}, {"me"}, {"also me", "shop"}, {"other"}}
  SharedKeys = FALSE
  MaxDay = 1
  HeldCredentials <- NamesAndAges
  AskedClaims <- ClaimsOfThem
  AskedSubjects = {"me"}
  Containing <- FoundIn
  MaxClaims = 2
  MaxHeld = 2
  \* Packing.
  PackedDIDs = {"alice", "bob", "carol"}
  PackingDID = "alice"
  Docs <- RotatedDocs
  Agents = {"x", "y"}
  Manages <- ManagedByAgent
  Owns <- KeysOfAgent
  PackAsks <- AskedOfPacking
  \* Profiles.
  Managed = {"did:me"}
  Unmanaged = {"did:carol", "did:shop"}
  ProfileAliases = {"bob", "bobby", "carl"}
  Unnamed = "unnamed"
  Wishes <- FourWishes
  Received <- FromOthers
  Lookups = {"bob", "carol", "did:me"}
  Endpoints = {"did:shop"}
  Like <- PartOf
  MaxProfiles = 1
  MaxProfileChanges = 2
  MaxMishaps = 1
  \* DidMethods, LdSuites and Queries.
  Requests <- RequestsOfEach
  Views <- EveryView
  DefaultView <- ViewByDefault
  MaxMade = 2
  MaxCreations = 2
  MaxDidFaults = 1
  SuiteKeys <- TypeOfSuiteKeys
  Installations <- SuitesInOrders
  Documents <- IssuerDocuments
  Payloads <- OnePayload
  QueryTables <- FourEntries
  QueryConditions <- SomeConditions
  MaxWhere = 2
  MaxPage = 2
  \* AgentMethods.
  LocalAgent <- CallingAgent
  RemoteAgent <- ServingAgent
  Exposed = {"n", "r"}
  ApiKey = "key"
  MethodCalls <- CallsOfMethods
SPECIFICATION DataSpec
SYMMETRY CallerSymmetry
INVARIANTS DataTypeOK AcknowledgedUpdatesStay EntriesAreKept JsonStoreKeeps SqlStoreKeeps
   OnlyValidVerifies ValidVerifies KeysStayUsable SuitesServe DisclosureIsFaithful PackingIsFaithful
  IonStaysControlled EthrIsHonoured CreatedResolves MethodsRunAsAsked
PROPERTIES OnlyItsOwnGoes EveryRecipientCanRead
CHECK_DEADLOCK FALSE
