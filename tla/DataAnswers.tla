----------------------------- MODULE DataAnswers -----------------------------
(***************************************************************************)
(* What an agent answers when it is asked: the calls of its methods        *)
(* (AgentMethods), the entries of its key-value store (KvStore), the       *)
(* profiles and DIDs that are looked for (Profiles), the documents of the  *)
(* DIDs that it made (DidMethods), the suites that sign and verify JSON-LD *)
(* (LdSuites), and queries (Queries).  What is said of them here is        *)
(* checked in MCData; it is proved in SendMessage_proofs (the calls and    *)
(* documents), CoordinateMediation_proofs (the entries), Routing_proofs    *)
(* (the suites) and MessagePickup_proofs (profiles and queries).           *)
(***************************************************************************)
CONSTANTS
  LocalAgent, RemoteAgent, Exposed, ApiKey, MethodCalls,
  EntryKeys, KvCallers, Nobody, LocalOnly, KvTurns, Ttls, PageSize,
  MaxSets, MaxTime, MaxKvFaults,
  Managed, Unmanaged, ProfileAliases, Unnamed, Wishes, Received, Lookups, Endpoints, Like,
  MaxProfiles, MaxProfileChanges, MaxMishaps,
  Requests, Views, DefaultView, MaxMade, MaxCreations, MaxDidFaults,
  SuiteKeys, Installations, Documents, Payloads,
  QueryTables, QueryConditions, MaxWhere, MaxPage
VARIABLES
  methodCall, methodStage, ran, methodOutcome,
  near, remote, flight, uses, kvNow, sets, failures, may,
  aliasOf, savedCreds, profile, posted, search, profiles, profileChanges, mishaps,
  madeKeys, created, making, going, begun, count, didFaults,
  suites, resolved, proof, verifies,
  query

Am == INSTANCE AgentMethods WITH Local <- LocalAgent, Remote <- RemoteAgent, Calls <- MethodCalls,
        call <- methodCall, stage <- methodStage, outcome <- methodOutcome
Kv == INSTANCE KvStore WITH
        Keys <- EntryKeys, Callers <- KvCallers, Exclusive <- KvTurns,
        MaxFaults <- MaxKvFaults, local <- near, calls <- uses, now <- kvNow, faults <- failures
Prof == INSTANCE Profiles WITH
        Aliases <- ProfileAliases, Queries <- Lookups, MaxChanges <- MaxProfileChanges, changes <- profileChanges
Dm == INSTANCE DidMethods WITH
        Default <- DefaultView, MaxKeys <- MaxMade, MaxFaults <- MaxDidFaults,
        held <- madeKeys, listed <- created, faults <- didFaults
Ld == INSTANCE LdSuites WITH KeyType <- SuiteKeys
Qu == INSTANCE Queries WITH
        Tables <- QueryTables, Conditions <- QueryConditions, call <- query

(* A method runs, here or at the remote agent, only as it was authorized,
   exposed and asked for with arguments that fit, and a caller who is given a
   value is given what one run of it returned. *)
MethodsRunAsAsked == Am!MethodsRunAsAsked

(* When callers take turns on a key, each tier of the key-value store holds what
   an acknowledged call left there, and the local tier never keeps what the
   remote one has lost; an iteration visits every entry that was there when it
   began and that nobody deleted. *)
EntriesAreKept == Kv!HoldsWhatWasStored /\ Kv!IterationIsComplete

(* A query of either store returns what the interface asks for, within what
   the store keeps to, and whoever asks as a DID is answered with entries that
   the DID is a party to, unless for the identifiers of the SQL store; a search
   for DIDs finds those that have the query in them, their alias or profile,
   and a profile that is returned is whole, and was received if it was to be sent. *)
QueriesAnswer ==
    /\ Qu!JsonAnswers /\ Qu!SqlAnswers /\ Qu!OwnEntriesOnly
    /\ Prof!DiscoveryIsFaithful /\ Prof!ReturnedIsDone

(* An identifier that was created resolves, whichever way its document is
   written, to one in which the agent finds the identifier's keys. *)
CreatedResolves == Dm!CreatedResolves

(* With JSON-LD the key that was asked for signs, and what was signed verifies,
   whatever order the suites were installed in and take their turns at the
   issuer's document. *)
SuitesServe == Ld!AskedKeySigns /\ Ld!SignedVerifies /\ Ld!TurnsDoNotMatter

=============================================================================
