----------------------------- MODULE DataRecords -----------------------------
(***************************************************************************)
(* What an agent stores and exchanges: the SQL and JSON stores with their  *)
(* rows and migrations (SqlStores, Migrations, Records, JsonStore),        *)
(* credentials, their disclosure and the packing of messages (Credentials, *)
(* Disclosure, Packing).  What is said of them here is checked in MCData   *)
(* and proved in AgentEvents_proofs (the SQL stores) and                   *)
(* MessageHandling_proofs.                                                 *)
(***************************************************************************)
CONSTANTS
  DIDs, StoreCallers,
  Keys, Creds, Issuer, Subject,
  Messages, Credentials, Presentations, RecordParties, Attached, MaxCalls, MaxStoreFaults, MaxRestarts,
  TableKeys, TablePresentations, MaxRuns,
  PartValues, RowCredentials, ImportedIdentifiers, GivenAliases,
  IssuerKeys, Installed, ManagedDIDs, Audiences, SharedKeys, MaxDay,
  HeldCredentials, AskedClaims, AskedSubjects, Containing, MaxClaims, MaxHeld,
  PackedDIDs, PackingDID, Docs, Agents, Manages, Owns, PackAsks
VARIABLES
  sqlRows, managed, keyOf, creds, claims, messages, deletions, partial, layout,
  tree, persisted, saves, made, storeFaults, restarts, present, absent, halfDone, deleted,
  driver, db, committed, transaction, enforced, todo, runs, cut, migrated,
  messageRow, sent, credentialRows, holderOf, identifierRow, latest,
  ring, doc, day, revoked, vc, verdict, vp, aimed,
  request, about, held, where, gathered, checked,
  documents, packed, asked, unpacked

Sql == INSTANCE SqlStores WITH Callers <- StoreCallers, rows <- sqlRows, calls <- deletions
Js == INSTANCE JsonStore WITH
    Parties <- RecordParties, Callers <- StoreCallers, MaxFaults <- MaxStoreFaults,
    calls <- saves, faults <- storeFaults, partial <- halfDone
Mig == INSTANCE Migrations WITH Keys <- TableKeys, Presentations <- TablePresentations, owned <- migrated
Rec == INSTANCE Records WITH
    Values <- PartValues, Credentials <- RowCredentials, Identifiers <- ImportedIdentifiers, Aliases <- GivenAliases
Cr == INSTANCE Credentials WITH MaxTime <- MaxDay, Managed <- ManagedDIDs, keys <- ring, now <- day
Di == INSTANCE Disclosure WITH
    Credentials <- HeldCredentials, Claims <- AskedClaims, Subjects <- AskedSubjects
Pack == INSTANCE Packing WITH
    DIDs <- PackedDIDs, Sender <- PackingDID, Asks <- PackAsks, doc <- documents

(* What the JSON store acknowledged survives a restart, whatever other calls
   have half done by then, every claim has its credential, and everyone whom a
   record names is listed as an identifier. *)
JsonStoreKeeps == Js!JsonStoreKeeps

(* No credential of the SQL store is without its claims, and rows refer to
   identifiers that are there, whichever step of a deletion failed; a change of
   the database's layout takes no rows along, keeps each private key where its
   version says, and ends in the layout that is expected; and what was saved is
   read back, a credential as one row whatever form it came in. *)
SqlStoreKeeps ==
    /\ Sql!CredentialsHaveClaims /\ Sql!ReferencesResolve
    /\ Mig!JoinedRowsStay /\ Mig!PrivateKeysMove /\ Mig!UpToDateTakesAll
    /\ Rec!MessagesAreReadBack /\ Rec!OneRowPerCredential /\ Rec!IdentifiersAreReadBack

(* An identifier of the agent stays managed until it is deleted, whoever
   mentions it in a message or credential meanwhile, and deleting it leaves
   the credentials of other issuers. *)
OnlyItsOwnGoes == Sql!OnlyItsOwnGoes

(* What verifies is what was signed, by a key of the issuer's document, but for
   fields beside a JWT whose proof says another type; it has
   not expired and, where statuses are checked, was not revoked. *)
OnlyValidVerifies == Cr!OnlyValidVerifies

(* A format that is listed as usable can be issued, and encrypting to the issuer
   leaves its keys able to sign; what was issued, and has not expired nor been
   revoked, verifies, and so does a presentation that names one of the agent's
   identifiers. *)
ValidVerifies ==
    Cr!ListedIsUsable /\ Cr!EncryptingKeepsSigning /\ Cr!IssuedIsAccepted /\ Cr!AcceptedIfMeantForUs

(* What is gathered for a claim of a request answers the claim, and satisfies it when
   no other name contains the one of its type or context; a request of one claim is
   fulfilled when a credential held fulfils it, and a presentation is valid only if
   it has what every essential claim asks for. *)
DisclosureIsFaithful == Di!GatheredFits /\ Di!OneClaimIsFulfilled /\ Di!ValidIsComplete

(* A message is read as what it was packed as, and leaves no recipient out. *)
PackingIsFaithful == Pack!PackingIsKept /\ Pack!NobodyIsLeftOut

(* Every recipient whose key is still in its document can read the message. *)
EveryRecipientCanRead == Pack!EveryRecipientCanRead

=============================================================================
