------------------------------- MODULE DataKeys -------------------------------
(***************************************************************************)
(* The identifiers of an agent and what their keys are kept in and used    *)
(* for: the store of private keys (PrivateKeys), the providers that rotate *)
(* keys or register them (IonRotation, EthrProvider), and what the key     *)
(* manager does with a key (KeyManager).  What is said of them here is     *)
(* checked in MCData and proved in Identifiers_proofs.                     *)
(***************************************************************************)
EXTENDS Identifiers

CONSTANTS
  RotationKeys,   \* bound: keys that calls of the ION provider generate
  BoxAliases, Secrets, NoSecret, InPlace, MaxWrites,
  Networks, Specifiers, KeysToAdd, KeyType, ServicesToAdd, Encodings, Senders, MaxNonce, MaxSlips,
  Systems, Accounts, KeyAliases, Privates, KeyClaims
VARIABLES
  owned, saved, listed, updater, active, requests, rotations, fresh, lost, apart,
  entries, imports, writes, boxFaults, imported,
  did, attrs, nonce, sendings, slips, addedAs, added, removed,
  known, inKms

Ion == INSTANCE IonRotation WITH MaxKeys <- RotationKeys, queue <- requests, calls <- rotations
Box == INSTANCE PrivateKeys WITH Aliases <- BoxAliases, calls <- imports, faults <- boxFaults
Ethr == INSTANCE EthrProvider WITH
    Keys <- KeysToAdd, Services <- ServicesToAdd, Callers <- Senders, calls <- sendings
Km == INSTANCE KeyManager WITH
    Stores <- Systems, Kids <- KeyAliases, Claims <- KeyClaims, listed <- known, held <- inKms

(* The update key that the ION ledger is committed to stays in the key manager,
   and an ION identifier of the agent can be deactivated. *)
IonStaysControlled == Ion!IonStaysControlled

(* What is done to a did:ethr is done on the network it was created on, and a
   key or service is in the registry from when it was added until it was removed
   as it was added. *)
EthrIsHonoured == Ethr!EthrIsHonoured

(* A private key whose import was acknowledged can be read back until it is
   deleted: no refused or failed import and no listing makes another of it.  And
   a key does what the algorithms that are listed for it say, its owner opens
   what was encrypted to it, and two keys agree on one secret. *)
KeysStayUsable == Box!ImportedKeysAreKept /\ Km!ListedKeysServe

=============================================================================
