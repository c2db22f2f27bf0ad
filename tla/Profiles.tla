------------------------------ MODULE Profiles ------------------------------
(***************************************************************************)
(* Profiles: a holder presents its name, picture and URL, saves and sends  *)
(* the presentation (createProfilePresentation, sendMessageDIDCommAlpha1), *)
(* and DIDs are discovered by what the data store then knows of them       *)
(* (discoverDid and its two providers).  Every await is a step, and the    *)
(* data store changes between them.                                        *)
(***************************************************************************)
EXTENDS Naturals, Sequences, FiniteSets, Filters

CONSTANTS
    Managed, Unmanaged,     \* DIDs of this agent, and of others
    Aliases, Unnamed,       \* aliases, and an identifier without one
    Wishes,                  \* arguments of createProfilePresentation
    Received,               \* credentials of others: [subject, type, claims]
    Queries, Like,          \* Like: the pairs of a query and a text it is part of
    Endpoints,              \* DIDs that have a service of type Messaging
    MaxProfiles, MaxChanges, MaxMishaps

Parts == <<"name", "picture", "url">>
PartNames == {Parts[i] : i \in DOMAIN Parts}

ProfilesAssumption ==
    /\ Managed \cap Unmanaged = {} /\ Unnamed \notin Aliases
    /\ \A o \in Wishes : DOMAIN o.claims \subseteq PartNames
    /\ \A c \in Received : c.subject \in Managed \union Unmanaged
    /\ MaxProfiles \in Nat /\ MaxChanges \in Nat /\ MaxMishaps \in Nat
    /\ Like \subseteq Queries \X (Managed \union Unmanaged \union Aliases \union STRING)

VARIABLES
    aliasOf,        \* the identifiers of the data store, with their aliases
    savedCreds,     \* the credentials that are saved, on their own or presented
    profile,        \* the profile under way, or the last one
    posted,         \* what verifiers have received
    search,         \* the discovery under way, or the last one
    profiles, changes, mishaps

vars == <<aliasOf, savedCreds, profile, posted, search, profiles, changes, mishaps>>

NoProfile == [stage |-> "none"]
NoSearch == [at |-> 0]

TypeOK ==
    /\ DOMAIN aliasOf \subseteq Managed \union Unmanaged
    /\ \A c \in savedCreds : c.subject \in DOMAIN aliasOf
    /\ profile.stage \in {"none", "issue", "present", "send", "post", "handle", "returned", "thrown"}
    /\ search.at \in 0..6
    /\ profiles \in 0..MaxProfiles /\ changes \in 0..MaxChanges /\ mishaps \in 0..MaxMishaps

Init ==
    /\ aliasOf = [d \in Managed |-> Unnamed]
    /\ savedCreds = {} /\ profile = NoProfile /\ posted = {} /\ search = NoSearch
    /\ profiles = 0 /\ changes = 0 /\ mishaps = 0

Mishap == mishaps < MaxMishaps /\ mishaps' = mishaps + 1

-----------------------------------------------------------------------------
(* What a profile gives of its subject *)
NameOfProfile(c) == c.type = "Profile" /\ "name" \in DOMAIN c.claims

(* Why a search should find a DID: its alias is the query, or the query is part
   of the DID, of its alias or of the name in a profile of it. *)
Reasons == {"is alias", "in DID", "in alias", "in name"}
Deserves(why, d, q, aliases, creds) ==
    CASE why = "is alias" -> aliases[d] = q
      [] why = "in DID" -> <<q, d>> \in Like
      [] why = "in alias" -> <<q, aliases[d]>> \in Like
      [] why = "in name" -> \E c \in creds : c.subject = d /\ NameOfProfile(c) /\ <<q, c.claims.name>> \in Like
Deserved(q, aliases, creds) ==
    {r \in Reasons \X DOMAIN aliases : Deserves(r[1], r[2], q, aliases, creds)}
Result(r) == <<IF r[1] = "is alias" THEN "alias" ELSE "data-store", r[2]>>

(* The data store changes; a search remembers what it could have found. *)
Store(aliases, creds) ==
    /\ aliasOf' = aliases /\ savedCreds' = creds
    /\ search' = IF search = NoSearch THEN NoSearch
                 ELSE LET now == Deserved(search.query, aliases, creds)
                      IN [search EXCEPT !.ever = @ \union now, !.always = @ \cap now]

(* Saving a credential makes an identifier of its subject. *)
WithRows(dids) ==
    [d \in DOMAIN aliasOf \union dids |-> IF d \in DOMAIN aliasOf THEN aliasOf[d] ELSE Unnamed]

-----------------------------------------------------------------------------
(* createProfilePresentation *)

BeginProfile(o) ==
    /\ profile.stage \in {"none", "returned", "thrown"} /\ profiles < MaxProfiles
    /\ o.holder \in Managed
    /\ profiles' = profiles + 1
    /\ profile' = [stage |-> "issue", asked |-> o, credentials |-> <<>>]
    /\ UNCHANGED <<aliasOf, savedCreds, posted, search, changes, mishaps>>

(* A credential for each part that is given, in turn *)
Given(o) == Without(Parts, PartNames \ DOMAIN o.claims)
Credential(o, part) ==
    [subject |-> o.holder, type |-> "Profile", claims |-> [p \in {part} |-> o.claims[part]]]

IssueCredential ==
    LET o == profile.asked
        n == Len(profile.credentials)
    IN /\ profile.stage = "issue"
       /\ profile' = IF n = Len(Given(o)) THEN [profile EXCEPT !.stage = "present"]
                     ELSE [profile EXCEPT !.credentials = Append(@, Credential(o, Given(o)[n + 1]))]
       /\ UNCHANGED <<aliasOf, savedCreds, posted, search, profiles, changes, mishaps>>

Presented(creds) == {creds[i] : i \in DOMAIN creds}

(* What was presented is saved, if that is asked. *)
SavePresented ==
    LET o == profile.asked
    IN IF o.save
       THEN Store(WithRows({o.holder}), savedCreds \union Presented(profile.credentials))
       ELSE UNCHANGED <<aliasOf, savedCreds, search>>

(* createVerifiablePresentation *)
Present ==
    LET o == profile.asked
    IN /\ profile.stage = "present"
       /\ SavePresented
       /\ profile' = [profile EXCEPT !.stage = IF o.send /\ o.verifier # "nobody" THEN "send" ELSE "returned"]
       /\ UNCHANGED <<posted, profiles, changes, mishaps>>

(* sendMessageDIDCommAlpha1: to a service of type Messaging *)
FindEndpoint ==
    /\ profile.stage = "send"
    /\ profile' = [profile EXCEPT !.stage = IF profile.asked.verifier \in Endpoints THEN "post" ELSE "thrown"]
    /\ UNCHANGED <<aliasOf, savedCreds, posted, search, profiles, changes, mishaps>>

\* Mutant: the status of the answer is not looked at.
AnsweredUnread(accepted) == [profile EXCEPT !.stage = "handle"]

(* Any answer but 200 makes the send throw. *)
Answered(accepted) == [profile EXCEPT !.stage = IF accepted THEN "handle" ELSE "thrown"]

(* Encrypted if both parties have keys for it, and in clear if that fails; the
   verifier may refuse, and its answer may be lost. *)
Post ==
    LET message == [to |-> profile.asked.verifier, credentials |-> Presented(profile.credentials)]
    IN /\ profile.stage = "post"
       /\ \/ /\ posted' = posted \union {message}
             /\ profile' = Answered(TRUE)
             /\ UNCHANGED mishaps
          \/ Mishap /\ profile' = Answered(FALSE) /\ UNCHANGED posted
          \/ Mishap /\ profile' = [profile EXCEPT !.stage = "thrown"] /\ posted' = posted \union {message}
       /\ UNCHANGED <<aliasOf, savedCreds, search, profiles, changes>>

(* The message is handled by the sender's own agent, and saved with what is in
   it: credentials that were deleted meanwhile are there again. *)
HandleOwn ==
    /\ profile.stage = "handle"
    /\ SavePresented
    /\ profile' = [profile EXCEPT !.stage = "returned"]
    /\ UNCHANGED <<posted, profiles, changes, mishaps>>

(* Any of the calls may throw, and nothing that was done is undone. *)
ProfileThrows ==
    /\ profile.stage \in {"issue", "present", "send", "handle"} /\ Mishap
    /\ profile' = [profile EXCEPT !.stage = "thrown"]
    /\ UNCHANGED <<aliasOf, savedCreds, posted, search, profiles, changes>>

Profile == IssueCredential \/ Present \/ FindEndpoint \/ Post \/ HandleOwn \/ ProfileThrows

-----------------------------------------------------------------------------
(* What else changes the data store *)

Change == changes < MaxChanges /\ changes' = changes + 1
                  /\ UNCHANGED <<profile, posted, profiles, mishaps>>

SetAlias(d, a) == Change /\ d \in Managed /\ Store([aliasOf EXCEPT ![d] = a], savedCreds)
SaveReceived(c) == Change /\ Store(WithRows({c.subject}), savedCreds \union {c})
DeleteCredential(c) == Change /\ c \in savedCreds /\ Store(aliasOf, savedCreds \ {c})

-----------------------------------------------------------------------------
(* discoverDid *)

(* The first read is the alias provider's, reads 2 to 5 are the data store's. *)
Reads == 1..5
ProviderOf(at) == IF at = 1 THEN "alias" ELSE "data-store"

BeginSearch(q) ==
    /\ search = NoSearch
    /\ LET now == Deserved(q, aliasOf, savedCreds)
       IN search' = [at |-> 1, query |-> q, matches |-> {}, results |-> {}, errors |-> {},
                     hidden |-> {}, ever |-> now, always |-> now]
    /\ UNCHANGED <<aliasOf, savedCreds, profile, posted, profiles, changes, mishaps>>

\* Mutant: any claim of a profile is taken for its name.
FoundByAnyClaim(at, q) ==
    {c.subject : c \in {c \in savedCreds :
        c.type = "Profile" /\ \E part \in DOMAIN c.claims : <<q, c.claims[part]>> \in Like}}

Found(at, q) ==
    CASE at = 1 -> {d \in DOMAIN aliasOf : aliasOf[d] = q}
      [] at = 2 -> {c.subject : c \in {c \in savedCreds : NameOfProfile(c) /\ <<q, c.claims.name>> \in Like}}
      [] at = 3 -> {c.subject : c \in {c \in savedCreds : NameOfProfile(c) /\ <<q, c.subject>> \in Like}}
      [] at = 4 -> {d \in DOMAIN aliasOf : <<q, d>> \in Like}
      [] at = 5 -> {d \in DOMAIN aliasOf : <<q, aliasOf[d]>> \in Like}

(* A provider's last read gives its matches, or none, to the results. *)
Read ==
    LET at == search.at
        dids == search.matches \union Found(at, search.query)
    IN /\ at \in Reads
       /\ search' = IF at \in {1, 5}
                    THEN [search EXCEPT !.at = at + 1, !.matches = {},
                                        !.results = @ \union ({ProviderOf(at)} \X dids)]
                    ELSE [search EXCEPT !.at = at + 1, !.matches = dids]
       /\ UNCHANGED <<aliasOf, savedCreds, profile, posted, profiles, changes, mishaps>>

\* Mutant: nothing catches what a provider throws.
AfterErrorOf(at) == 6

(* The next provider has its turn when one has thrown. *)
AfterError(at) == IF at = 1 THEN 2 ELSE 6

(* The alias provider catches all that is thrown, and tells nobody. *)
ReadThrows ==
    LET at == search.at
        threw == [search EXCEPT !.at = AfterError(at), !.matches = {}]
    IN /\ at \in Reads /\ Mishap
       /\ search' = IF at = 1 THEN [threw EXCEPT !.hidden = {"alias"}]
                              ELSE [threw EXCEPT !.errors = {"data-store"}]
       /\ UNCHANGED <<aliasOf, savedCreds, profile, posted, profiles, changes>>

Next ==
    \/ \E o \in Wishes : BeginProfile(o)
    \/ Profile
    \/ \E d \in Managed, a \in Aliases : SetAlias(d, a)
    \/ \E c \in Received : SaveReceived(c)
    \/ \E c \in savedCreds : DeleteCredential(c)
    \/ \E q \in Queries : BeginSearch(q)
    \/ Read \/ ReadThrows

Spec == Init /\ [][Next]_vars

-----------------------------------------------------------------------------
(* A profile that is returned is whole: it has a credential for each part that
   was given, it was saved if that was asked, and its verifier has it if it was
   to be sent. *)
ReturnedIsDone ==
    profile.stage = "returned" =>
        LET o == profile.asked
            creds == Presented(profile.credentials)
        IN /\ UNION {DOMAIN c.claims : c \in creds} = DOMAIN o.claims
           /\ o.send /\ o.verifier # "nobody" => [to |-> o.verifier, credentials |-> creds] \in posted

(* Everyone who is found deserved it at some time of the search, and whoever
   deserved it for the same reason all the while is found, unless the provider
   had an error: the data store's is told, the alias provider's is hidden.  (Who
   deserved it for one reason and then another may have been missed: each is
   looked for at a time of its own.) *)
DiscoveryIsFaithful ==
    search # NoSearch =>
        /\ search.results \subseteq {Result(r) : r \in search.ever}
        /\ search.at = 6 => \A r \in search.always :
              Result(r) \in search.results \/ Result(r)[1] \in search.errors \union search.hidden
=============================================================================
