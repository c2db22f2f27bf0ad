------------------------------ MODULE Records ------------------------------
(***************************************************************************)
(* What the TypeORM stores (data-store/src) write of a message, a          *)
(* credential or an identifier into the columns of their rows, and what    *)
(* they read back.  A column whose value is not set is left as it is when  *)
(* a row is saved again.                                                   *)
(***************************************************************************)
EXTENDS FiniteSets

CONSTANTS
    Values,        \* values of the parts of a message
    Credentials,   \* each credential's proof, issuer and how it names the issuer
    Identifiers,   \* what is imported for the DID
    Aliases        \* what its alias is set to

VARIABLES
    messageRow,    \* the columns of the message's row
    sent,          \* what was saved last of each part
    credentialRows,
    holderOf,      \* the credentials of each presentation's row
    identifierRow,
    latest       \* what was imported last

vars == <<messageRow, sent, credentialRows, holderOf, identifierRow, latest>>

Unset == "unset"

RecordsAssumption ==
    /\ Unset \notin Aliases
    /\ \A c \in DOMAIN Credentials : Credentials[c].names \in {"string", "object"}
    /\ \A i \in Identifiers :
        /\ i = [alias |-> i.alias, keys |-> i.keys, services |-> i.services] /\ i.alias \in Aliases \cup {Unset}
        /\ \A s \in i.services : s.is \in {"text", "object", "quoted"} /\ s = [is |-> s.is, of |-> s.of]

Parts == {"createdAt", "expiresAt", "replyTo", "replyUrl", "threadId", "from"}
NoMessage == [part \in Parts |-> Unset]
NoRow == [alias |-> Unset, keys |-> {}, services |-> {}]

TypeOK ==
    /\ messageRow \in [Parts -> Values \cup {Unset}] /\ sent \in [Parts -> Values \cup {Unset}]
    /\ \A r \in credentialRows : r.of \in DOMAIN Credentials
    /\ holderOf \subseteq credentialRows
    /\ identifierRow.alias \in Aliases \cup {Unset} /\ latest.alias \in Aliases \cup {Unset}

Init ==
    /\ messageRow = NoMessage /\ sent = NoMessage
    /\ credentialRows = {} /\ holderOf = {}
    /\ identifierRow = NoRow /\ latest = NoRow

(* What TypeORM makes of a row and the values that are set *)
Kept(row, values) == [part \in Parts |-> IF values[part] = Unset THEN row[part] ELSE values[part]]

-----------------------------------------------------------------------------
\* The sender is taken for the one a reply goes to.
EntityFromReply(m) == [m EXCEPT !.from = IF m.replyUrl # Unset THEN m.replyUrl ELSE @, !.expiresAt = Unset]
(* The date at which a message expires is written where it was created. *)
CreateMessageEntity(m) ==
    [m EXCEPT !.createdAt = IF m.expiresAt # Unset THEN m.expiresAt ELSE @, !.expiresAt = Unset]

(* A reply URL is read with those it replies to only. *)
CreateMessage(row) == [row EXCEPT !.replyUrl = IF row.replyTo # Unset THEN @ ELSE Unset]

SaveMessage(m) ==
    /\ messageRow' = Kept(messageRow, CreateMessageEntity(m))
    /\ sent' = Kept(sent, m)
    /\ UNCHANGED <<credentialRows, holderOf, identifierRow, latest>>

-----------------------------------------------------------------------------
(* A credential as a JWT, decoded, or as the text of the decoded one *)
FormsOf(c) == IF Credentials[c].proof = "jwt" THEN {"jwt", "object", "text"} ELSE {"object", "text"}

\* The decoded credential has a hash of its own.
HashOfContent(c, form) == IF form = "jwt" THEN <<"jwt", c>> ELSE <<"json", c>>
(* A credential that has a JWT is known by it, any other by its text. *)
ComputeEntryHash(c, form) == IF Credentials[c].proof = "jwt" THEN <<"jwt", c>> ELSE <<"json", c>>

(* normalizeCredential names the issuer of a decoded JWT in an object. *)
Normalized(c, form) == IF form = "jwt" THEN "object" ELSE Credentials[c].names
(* The issuer, named by a string or in an object *)
ExtractIssuer(c, names) == IF names \in {"string", "object"} THEN Credentials[c].issuer ELSE ""

CreateCredentialEntity(c, form) ==
    [of |-> c, hash |-> ComputeEntryHash(c, form), issuer |-> ExtractIssuer(c, Normalized(c, form))]
SavedWith(entity) == {r \in credentialRows : r.hash # entity.hash} \cup {entity}

(* A credential is saved decoded, *)
SaveCredential(c) ==
    /\ credentialRows' = SavedWith(CreateCredentialEntity(c, "object"))
    /\ UNCHANGED <<messageRow, sent, holderOf, identifierRow, latest>>

(* or in a presentation, where it may be a JWT that is decoded first. *)
CreatePresentationEntity(c, form) == CreateCredentialEntity(c, form)
SavePresentation(c, form) ==
    /\ form # "text"
    /\ credentialRows' = SavedWith(CreatePresentationEntity(c, form))
    /\ holderOf' = holderOf \cup {CreatePresentationEntity(c, form)}
    /\ UNCHANGED <<messageRow, sent, identifierRow, latest>>

-----------------------------------------------------------------------------
(* An endpoint is text or an object; the text of an object, or of a text in quotes,
   is JSON.  Only text is stored, *)
Text(endpoint) == IF endpoint.is = "object" THEN [is |-> "text of", of |-> endpoint.of] ELSE endpoint
(* and getDID reads text that is JSON as what it says. *)
Parsed(endpoint) ==
    CASE endpoint.is = "text of" -> [is |-> "object", of |-> endpoint.of]
      [] endpoint.is = "quoted" -> [is |-> "text", of |-> endpoint.of]
      [] OTHER -> endpoint

\* listDIDs gives the text that is stored.
AsStored(row) == row
GetDID(row) == [row EXCEPT !.services = {Parsed(s) : s \in @}]

(* Keys and services that are no longer named are taken from the identifier; an
   alias that is not set stays. *)
ImportedRow(row, i) ==
    [alias |-> IF i.alias = Unset THEN row.alias ELSE i.alias, keys |-> i.keys,
     services |-> {Text(s) : s \in i.services}]

ImportDID(i) ==
    /\ identifierRow' = ImportedRow(identifierRow, i)
    /\ latest' = [i EXCEPT !.alias = IF @ = Unset THEN latest.alias ELSE @]
    /\ UNCHANGED <<messageRow, sent, credentialRows, holderOf>>

(* An update reads the identifier, changes it and imports it again. *)
Read(row) == GetDID(row)
SetAlias(a) ==
    /\ identifierRow' = ImportedRow(identifierRow, [Read(identifierRow) EXCEPT !.alias = a])
    /\ latest' = [latest EXCEPT !.alias = a]
    /\ UNCHANGED <<messageRow, sent, credentialRows, holderOf>>

SaveMessages == \E m \in [Parts -> Values \cup {Unset}] : SaveMessage(m)
SaveCredentials ==
    \E c \in DOMAIN Credentials : SaveCredential(c) \/ \E form \in FormsOf(c) : SavePresentation(c, form)
SaveIdentifiers == (\E i \in Identifiers : ImportDID(i)) \/ (\E a \in Aliases : SetAlias(a))
Next == SaveMessages \/ SaveCredentials \/ SaveIdentifiers

Spec == Init /\ [][Next]_vars

-----------------------------------------------------------------------------
(* What is read of a message is what was saved last of each part, but for its
   dates when it expires, and for a reply URL without those it replies to, which
   the store loses. *)
MessagesAreReadBack ==
    LET lost == (IF sent.expiresAt # Unset THEN {"createdAt", "expiresAt"} ELSE {})
                \cup (IF sent.replyTo = Unset THEN {"replyUrl"} ELSE {})
    IN \A part \in Parts \ lost : CreateMessage(messageRow)[part] = sent[part]

(* A credential has one row, whatever form it came in, with its issuer; it is
   found by the hash of any of its forms, and presentations refer to that row. *)
OneRowPerCredential ==
    /\ \A r \in credentialRows :
        /\ r.issuer = Credentials[r.of].issuer
        /\ \A form \in FormsOf(r.of) : ComputeEntryHash(r.of, form) = r.hash
        /\ \A s \in credentialRows : s.of = r.of => s = r
    /\ holderOf \subseteq credentialRows

(* An identifier is read with the keys and services that it was imported with,
   however often it was updated since, unless an endpoint is text in quotes. *)
IdentifiersAreReadBack ==
    (\A s \in latest.services : s.is # "quoted") => GetDID(identifierRow) = latest
=============================================================================
