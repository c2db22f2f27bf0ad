----------------------------- MODULE Disclosure -----------------------------
(***************************************************************************)
(* Selective disclosure (selective-disclosure/src/action-handler.ts): the  *)
(* holder gathers its credentials for the claims of a request, one query   *)
(* per claim, from either store; the verifier checks what is presented.    *)
(***************************************************************************)
EXTENDS Naturals, Sequences, FiniteSets, SequencesExt

CONSTANTS
    Credentials,  \* those that a holder may have: issuer, subject, types, contexts and claims
    Claims,       \* the claims that a request may ask for
    Subjects,     \* the DIDs that a request may be about
    Containing,   \* the names of types and contexts that a name is found in, its own with them
    MaxClaims, MaxHeld

(* A claim asks for a property, and may ask for a value of it, for issuers, and
   for a type and a context of the credential. *)
Anything == "anything"
Column == {"type", "value", "issuer", "credentialType", "context", "subject"}

DisclosureAssumption ==
    /\ MaxClaims \in Nat /\ Anything \notin Subjects
    /\ \A claim \in Claims : claim.issuers = {} \/ claim.given
    /\ \A claim \in Claims : \A name \in {claim.credentialType, claim.credentialContext} \ {Anything} :
          name \in DOMAIN Containing /\ name \in Containing[name]

VARIABLES
    request,    \* the claims asked for, in order
    about,      \* whose credentials are gathered, if that is said
    held,       \* the holder's credentials
    where,      \* the conditions of the queries, which grow from claim to claim
    gathered,   \* what was gathered for each claim so far, by each store
    checked     \* what the verifier says of the presentation of it

vars == <<request, about, held, where, gathered, checked>>

TypeOK ==
    /\ Len(request) <= MaxClaims /\ Range(request) \subseteq Claims
    /\ about \in Subjects \cup {Anything} /\ held \subseteq Credentials
    /\ \A i \in DOMAIN where : where[i].column \in Column
    /\ Len(gathered) <= Len(request)
    /\ checked \in {"no", "valid", "invalid"}

Init ==
    /\ request = <<>> /\ about = Anything /\ held = {}
    /\ where = <<>> /\ gathered = <<>> /\ checked = "no"

(* createSelectiveDisclosureRequest; any claims, and a holder with any credentials *)
Ask ==
    /\ request = <<>>
    /\ request' \in UNION {[1..n -> Claims] : n \in 1..MaxClaims}
    /\ about' \in Subjects \cup {Anything}
    /\ held' \in {H \in SUBSET Credentials : Cardinality(H) <= MaxHeld}
    /\ UNCHANGED <<where, gathered, checked>>

-----------------------------------------------------------------------------
(* The conditions of one claim: a name is searched for with LIKE, which finds those
   that contain it. *)
Condition(column, given, values) == IF given THEN <<[column |-> column, in |-> values]>> ELSE <<>>
NameLike(column, name) == Condition(column, name # Anything, IF name = Anything THEN {} ELSE Containing[name])
Conditions(claim, whose) ==
    Condition("type", TRUE, {claim.type}) \o Condition("value", claim.value # Anything, {claim.value})
    \o Condition("issuer", claim.issuers # {}, claim.issuers)
    \o NameLike("credentialType", claim.credentialType) \o NameLike("context", claim.credentialContext)
    \o Condition("subject", whose # Anything, {whose})

(* A row of the claims table: one claim of one credential, with its columns *)
Row(c, t) == [type |-> {t}, value |-> {c.claims[t]}, issuer |-> {c.issuer},
              credentialType |-> c.types, context |-> c.contexts, subject |-> {c.subject}, of |-> c]
Rows(H) == UNION {{Row(c, t) : t \in DOMAIN c.claims} : c \in H}
Meets(row, condition) == row[condition.column] \cap condition.in # {}
(* dataStoreORMGetVerifiableCredentialsByClaims: all conditions hold in the JSON
   store, and the last one of each column in the SQL store. *)
JsonFinds(H, w) == {r.of : r \in {x \in Rows(H) : \A i \in DOMAIN w : Meets(x, w[i])}}
SqlFinds(H, w) ==
    {r.of : r \in {x \in Rows(H) : \A i \in DOMAIN w :
        (\A j \in (i + 1)..Len(w) : w[j].column # w[i].column) => Meets(x, w[i])}}

\* Only the first condition of a claim is added.
GrownByFirst(w, claim, whose) == w \o SubSeq(Conditions(claim, whose), 1, 1)
(* The conditions of a claim are added to those of the claims before it. *)
Grown(w, claim, whose) == w \o Conditions(claim, whose)

(* One round of the loop of getVerifiableCredentialsForSdr *)
GatherNext ==
    /\ Len(gathered) < Len(request)
    /\ LET w == Grown(where, request[Len(gathered) + 1], about)
       IN where' = w /\ gathered' = Append(gathered, [json |-> JsonFinds(held, w), sql |-> SqlFinds(held, w)])
    /\ UNCHANGED <<request, about, held, checked>>

(* validatePresentationAgainstSdr, of one claim and one credential: the names of its
   type and context are compared as they are, and whose it is is not looked at. *)
Shows(c, claim) ==
    /\ claim.type \in DOMAIN c.claims
    /\ claim.value # Anything => c.claims[claim.type] = claim.value
    /\ claim.given => c.issuer \in claim.issuers
Satisfies(c, claim) ==
    /\ Shows(c, claim)
    /\ claim.credentialContext # Anything => claim.credentialContext \in c.contexts
    /\ claim.credentialType # Anything => claim.credentialType \in c.types

\* One claim with credentials will do.
ValidIfSome(H, claims) == \E i \in DOMAIN claims : \E c \in H : Satisfies(c, claims[i])
(* Every essential claim must have one. *)
Valid(H, claims) == \A i \in DOMAIN claims : claims[i].essential => \E c \in H : Satisfies(c, claims[i])

Check ==
    /\ request # <<>> /\ Len(gathered) = Len(request) /\ checked = "no"
    /\ checked' = IF Valid(UNION {gathered[i].json : i \in DOMAIN gathered}, request) THEN "valid" ELSE "invalid"
    /\ UNCHANGED <<request, about, held, where, gathered>>

Next == Ask \/ GatherNext \/ Check
Spec == Init /\ [][Next]_vars

-----------------------------------------------------------------------------
(* `issuers: []` asks for nothing when gathering, and admits nobody when checking. *)
NamesNobody(claim) == claim.given /\ claim.issuers = {}

(* A name that no other contains; `AnsweredBy` is what a claim asks of a credential
   when it is searched for, where a longer name does as well. *)
Unmistakable(claim) ==
    \A name \in {claim.credentialType, claim.credentialContext} \ {Anything} : Containing[name] = {name}
AnsweredBy(claim, whose, c) ==
    /\ Shows(c, claim)
    /\ claim.credentialType # Anything => Containing[claim.credentialType] \cap c.types # {}
    /\ claim.credentialContext # Anything => Containing[claim.credentialContext] \cap c.contexts # {}
    /\ whose # Anything => c.subject = whose

(* What is gathered for a claim answers it, from either store and although the
   conditions of the claims before it are still there; and the verifier takes it,
   unless the name of its type or context only contains the one that was asked for. *)
GatheredFits ==
    \A i \in DOMAIN gathered : ~NamesNobody(request[i]) =>
        \A c \in gathered[i].json \cup gathered[i].sql :
            AnsweredBy(request[i], about, c) /\ (Unmistakable(request[i]) => Satisfies(c, request[i]))

(* For a request of one claim, what is gathered is all there is, and presenting it
   is valid whenever the holder has what is asked for and of whom it is asked. *)
OneClaimIsFulfilled ==
    Len(request) = 1 /\ gathered # <<>> /\ ~NamesNobody(request[1]) =>
        LET fitting == {c \in held : AnsweredBy(request[1], about, c)}
        IN /\ gathered[1].json = fitting /\ gathered[1].sql = fitting
           /\ checked # "no" =>
                (checked = "valid" <=> (\E c \in fitting : Satisfies(c, request[1])) \/ ~request[1].essential)

(* What is valid lacks nothing: each essential claim of it is in a credential that
   is held. *)
ValidIsComplete ==
    checked = "valid" =>
        \A i \in DOMAIN request : request[i].essential => \E c \in held : Satisfies(c, request[i])

(* The credentials necessary to fulfill a request are gathered, when they are held
   and whatever the number of claims. *)
EveryClaimIsGathered ==
    \A i \in DOMAIN gathered : (\E c \in held : AnsweredBy(request[i], about, c)) => gathered[i].json # {}
=============================================================================
