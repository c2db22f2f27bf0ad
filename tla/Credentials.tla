---------------------------- MODULE Credentials ----------------------------
(***************************************************************************)
(* Issuing, revoking and verifying credentials and presentations in three  *)
(* formats (credential-w3c, credential-ld, credential-eip712,              *)
(* credential-status): which key signs, with what the KMS can do, and what *)
(* is checked of what is shown later, when the issuer's document, the time *)
(* and the credential's status have changed.                               *)
(***************************************************************************)
EXTENDS Naturals, Sequences, FiniteSets

CONSTANTS
    IssuerKeys,    \* the keys of the issuer's identifier, in order
    Installed,     \* the plugins of the verifying agent
    Managed,       \* the identifiers it manages, in the order they are found
    Audiences,     \* the audiences a presentation may name
    SharedKeys,    \* the DID store hands out the objects that it keeps
    MaxTime

Formats == {"jwt", "lds", "EthereumEip712Signature2021"}
Key == [kid: STRING, type: {"Ed25519", "Secp256k1", "Secp256r1", "X25519"}, algs: SUBSET STRING]
Kids == {IssuerKeys[i].kid : i \in DOMAIN IssuerKeys}
NoKey == [kid |-> "none", type |-> "X25519", algs |-> {}]
Nothing == [format |-> "none"]

(* The keys are told apart by their kids, and each has the algorithms of its type
   that its KMS offers. *)
CredentialsAssumption ==
    /\ MaxTime \in Nat
    /\ IssuerKeys \in Seq(Key) /\ {"any", "none"} \cap Kids = {}
    /\ \A i, j \in DOMAIN IssuerKeys : IssuerKeys[i].kid = IssuerKeys[j].kid => i = j
    /\ \A i \in DOMAIN IssuerKeys :
        /\ IssuerKeys[i].type = "Ed25519" => "EdDSA" \in IssuerKeys[i].algs
        /\ IssuerKeys[i].type = "Secp256r1" => "ES256" \in IssuerKeys[i].algs
        /\ IssuerKeys[i].type = "Secp256k1" =>
              ("ES256K" \in IssuerKeys[i].algs <=> "ES256K-R" \in IssuerKeys[i].algs)
    /\ Managed \in Seq(STRING) /\ \A aud \in Audiences : "none" \notin aud

VARIABLES
    keys,      \* the issuer's identifier as the DID store has it
    doc,       \* the kids that its DID document lists
    now, revoked,
    vc,        \* the credential that was issued
    verdict,   \* what verifyCredential said, of what, and when
    vp,        \* the presentation that was made
    aimed      \* what verifyPresentation said of it, and as whom

vars == <<keys, doc, now, revoked, vc, verdict, vp, aimed>>

TypeOK ==
    /\ keys \in Seq(Key) /\ Len(keys) = Len(IssuerKeys)
    /\ doc \subseteq Kids /\ now \in 0..MaxTime /\ revoked \in BOOLEAN
    /\ vc.format \in Formats \cup {"none"} /\ vp.format \in Formats \cup {"none"}
    /\ verdict.is \in {"none", "verified", "refused", "threw"}
    /\ aimed.is \in {"none", "verified", "refused"}

Init ==
    /\ keys = IssuerKeys /\ doc \in SUBSET Kids
    /\ now = 0 /\ revoked = FALSE
    /\ vc = Nothing /\ verdict = [is |-> "none"]
    /\ vp = Nothing /\ aimed = [is |-> "none"]

-----------------------------------------------------------------------------
Least(places) == CHOOSE i \in places : \A j \in places : i <= j
FirstOf(places) == IF places = {} THEN NoKey ELSE keys[Least(places)]

\* The key asked for does not matter.
PickFirstKey(ref) == FirstOf({i \in DOMAIN keys : keys[i].type # "X25519"})
(* pickSigningKey: the first of a signing type, or the very one asked for *)
PickSigningKey(ref) ==
    FirstOf({i \in DOMAIN keys : IF ref = "any" THEN keys[i].type # "X25519" ELSE keys[i].kid = ref})
JwtAlg(k) == CASE k.type = "Ed25519" -> "EdDSA" [] k.type = "Secp256r1" -> "ES256" [] OTHER -> "ES256K"

(* findSigningKeyWithId: the one asked for, if its document entry suits a suite,
   or else the first that does *)
LdSuits(k) == k.kid \in doc /\ k.type \in {"Ed25519", "Secp256k1"}
LdSigningKey(ref) ==
    LET suited == {i \in DOMAIN keys : LdSuits(keys[i])}
        asked == {i \in suited : keys[i].kid = ref}
    IN FirstOf(IF asked # {} THEN asked ELSE suited)
LdAlg(k) == IF k.type = "Ed25519" THEN "EdDSA" ELSE "ES256K-R"

(* createVerifiableCredentialEIP712: the first that signs typed data, or the very
   one asked for; either way it must be in the document *)
Eip712Key(ref) ==
    LET k == FirstOf({i \in DOMAIN keys : IF ref = "any"
                                           THEN keys[i].type = "Secp256k1" /\ "eth_signTypedData" \in keys[i].algs
                                           ELSE keys[i].kid = ref})
    IN IF k.kid \in doc THEN k ELSE NoKey

(* KeyManagementSystem.sign: the algorithm is one of the key's, whose private key
   the KMS holds with the type it was made with *)
CanSign(k, alg) == \E i \in DOMAIN IssuerKeys : IssuerKeys[i].kid = k.kid /\ alg \in IssuerKeys[i].algs

(* The key that signs, in each format; NoKey where issuing fails *)
JwtSigner(ref) ==
    LET k == PickSigningKey(ref) IN IF CanSign(k, JwtAlg(k)) THEN k ELSE NoKey
LdSigner(ref) ==
    LET k == LdSigningKey(ref) IN IF CanSign(k, LdAlg(k)) THEN k ELSE NoKey
Eip712Signer(ref) ==
    LET k == Eip712Key(ref) IN IF CanSign(k, "eth_signTypedData") THEN k ELSE NoKey
Signer(format, ref) ==
    CASE format = "jwt" -> JwtSigner(ref)
      [] format = "lds" -> LdSigner(ref)
      [] format = "EthereumEip712Signature2021" -> Eip712Signer(ref)

(* createVerifiableCredential *)
Issue(format, ref, exp, status) ==
    /\ vc = Nothing /\ vp = Nothing
    /\ Signer(format, ref) # NoKey
    /\ vc' = [format |-> format, by |-> Signer(format, ref).kid, exp |-> exp, status |-> status]
    /\ UNCHANGED <<keys, doc, now, revoked, verdict, vp, aimed>>

(* listUsableProofFormats: matchKeyForJWT, matchKeyForLDSuite, matchKeyForEIP712 *)
Listed ==
    UNION {(IF \/ keys[i].type \in {"Ed25519", "Secp256r1"}
               \/ keys[i].type = "Secp256k1" /\ keys[i].algs \cap {"ES256K", "ES256K-R"} # {}
            THEN {"jwt"} ELSE {})
           \cup (IF \/ keys[i].type = "Ed25519" /\ "EdDSA" \in keys[i].algs
                    \/ keys[i].type = "Secp256k1" /\ keys[i].algs \cap {"ES256K", "ES256K-R"} # {}
                 THEN {"lds"} ELSE {})
           \cup (IF "eth_signTypedData" \in keys[i].algs THEN {"EthereumEip712Signature2021"} ELSE {})
           : i \in DOMAIN keys}

-----------------------------------------------------------------------------
\* The type is changed in what the store keeps.
ConvertedInPlace(ks) ==
    [i \in DOMAIN ks |-> IF ks[i].type = "Ed25519" THEN [ks[i] EXCEPT !.type = "X25519"] ELSE ks[i]]
(* convertIdentifierEncryptionKeys, on the way to encrypting or decrypting a
   message, turns the Ed25519 keys of the identifier that the store gave it into
   X25519 keys, in place. *)
Converted(ks) == IF SharedKeys THEN ConvertedInPlace(ks) ELSE ks

MapKeysToDoc ==
    /\ keys' = Converted(keys)
    /\ UNCHANGED <<doc, now, revoked, vc, verdict, vp, aimed>>

(* The issuer's document and the status of its credential change; time passes. *)
Rotate(kids) == doc' = kids /\ UNCHANGED <<keys, now, revoked, vc, verdict, vp, aimed>>
Revoke == vc # Nothing /\ vc.status /\ revoked' = TRUE /\ UNCHANGED <<keys, doc, now, vc, verdict, vp, aimed>>
Tick == now < MaxTime /\ now' = now + 1 /\ UNCHANGED <<keys, doc, revoked, vc, verdict, vp, aimed>>

-----------------------------------------------------------------------------
(* What is shown: the credential, a JWT without the rest, or with other fields
   than were signed; next to a JWT these may come under any type of proof. *)
Shown ==
    {"as issued", "altered"} \cup (IF vc.format = "jwt" THEN {"altered and retyped"} ELSE {})
Policies == [expirationDate: BOOLEAN, credentialStatus: BOOLEAN]

\* The fields next to a JWT are not compared with it.
IntactIfSigned(shown) == vc.format = "jwt" \/ shown # "altered"
(* The signature is over the fields; the fields next to a JWT are compared with
   what was signed if the type of their proof is that of a JWT, and not otherwise. *)
Intact(shown) == shown # "altered"

\* The last moment is too late.
JwtValidBefore(policies) == vc.by \in doc /\ (now < vc.exp \/ ~policies.expirationDate)
JwtValid(policies) == vc.by \in doc /\ (now <= vc.exp \/ ~policies.expirationDate)
\* Expiration is only looked at when the policy is given.
LdValidIfAsked(policies) == vc.by \in doc /\ (now <= vc.exp \/ ~policies.expirationDate)
(* The policies do not reach the JSON-LD library. *)
LdValid(policies) == vc.by \in doc /\ now <= vc.exp
(* The signature alone. *)
Eip712Valid == vc.by \in doc

Valid(policies) ==
    CASE vc.format = "jwt" -> JwtValid(policies)
      [] vc.format = "lds" -> LdValid(policies)
      [] vc.format = "EthereumEip712Signature2021" -> Eip712Valid

\* The status counts for JWTs only.
RevokedJwt == vc.format = "jwt" /\ vc.status /\ revoked
(* isRevoked, which checkCredentialStatus answers *)
IsRevoked == vc.status /\ revoked

Plugin == CASE vc.format = "jwt" -> {} [] vc.format = "lds" -> {"LD"} [] OTHER -> {"EIP712"}

(* verifyCredential: detectDocumentType leads to a verification in that format; a
   JWT that fails it is refused at once, and of everything else the status is
   checked whatever came of it. *)
Verdict(shown, policies) ==
    LET valid == Valid(policies)
        asksStatus == policies.credentialStatus /\ vc.status
    IN CASE ~(Plugin \subseteq Installed) -> "threw"
         [] Plugin \subseteq Installed /\ vc.format = "jwt" /\ ~valid -> "refused"
         [] Plugin \subseteq Installed /\ (vc.format = "jwt" => valid) ->
              IF asksStatus /\ "status" \notin Installed THEN "threw"
              ELSE IF valid /\ Intact(shown) /\ ~(policies.credentialStatus /\ IsRevoked)
                   THEN "verified" ELSE "refused"

Verify(shown, policies) ==
    /\ vc # Nothing /\ verdict.is = "none"
    /\ verdict' = [is |-> Verdict(shown, policies), shown |-> shown, policies |-> policies,
                   current |-> vc.by \in doc, late |-> now > vc.exp, revoked |-> revoked]
    /\ UNCHANGED <<keys, doc, now, revoked, vc, vp, aimed>>

(* createVerifiablePresentation picks a signing key before it looks at the format.
   A JWT carries its audiences and the challenge, JSON-LD one domain and the
   challenge, EIP-712 neither. *)
JwtPresentation(by, aud, challenge) == [format |-> "jwt", by |-> by, aud |-> aud, challenge |-> challenge]
LdPresentation(by, aud, challenge) ==
    [format |-> "lds", by |-> by, aud |-> IF Cardinality(aud) = 1 THEN aud ELSE {}, challenge |-> challenge]
Eip712Presentation(by) ==
    [format |-> "EthereumEip712Signature2021", by |-> by, aud |-> {}, challenge |-> "none"]

Present(format, ref, aud, challenge) ==
    LET by == Signer(format, ref) IN
    /\ vc = Nothing /\ vp = Nothing
    /\ PickSigningKey(ref) # NoKey /\ by # NoKey
    /\ vp' = CASE format = "jwt" -> JwtPresentation(by.kid, aud, challenge)
               [] format = "lds" -> LdPresentation(by.kid, aud, challenge)
               [] format = "EthereumEip712Signature2021" -> Eip712Presentation(by.kid)
    /\ UNCHANGED <<keys, doc, now, revoked, vc, verdict, aimed>>

\* The first managed identifier there is.
AudienceFirst(aud) == Managed[1]
(* Without a domain, the audience is the first managed identifier that the
   presentation is meant for. *)
Audience(aud) ==
    LET mine == {i \in DOMAIN Managed : Managed[i] \in aud}
    IN IF mine = {} THEN "none" ELSE Managed[Least(mine)]

(* The JWT library wants the domain among the audiences, and us as one if any. *)
MeantFor(aud, domain) == IF domain = "none" THEN aud = {} \/ Audience(aud) \in aud ELSE domain \in aud

JwtPresented(domain, challenge) ==
    vp.by \in doc /\ MeantFor(vp.aud, domain) /\ (challenge = "none" \/ challenge = vp.challenge)
(* The JSON-LD library needs a challenge to verify a presentation. *)
LdPresented(domain, challenge) ==
    vp.by \in doc /\ challenge # "none" /\ challenge = vp.challenge /\ (domain = "none" \/ domain \in vp.aud)
Eip712Presented == vp.by \in doc

VerifyPresentation(domain, challenge) ==
    /\ vp # Nothing /\ aimed.is = "none"
    /\ LET ok == CASE vp.format = "jwt" -> JwtPresented(domain, challenge)
                   [] vp.format = "lds" -> LdPresented(domain, challenge)
                   [] vp.format = "EthereumEip712Signature2021" -> Eip712Presented
       IN aimed' = [is |-> IF ok THEN "verified" ELSE "refused", domain |-> domain,
                    challenge |-> challenge, current |-> vp.by \in doc]
    /\ UNCHANGED <<keys, doc, now, revoked, vc, verdict, vp>>

Next ==
    \/ \E f \in Formats, ref \in Kids \cup {"any"}, exp \in 0..MaxTime, s \in BOOLEAN : Issue(f, ref, exp, s)
    \/ MapKeysToDoc \/ Revoke \/ Tick
    \/ \E kids \in SUBSET Kids : Rotate(kids)
    \/ \E s \in Shown, p \in Policies : Verify(s, p)
    \/ \E f \in Formats, ref \in Kids \cup {"any"}, aud \in Audiences, ch \in {"none", "c1"} :
          Present(f, ref, aud, ch)
    \/ \E d \in {"none", "shop"}, ch \in {"none", "c1", "c2"} : VerifyPresentation(d, ch)

Spec == Init /\ [][Next]_vars

-----------------------------------------------------------------------------
(* What verifies was signed by a key that the issuer's document still lists,
   whichever the format, and the fields that are shown are those that were signed,
   unless they are next to a JWT under another type of proof: there the JWT is
   vouched for and what is shown next to it is not. *)
VerifiedIsGenuine ==
    verdict.is = "verified" =>
        /\ verdict.current
        /\ verdict.shown # "as issued" => vc.format = "jwt" /\ verdict.shown = "altered and retyped"

(* A credential that was revoked does not verify, in any format, unless the
   caller's policy leaves the status out. *)
RevokedIsRefused ==
    verdict.is = "verified" /\ verdict.policies.credentialStatus => ~verdict.revoked

(* Nor does one that has expired, unless the policy leaves that out; policies are
   not looked at for JSON-LD, and expiration is not for EIP-712. *)
ExpiredIsRefused ==
    verdict.is = "verified" /\ verdict.late =>
        \/ vc.format = "jwt" /\ ~verdict.policies.expirationDate
        \/ vc.format = "EthereumEip712Signature2021"

(* Only what is signed, in force and not revoked verifies. *)
OnlyValidVerifies == VerifiedIsGenuine /\ RevokedIsRefused /\ ExpiredIsRefused

(* Whatever this code issued is accepted, unless something has changed since,
   other fields are shown than were signed (as above) or a plugin is missing. *)
IssuedIsAccepted ==
    verdict.is = "refused" => verdict.shown = "altered" \/ ~verdict.current \/ verdict.late \/ verdict.revoked

(* Every format that listUsableProofFormats lists can be issued with one of the
   identifier's keys, all of which its document lists. *)
ListedIsUsable ==
    doc = Kids => \A f \in Listed : \E ref \in Kids : Signer(f, ref) # NoKey

(* Encrypting and decrypting messages takes no way of signing from an identifier:
   what it could sign with before it can sign with after. *)
EncryptingKeepsSigning ==
    doc = Kids =>
        \A i \in DOMAIN IssuerKeys :
            IssuerKeys[i].type = "Ed25519" =>
                \A f \in {"jwt", "lds"} : Signer(f, IssuerKeys[i].kid).kid = IssuerKeys[i].kid

(* A JWT presentation is accepted exactly when its holder's document lists the
   key, it answers the challenge if one is given, and it is meant for the domain
   given or, when none is, for some identifier of this agent or nobody in
   particular.  In no format that carries them is one accepted that was made for
   another challenge or domain; EIP-712 carries neither. *)
AcceptedIfMeantForUs ==
    LET meant == \/ aimed.domain \in vp.aud
                 \/ aimed.domain = "none" /\ (vp.aud = {} \/ \E i \in DOMAIN Managed : Managed[i] \in vp.aud)
        answers == aimed.challenge \in {"none", vp.challenge}
    IN aimed.is # "none" =>
        /\ vp.format = "jwt" => (aimed.is = "verified" <=> aimed.current /\ meant /\ answers)
        /\ vp.format = "lds" /\ aimed.is = "verified" =>
              aimed.current /\ answers /\ aimed.domain \in {"none"} \cup vp.aud
        /\ vp.format = "EthereumEip712Signature2021" => (aimed.is = "verified" <=> aimed.current)
=============================================================================
