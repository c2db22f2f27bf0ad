------------------------------ MODULE Packing ------------------------------
(***************************************************************************)
(* Packing and unpacking DIDComm messages (did-comm/src/didcomm.ts,        *)
(* utils.ts) while the DID documents of both ends change: the keys that a  *)
(* message is packed for, and the one it is packed by, are looked up when  *)
(* it is packed and again, by their ids, when it is unpacked.              *)
(***************************************************************************)
EXTENDS Jwe, Filters, FiniteSets, SequencesExt

CONSTANTS
    DIDs,        \* sender and recipients
    Sender,      \* whose key agreement keys come first in Docs[Sender]
    Docs,        \* Docs[d]: the documents that d may have, one after another
    Agents,      \* the agents that unpack
    Manages,     \* Manages[a]: the identifiers an agent manages
    Owns,       \* Owns[a]: the public keys whose private keys it holds
    Asks         \* the arguments of packDIDCommMessage

(* A document lists verification methods under authentication and keyAgreement. *)
Method(k) == DOMAIN k = {"id", "type", "pub"}
NoKey == [id |-> "none", type |-> "none", pub |-> "none"]

(* What DID Core asks of a document: a method has an id of its own. *)
Listed(keys) ==
    /\ keys \in Seq(Range(keys)) /\ \A k \in Range(keys) : Method(k)
    /\ \A i, j \in DOMAIN keys : keys[i].id = keys[j].id => i = j

PackingAssumption ==
    /\ Sender \in DIDs
    /\ \A d \in DIDs :
          /\ Docs[d] \in Seq(Range(Docs[d])) /\ Docs[d] # <<>>
          /\ \A document \in Range(Docs[d]) : Listed(document.auth) /\ Listed(document.agree)
    /\ \A a \in Agents : Manages[a] \subseteq DIDs
    /\ \A ask \in Asks :
          /\ ask.packing \in {"none", "jws", "authcrypt", "anoncrypt"}
          /\ ask.to \in Seq(DIDs) /\ ask.bcc \in Seq(DIDs)

Default(packing) == IF packing = "authcrypt" THEN <<"ECDH-1PU", "A256KW">> ELSE <<"ECDH-ES", "A256KW">>

VARIABLES
    doc,       \* the document of each DID: its place in Docs[d]
    packed,    \* what packDIDCommMessage returned
    asked,     \* the arguments it was given
    unpacked   \* what unpackDIDCommMessage returned to each agent

vars == <<doc, packed, asked, unpacked>>

Doc(d) == Docs[d][doc[d]]
Nothing == [as |-> "nothing"]
Threw == [as |-> "threw"]

Init ==
    /\ doc = [d \in DIDs |-> 1]
    /\ packed = Nothing /\ asked = Nothing
    /\ unpacked = [a \in Agents |-> Nothing]

TypeOK ==
    /\ \A d \in DIDs : doc[d] \in DOMAIN Docs[d] /\ \A i \in DOMAIN Doc(d).agree : Method(Doc(d).agree[i])
    /\ packed.as \in {"nothing", "threw", "plain", "jws", "jwe"}
    /\ asked = Nothing <=> packed = Nothing
    /\ \A a \in Agents : unpacked[a].as \in {"nothing", "threw", "none", "jws", "authcrypt", "anoncrypt"}

-----------------------------------------------------------------------------
First(keys, at) == keys[CHOOSE i \in at : \A j \in at : i <= j]

(* The key that the caller asks for, or else the first; keys that the agent of
   the sender does not hold are not among them. *)
KeyFor(keys, ref) ==
    LET named == {i \in DOMAIN keys : keys[i].id = ref}
    IN IF keys = <<>> THEN NoKey
       ELSE IF named # {} THEN First(keys, named)
       ELSE keys[1]

(* packDIDCommMessageJWS *)
PackJWS(ask) ==
    LET key == KeyFor(Doc(Sender).auth, ask.keyRef)
    IN IF key.type \in {"Ed25519", "Secp256k1"} THEN [as |-> "jws", by |-> key] ELSE Threw

(* computeRecipients: the supported keys of one recipient, among those asked for *)
Recipients(to, ask) ==
    LET keys == Doc(to).agree
        usable == Without(keys, {k \in Range(keys) : (ask.kids # {} /\ k.id \notin ask.kids) \/ k.type # "X25519"})
    IN [i \in DOMAIN usable |-> [did |-> to, key |-> usable[i]]]

\* It is enough that one recipient has a key.
AllReachableIfOne(ask) ==
    \E i \in DOMAIN (ask.to \o ask.bcc) : Recipients((ask.to \o ask.bcc)[i], ask) # <<>>
(* A recipient without such a key makes the packing fail. *)
AllReachable(ask) ==
    \A i \in DOMAIN (ask.to \o ask.bcc) : Recipients((ask.to \o ask.bcc)[i], ask) # <<>>

(* packDIDCommMessageJWE: recipients in `to` and `bcc`, in order *)
PackJWE(ask) ==
    LET by == IF ask.packing = "authcrypt" THEN KeyFor(Doc(Sender).agree, ask.keyRef) ELSE NoKey
        alg == IF ask.alg = <<"default">> THEN Default(ask.packing) ELSE ask.alg
        encrypter == EncrypterFor(ask.packing, alg, ask.enc)
        dids == ask.to \o ask.bcc
    IN IF /\ ask.packing = "authcrypt" => by.type = "X25519"
          /\ AllReachable(ask) /\ CanSeal(encrypter) /\ dids # <<>>
       THEN [as |-> "jwe", by |-> by, with |-> encrypter,
             for |-> FlattenSeq([i \in DOMAIN dids |-> Recipients(dids[i], ask)])]
       ELSE Threw

(* packDIDCommMessage *)
Pack(ask) ==
    /\ packed = Nothing
    /\ asked' = [as |-> ask.packing, ask |-> ask]
    /\ packed' = CASE ask.packing = "none" -> [as |-> "plain"]
                   [] ask.packing = "jws" -> PackJWS(ask)
                   [] ask.packing \in {"authcrypt", "anoncrypt"} -> PackJWE(ask)
    /\ UNCHANGED <<doc, unpacked>>

(* Someone replaces its document by the next one: other keys, or another key
   under the id of an old one. *)
Rotate(d) ==
    /\ doc[d] < Len(Docs[d])
    /\ doc' = [doc EXCEPT ![d] = @ + 1]
    /\ UNCHANGED <<packed, asked, unpacked>>

-----------------------------------------------------------------------------
(* getDIDComponentById *)
Named(keys, id) ==
    LET there == {i \in DOMAIN keys : keys[i].id = id} IN IF there = {} THEN NoKey ELSE First(keys, there)

(* unpackDIDCommMessageJWS: the key that the signature names, as it is now *)
UnpackJWS ==
    IF Named(Doc(Sender).auth, packed.by.id).pub = packed.by.pub THEN [as |-> "jws"] ELSE Threw

(* extractManagedRecipients, mapRecipientsToLocalKeys: each recipient that is
   managed here and whose key id leads, in the document as it is now, to a key
   that is held here; the key is the document's. *)
LocalKeys(a) ==
    LET now(r) == Named(Doc(r.did).agree, r.key.id)
        mine == Without(packed.for, {r \in Range(packed.for) : r.did \notin Manages[a] \/ now(r).pub \notin Owns[a]})
    IN [i \in DOMAIN mine |-> now(mine[i]).pub]

(* extractSenderEncryptionKey *)
SenderKey == IF packed.by = NoKey THEN NoKey ELSE Named(Doc(Sender).agree, packed.by.id)

(* createJWE, which the message is the result of *)
Message == CreateJWE(packed.with, packed.by.pub, [i \in DOMAIN packed.for |-> packed.for[i].key.pub])

(* How a message with a sender key and an algorithm is to be read *)
ReadAs(sender) == IF sender # NoKey /\ Message.alg[1] = "ECDH-1PU" THEN "authcrypt" ELSE "anoncrypt"

Decrypts(key, sender) ==
    LET m == Message
        wrapper == m.alg[Len(m.alg)]
    IN DecryptJWE(m, DecrypterFor(ReadAs(sender), wrapper, m.enc), key, sender.pub)

\* Only the first local key is tried.
OpenedByFirst(keys, sender) == keys # <<>> /\ Decrypts(keys[1], sender)
(* The local keys are tried one after the other. *)
Opened(keys, sender) == \E i \in DOMAIN keys : Decrypts(keys[i], sender)

(* unpackDIDCommMessageJWE *)
UnpackJWE(a) ==
    IF packed.by # NoKey /\ SenderKey.type # "X25519" THEN Threw
    ELSE IF Opened(LocalKeys(a), SenderKey) THEN [as |-> ReadAs(SenderKey)] ELSE Threw

(* unpackDIDCommMessage, by the media type *)
Unpack(a) ==
    /\ packed.as \in {"plain", "jws", "jwe"} /\ unpacked[a] = Nothing
    /\ unpacked' = [unpacked EXCEPT ![a] = CASE packed.as = "plain" -> [as |-> "none"]
                                             [] packed.as = "jws" -> UnpackJWS
                                             [] packed.as = "jwe" -> UnpackJWE(a)]
    /\ UNCHANGED <<doc, packed, asked>>

Next ==
    \/ packed = Nothing /\ \E ask \in Asks : Pack(ask)
    \/ \E d \in DIDs : Rotate(d)
    \/ \E a \in Agents : Unpack(a)

Spec == Init /\ [][Next]_vars

-----------------------------------------------------------------------------
(* What was read is read as what it was packed as: nothing that was packed
   without a sender is taken for authenticated, nor the other way around. *)
PackingIsKept ==
    \A a \in Agents : unpacked[a].as \notin {"nothing", "threw"} => unpacked[a].as = asked.as

(* A message that was packed can be read by every one of its recipients, those in
   bcc as well, whose agent holds a key that their document had at the time and
   still has, as long as the sender's key is still in its document: a rotated
   key next to it does not stand in the way. *)
Keeps(d, a, key) ==
    key \in Range(Doc(d).agree) /\ key.pub \in Owns[a] /\ [did |-> d, key |-> key] \in Range(packed.for)
EveryRecipientCanRead ==
    [][\A a \in Agents :
        /\ unpacked[a] = Nothing /\ unpacked'[a] = Threw
        /\ packed.as = "jwe" /\ packed.by \in Range(Doc(Sender).agree) \cup {NoKey}
        => ~\E d \in Manages[a], i \in 1..2 : i <= Len(Doc(d).agree) /\ Keeps(d, a, Doc(d).agree[i])]_vars

(* Packing leaves nobody out: when it succeeds, each DID of `to` and `bcc` has a
   key among those the message is for, although the keys of one are filtered by
   ids that were asked for and by what is supported. *)
NobodyIsLeftOut ==
    packed.as = "jwe" =>
        \A d \in Range(asked.ask.to \o asked.ask.bcc) : \E r \in Range(packed.for) : r.did = d
=============================================================================
