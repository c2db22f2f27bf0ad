-------------------------------- MODULE Jwe --------------------------------
(***************************************************************************)
(* How DIDComm messages are encrypted: for each content cipher, key        *)
(* agreement and key wrapping an encrypter and a decrypter, and the tables *)
(* by which packDIDCommMessageJWE and unpackDIDCommMessageJWE pick them.   *)
(* Keys are told by their public keys, what is derived from keys by what   *)
(* it is derived from; a secret that two keys agree on is their set.       *)
(***************************************************************************)
EXTENDS Naturals, Sequences

(* createX25519EcdhEsKek, createX25519Ecdh1PUv3Kek and their counterparts *)
Kek(creator, epk, from, to, alg) ==
    [agreed |-> {epk, to}, sender |-> IF creator = "ECDH-1PU" THEN {from, to} ELSE {}, alg |-> alg]

(* createFullEncrypter and the decrypters; `enc` is what they call themselves. *)
Encrypter(creator, wrapper, cipher, enc) ==
    [creator |-> creator, wrapper |-> wrapper, cipher |-> cipher, enc |-> enc]
Decrypter(creator, unwrapper, cipher, enc) ==
    [creator |-> creator, wrapper |-> unwrapper, cipher |-> cipher, enc |-> enc]
NoEncrypter == Encrypter("none", "none", "none", "none")
NoDecrypter == NoEncrypter
Alg(crypter) == <<crypter.creator, crypter.wrapper>>

-----------------------------------------------------------------------------
(* encryption/xc20pkw-encrypters.ts *)
a256cbcHs512AnonEncrypterX25519WithXC20PKW == Encrypter("ECDH-ES", "XC20PKW", "A256CBC-HS512", "A256CBC-HS512")
a256cbcHs512AnonDecrypterX25519WithXC20PKW == Decrypter("ECDH-ES", "XC20PKW", "A256CBC-HS512", "A256CBC-HS512")
a256cbcHs512AuthEncrypterX25519WithXC20PKW == Encrypter("ECDH-1PU", "XC20PKW", "A256CBC-HS512", "A256CBC-HS512")
a256cbcHs512AuthDecrypterX25519WithXC20PKW == Decrypter("ECDH-1PU", "XC20PKW", "A256CBC-HS512", "A256CBC-HS512")
a256gcmAnonEncrypterX25519WithXC20PKW == Encrypter("ECDH-ES", "XC20PKW", "A256GCM", "XC20P")
a256gcmAnonDecrypterX25519WithXC20PKW == Decrypter("ECDH-ES", "XC20PKW", "A256GCM", "A256GCM")
a256gcmAuthEncrypterEcdh1PuV3x25519WithXC20PKW == Encrypter("ECDH-1PU", "XC20PKW", "A256GCM", "A256GCM")
a256gcmAuthDecrypterEcdh1PuV3x25519WithXC20PKW == Decrypter("ECDH-1PU", "XC20PKW", "A256GCM", "A256GCM")
xc20pAnonEncrypterX25519WithXC20PKW == Encrypter("ECDH-ES", "XC20PKW", "XC20P", "XC20P")
xc20pAnonDecrypterX25519WithXC20PKW == Decrypter("ECDH-ES", "XC20PKW", "XC20P", "XC20P")
xc20pAuthEncrypterEcdh1PuV3x25519WithXC20PKW == Encrypter("ECDH-1PU", "XC20PKW", "XC20P", "XC20P")
xc20pAuthDecrypterEcdh1PuV3x25519WithXC20PKW == Decrypter("ECDH-1PU", "XC20PKW", "XC20P", "XC20P")

(* encryption/a256kw-encrypters.ts *)
a256cbcHs512AnonEncrypterX25519WithA256KW == Encrypter("ECDH-ES", "A256KW", "A256CBC-HS512", "A256CBC-HS512")
a256cbcHs512AnonDecrypterX25519WithA256KW == Decrypter("ECDH-ES", "A256KW", "A256CBC-HS512", "A256CBC-HS512")
a256cbcHs512AuthEncrypterX25519WithA256KW == Encrypter("ECDH-1PU", "A256KW", "A256CBC-HS512", "A256CBC-HS512")
a256cbcHs512AuthDecrypterX25519WithA256KW == Decrypter("ECDH-1PU", "A256KW", "A256CBC-HS512", "A256CBC-HS512")
a256gcmAnonEncrypterX25519WithA256KW == Encrypter("ECDH-ES", "A256KW", "A256GCM", "XC20P")
a256gcmAnonDecrypterX25519WithA256KW == Decrypter("ECDH-ES", "A256KW", "A256GCM", "A256GCM")
a256gcmAuthEncrypterEcdh1PuV3x25519WithA256KW == Encrypter("ECDH-1PU", "A256KW", "A256GCM", "A256GCM")
a256gcmAuthDecrypterEcdh1PuV3x25519WithA256KW == Decrypter("ECDH-1PU", "A256KW", "A256GCM", "A256GCM")
xc20pAnonEncrypterX25519WithA256KW == Encrypter("ECDH-ES", "A256KW", "XC20P", "XC20P")
xc20pAnonDecrypterX25519WithA256KW == Decrypter("ECDH-ES", "A256KW", "XC20P", "XC20P")
xc20pAuthEncrypterEcdh1PuV3x25519WithA256KW == Encrypter("ECDH-1PU", "A256KW", "XC20P", "XC20P")
xc20pAuthDecrypterEcdh1PuV3x25519WithA256KW == Decrypter("ECDH-1PU", "A256KW", "XC20P", "XC20P")

-----------------------------------------------------------------------------
\* The algorithm is taken for any packing.
EncrypterForAny(packing, alg, enc) ==
    IF enc \in {"A256GCM", "A256CBC-HS512", "XC20P"} THEN Encrypter(alg[1], alg[2], enc, enc) ELSE NoEncrypter
(* The encrypter of packDIDCommMessageJWE, if there is one *)
EncrypterFor(packing, alg, enc) ==
    CASE <<packing, alg[1], enc>> = <<"authcrypt", "ECDH-1PU", "A256GCM">> ->
           IF alg[2] = "XC20PKW" THEN a256gcmAuthEncrypterEcdh1PuV3x25519WithXC20PKW
           ELSE a256gcmAuthEncrypterEcdh1PuV3x25519WithA256KW
      [] <<packing, alg[1], enc>> = <<"anoncrypt", "ECDH-ES", "A256GCM">> ->
           IF alg[2] = "XC20PKW" THEN a256gcmAnonEncrypterX25519WithXC20PKW
           ELSE a256gcmAnonEncrypterX25519WithA256KW
      [] <<packing, alg[1], enc>> = <<"authcrypt", "ECDH-1PU", "A256CBC-HS512">> ->
           IF alg[2] = "XC20PKW" THEN a256cbcHs512AuthEncrypterX25519WithXC20PKW
           ELSE a256cbcHs512AuthEncrypterX25519WithA256KW
      [] <<packing, alg[1], enc>> = <<"anoncrypt", "ECDH-ES", "A256CBC-HS512">> ->
           IF alg[2] = "XC20PKW" THEN a256cbcHs512AnonEncrypterX25519WithXC20PKW
           ELSE a256cbcHs512AnonEncrypterX25519WithA256KW
      [] <<packing, alg[1], enc>> = <<"authcrypt", "ECDH-1PU", "XC20P">> ->
           IF alg[2] = "XC20PKW" THEN xc20pAuthEncrypterEcdh1PuV3x25519WithXC20PKW
           ELSE xc20pAuthEncrypterEcdh1PuV3x25519WithA256KW
      [] <<packing, alg[1], enc>> = <<"anoncrypt", "ECDH-ES", "XC20P">> ->
           IF alg[2] = "XC20PKW" THEN xc20pAnonEncrypterX25519WithXC20PKW
           ELSE xc20pAnonEncrypterX25519WithA256KW
      [] OTHER -> NoEncrypter

(* The decrypter of unpackDIDCommMessageJWE: whether a message is taken for
   authenticated is decided before, and alone decides between the two kinds. *)
DecrypterFor(as, wrapper, enc) ==
    CASE <<as, enc>> = <<"authcrypt", "A256GCM">> ->
           IF wrapper = "A256KW" THEN a256gcmAuthDecrypterEcdh1PuV3x25519WithA256KW
           ELSE a256gcmAuthDecrypterEcdh1PuV3x25519WithXC20PKW
      [] <<as, enc>> = <<"anoncrypt", "A256GCM">> ->
           IF wrapper = "A256KW" THEN a256gcmAnonDecrypterX25519WithA256KW
           ELSE a256gcmAnonDecrypterX25519WithXC20PKW
      [] <<as, enc>> = <<"authcrypt", "A256CBC-HS512">> ->
           IF wrapper = "A256KW" THEN a256cbcHs512AuthDecrypterX25519WithA256KW
           ELSE a256cbcHs512AuthDecrypterX25519WithXC20PKW
      [] <<as, enc>> = <<"anoncrypt", "A256CBC-HS512">> ->
           IF wrapper = "A256KW" THEN a256cbcHs512AnonDecrypterX25519WithA256KW
           ELSE a256cbcHs512AnonDecrypterX25519WithXC20PKW
      [] <<as, enc>> = <<"authcrypt", "XC20P">> ->
           IF wrapper = "A256KW" THEN xc20pAuthDecrypterEcdh1PuV3x25519WithA256KW
           ELSE xc20pAuthDecrypterEcdh1PuV3x25519WithXC20PKW
      [] <<as, enc>> = <<"anoncrypt", "XC20P">> ->
           IF wrapper = "A256KW" THEN xc20pAnonDecrypterX25519WithA256KW
           ELSE xc20pAnonDecrypterX25519WithXC20PKW
      [] OTHER -> NoDecrypter

-----------------------------------------------------------------------------
CekLength(enc) == IF enc = "A256CBC-HS512" THEN 512 ELSE 256

\* The header names the encrypter's own enc.
HeaderEncAsCalled(e) == e.enc
(* The content cipher writes its own name over the header's. *)
HeaderEnc(e) == e.cipher

\* The header keeps what createJWE put there: the wrapper alone.
HeaderAlgOfWrapper(e) == <<e.wrapper>>
(* encrypt writes the whole algorithm over what createJWE put there. *)
HeaderAlg(e) == Alg(e)

(* encryptCek of one recipient *)
Wrap(e, epk, from, to) == [by |-> e.wrapper, kek |-> Kek(e.creator, epk, from, to, Alg(e))]

(* createJWE: one ephemeral key and one content key for all recipients *)
CanSeal(e) == e # NoEncrypter /\ CekLength(e.enc) = CekLength(e.cipher)
CreateJWE(e, from, tos) ==
    [alg |-> HeaderAlg(e), enc |-> HeaderEnc(e), epk |-> "epk", cipher |-> e.cipher,
     recipients |-> [i \in DOMAIN tos |-> Wrap(e, "epk", from, tos[i])]]

(* decryptJWE tries every recipient of the message with one key. *)
DecryptJWE(jwe, d, mine, from) ==
    /\ d # NoDecrypter /\ jwe.enc = d.enc /\ jwe.alg = Alg(d) /\ jwe.cipher = d.cipher
    /\ \E i \in DOMAIN jwe.recipients :
          jwe.recipients[i] = [by |-> d.wrapper, kek |-> Kek(d.creator, jwe.epk, from, mine, Alg(d))]

=============================================================================
