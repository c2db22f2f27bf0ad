---------------------------- MODULE PrivateKeys ----------------------------
(***************************************************************************)
(* The store of private keys with a SecretBox: PrivateKeyStoreJson of      *)
(* data-store-json, which works on the objects it keeps (InPlace), and     *)
(* PrivateKeyStore of data-store, which works on what the database returns.*)
(* A method goes on after each await with what it has read before.         *)
(***************************************************************************)
EXTENDS Naturals, Sequences, FiniteSets, SequencesExt

CONSTANTS
  Aliases, Secrets,
  NoSecret,    \* the empty text
  Callers,
  InPlace,     \* TRUE for the JSON store
  Exclusive,   \* whether the imports under an alias wait for each other
  MaxWrites,   \* bound: entries ever stored
  MaxFaults    \* bound: encryptions and writes that fail

PrivateKeysAssumption ==
  /\ NoSecret \notin Secrets
  /\ InPlace \in BOOLEAN /\ Exclusive \in BOOLEAN
  /\ MaxWrites \in Nat /\ MaxFaults \in Nat

VARIABLES
  entries,   \* alias -> entry, an object of its own identity
  calls,     \* the running calls
  writes, faults,
  imported   \* history: the secrets acknowledged for an alias since it was deleted

vars == <<entries, calls, writes, faults, imported>>

\* A text is a secret, in clear or encrypted.
Text == [secret : Secrets \union {NoSecret}, clear : BOOLEAN]
Entry == [object : 0 .. MaxWrites, text : Text]
NoEntry == [object |-> 0, text |-> [secret |-> NoSecret, clear |-> TRUE]]

Stages == {"idle", "existing", "compared", "encrypted", "listing"}
Call == [stage : Stages, alias : Aliases \union {NoSecret}, secret : Secrets \union {NoSecret},
         entry : Entry, left : SUBSET (Aliases \X (0 .. MaxWrites))]
Idle == [stage |-> "idle", alias |-> NoSecret, secret |-> NoSecret, entry |-> NoEntry, left |-> {}]

TypeOK ==
  /\ entries \in [Aliases -> Entry]
  /\ calls \in [Callers -> Call]
  /\ writes \in 0 .. MaxWrites /\ faults \in 0 .. MaxFaults
  /\ imported \in [Aliases -> SUBSET Secrets]

Init ==
  /\ entries = [a \in Aliases |-> NoEntry]
  /\ calls = [c \in Callers |-> Idle]
  /\ writes = 0 /\ faults = 0
  /\ imported = [a \in Aliases |-> {}]

\* Decrypting a text that is in clear does not authenticate: it gives nothing.
Decrypt(text) ==
  [secret |-> IF text.clear THEN NoSecret ELSE text.secret, clear |-> TRUE]
Encrypt(secret) == [secret |-> secret, clear |-> FALSE]

Has(a) == entries[a] # NoEntry

\* Assigning to the object that was read changes the store if it is kept there.
Assign(a, entry, text) ==
  IF InPlace /\ entries[a].object = entry.object
  THEN [entries EXCEPT ![a].text = text] ELSE entries

Return(c) == calls' = [calls EXCEPT ![c] = Idle]

------------------------------------------------------------------------------
(* importKey                                                               *)

Import(c, a, s) ==
  /\ calls[c] = Idle
  /\ Exclusive => \A d \in Callers : calls[d].alias # a
  /\ writes + Cardinality({d \in Callers : calls[d].secret # NoSecret}) < MaxWrites
  /\ calls' = [calls EXCEPT ![c] =
       [Idle EXCEPT !.stage = IF Has(a) THEN "existing" ELSE "compared",
                    !.alias = a, !.secret = s, !.entry = entries[a]]]
  /\ UNCHANGED <<entries, writes, faults, imported>>

\* An import over an existing key replaces it.
CompareNothing(c) ==
  /\ calls[c].stage = "existing"
  /\ calls' = [calls EXCEPT ![c].stage = "compared"]
  /\ UNCHANGED <<entries, writes, faults, imported>>

\* The existing key is decrypted and must be the same; what is empty cannot
\* be decrypted.
Compare(c) ==
  LET e == calls[c].entry
      text == Decrypt(e.text) IN
  /\ calls[c].stage = "existing"
  /\ entries' = IF e.text.secret = NoSecret THEN entries ELSE Assign(calls[c].alias, e, text)
  /\ IF text.secret = calls[c].secret
     THEN calls' = [calls EXCEPT ![c].stage = "compared"]
     ELSE Return(c)
  /\ UNCHANGED <<writes, faults, imported>>

\* The secret is encrypted; the box may refuse.
Seal(c) ==
  /\ calls[c].stage = "compared"
  /\ \/ calls' = [calls EXCEPT ![c].stage = "encrypted"] /\ UNCHANGED faults
     \/ faults < MaxFaults /\ faults' = faults + 1 /\ Return(c)
  /\ UNCHANGED <<entries, writes, imported>>

\* Persisting may fail: the JSON store has changed by then, the database has not.
Store(c) ==
  LET a == calls[c].alias
      entry == [object |-> writes + 1, text |-> Encrypt(calls[c].secret)] IN
  /\ calls[c].stage = "encrypted"
  /\ writes' = writes + 1
  /\ \/ /\ entries' = [entries EXCEPT ![a] = entry]
        /\ imported' = [imported EXCEPT ![a] = @ \union {calls[c].secret}]
        /\ UNCHANGED faults
     \/ /\ faults < MaxFaults /\ faults' = faults + 1
        /\ entries' = IF InPlace THEN [entries EXCEPT ![a] = entry] ELSE entries
        /\ UNCHANGED imported
  /\ Return(c)

------------------------------------------------------------------------------
(* listKeys and deleteKey                                                  *)

List(c) ==
  LET found == {<<a, entries[a].object>> : a \in {b \in Aliases : Has(b)}} IN
  /\ calls[c] = Idle
  /\ found # {}
  /\ calls' = [calls EXCEPT ![c] = [Idle EXCEPT !.stage = "listing", !.left = found]]
  /\ UNCHANGED <<entries, writes, faults, imported>>

\* The keys found are decrypted one by one; an empty text makes the listing throw.
ListNext(c) ==
  /\ calls[c].stage = "listing"
  /\ \E found \in calls[c].left :
       LET a == found[1]
           kept == entries[a].object = found[2] IN
       /\ entries' = IF kept THEN Assign(a, entries[a], Decrypt(entries[a].text)) ELSE entries
       /\ IF calls[c].left = {found} \/ (kept /\ entries[a].text.secret = NoSecret)
          THEN Return(c)
          ELSE calls' = [calls EXCEPT ![c].left = @ \ {found}]
  /\ UNCHANGED <<writes, faults, imported>>

Delete(c, a) ==
  /\ calls[c] = Idle
  /\ Exclusive => \A d \in Callers : calls[d].alias # a
  /\ Has(a)
  /\ entries' = [entries EXCEPT ![a] = NoEntry]
  /\ imported' = [imported EXCEPT ![a] = {}]
  /\ UNCHANGED <<calls, writes, faults>>

------------------------------------------------------------------------------

Next == \E c \in Callers :
  \/ \E a \in Aliases, s \in Secrets : Import(c, a, s)
  \/ \E a \in Aliases : Delete(c, a)
  \/ Compare(c) \/ Seal(c) \/ Store(c)
  \/ List(c) \/ ListNext(c)

Spec == Init /\ [][Next]_vars

------------------------------------------------------------------------------
(* Properties                                                              *)

\* What getKey returns for an alias.
Got(a) == Decrypt(entries[a].text).secret

(***************************************************************************)
(* Every import that was acknowledged can be read back until the key is    *)
(* deleted: neither a later import of another key under the alias, which   *)
(* is refused, nor one that fails, nor a listing makes another key of it.  *)
(***************************************************************************)
ImportedKeysAreKept == \A a \in Aliases : \A s \in imported[a] : Got(a) = s

(***************************************************************************)
(* The documentation of the JSON store: with a SecretBox `key material is  *)
(* encrypted, even in memory`.                                             *)
(***************************************************************************)
EncryptedInMemory == \A a \in Aliases : Has(a) => ~entries[a].text.clear

=============================================================================
