----------------------------- MODULE Identifiers -----------------------------
(***************************************************************************)
(* The identifiers of an agent and their keys: DIDManager and KeyManager   *)
(* over the JSON stores of identifiers and keys and a local key management *)
(* system.  Every method awaits its stores, the KMS and the provider of    *)
(* the identifier, so calls overlap; one that throws leaves what it did.   *)
(* No store keeps two identifiers from having one alias: only creating one *)
(* looks its alias up first.                                               *)
(*                                                                         *)
(* An identifier is made from a key of its own (as did:key is) and has the *)
(* number of that key.  A provider may throw; what it writes to a ledger   *)
(* is not modelled.  There is one provider.                                *)
(***************************************************************************)
EXTENDS Integers, Sequences, FiniteSets, Functions, SequencesExt, Filters

CONSTANTS
  Callers,      \* the calls that can be running at a time
  Aliases, Services,
  None,         \* no alias, no service
  Operations,   \* the methods the application calls
  Exclusive,    \* whether calls on the same identifier or alias wait for each other
  MaxKeys,      \* bound: keys ever generated
  MaxListed,    \* bound: keys listed by an identifier to which one is added
  MaxFaults     \* bound: awaited calls that throw

Creating == {"create", "getOrCreate", "createKey"}
Updating == {"setAlias", "addKey", "removeKey", "addService", "removeService"}
Methods == Creating \union Updating \union {"import", "delete", "deleteKey"}

ASSUME IdentifiersAssumption ==
  /\ IsFiniteSet(Callers)
  /\ None \notin Aliases \union Services
  /\ Operations \subseteq Methods
  /\ Exclusive \in BOOLEAN
  /\ MaxKeys \in Nat /\ MaxListed \in Nat /\ MaxFaults \in Nat

Kids == 1 .. MaxKeys

\* Services are told apart by their ids; one that is listed twice is in the set once.
\* `unchecked` is a history: the alias was saved without a look at who has it.
Identifier == [alias : Aliases \union {None}, unchecked : BOOLEAN,
               keys : Seq(Kids), services : SUBSET Services]
Blank == [alias |-> None, unchecked |-> FALSE, keys |-> <<>>, services |-> {}]

Call == [op : Methods \union {"none"}, did : Kids \union {0}, key : Kids \union {0},
         name : Aliases \union Services \union {None}]
Stages == {"idle", "lookup", "check", "generate", "list", "read", "save",
           "find", "erase", "unlist", "drop"}
Task == [call : Call, stage : Stages, was : Identifier, left : Seq(Kids)]

Request(op, did, key, name) == [op |-> op, did |-> did, key |-> key, name |-> name]
At(stage, call) == [call |-> call, stage |-> stage, was |-> Blank, left |-> <<>>]
Idle == At("idle", Request("none", 0, 0, None))

VARIABLES
  dids,         \* the DID store: identifiers by number
  keys,         \* the key store
  secrets,      \* the private keys of the KMS
  generated,    \* number of keys generated
  tasks,        \* the running calls
  faults,       \* number of faults
  acknowledged  \* history: DIDManager's calls that succeeded and that none made since undoes

vars == <<dids, keys, secrets, generated, tasks, faults, acknowledged>>

TypeOK ==
  /\ DOMAIN dids \subseteq 1 .. generated
  /\ dids \in [DOMAIN dids -> Identifier]
  /\ keys \subseteq 1 .. generated
  /\ secrets \subseteq 1 .. generated
  /\ generated \in 0 .. MaxKeys
  /\ tasks \in [Callers -> Task]
  /\ faults \in 0 .. MaxFaults
  /\ acknowledged \subseteq Call

Init ==
  /\ dids = <<>>
  /\ keys = {} /\ secrets = {}
  /\ generated = 0
  /\ tasks = [t \in Callers |-> Idle]
  /\ faults = 0
  /\ acknowledged = {}

------------------------------------------------------------------------------
(* Calls                                                                   *)

Running == {t \in Callers : tasks[t].stage # "idle"}

\* Keys that running calls may yet generate, so that MaxKeys holds.
ToGenerate ==
  {t \in Running : tasks[t].call.op \in Creating /\
                   tasks[t].stage \in {"lookup", "check", "generate"}}

\* Whether call c may undo what call a did.
Undoes(c, a) ==
  /\ c.did = a.did
  /\ \/ c.op \in {"delete", "import"}
     \/ a.op = "delete"
     \/ {c.op, a.op} = {"addService", "removeService"} /\ c.name = a.name
     \/ {c.op, a.op} = {"addKey", "removeKey"} /\ c.key = a.key
     \/ c.op = "setAlias" /\ a.op = "setAlias" /\ c.name # a.name

SetsAlias(c) == c.op \in {"create", "getOrCreate", "setAlias", "import"} /\ c.name # None
Touches(c) == {c.did, c.key} \ {0}
Conflict(c, d) ==
  \/ Touches(c) \intersect Touches(d) # {}
  \/ SetsAlias(c) /\ SetsAlias(d) /\ c.name = d.name

FirstStage(c) ==
  IF c.op = "getOrCreate" THEN "lookup"
  ELSE IF c.op = "create" /\ c.name # None THEN "check"
  ELSE IF c.op \in {"create", "createKey", "import"} THEN "generate"
  ELSE IF c.op = "deleteKey" THEN "find" ELSE "read"

Begin(t, c) ==
  /\ c.op \in Operations
  /\ tasks[t] = Idle
  /\ c.op \in Creating => generated + Cardinality(ToGenerate) < MaxKeys
  /\ c.op = "addKey" => Len(dids[c.did].keys) < MaxListed
  /\ Exclusive => \A u \in Running : ~Conflict(c, tasks[u].call)
  /\ tasks' = [tasks EXCEPT ![t] =
       [At(FirstStage(c), c) EXCEPT !.left = IF c.op = "deleteKey" THEN <<c.key>> ELSE <<>>]]
  /\ acknowledged' = {a \in acknowledged : ~Undoes(c, a)}
  /\ UNCHANGED <<dids, keys, secrets, generated, faults>>

\* What the application may ask for: identifiers it has, keys that are listed,
\* and the import of an identifier under any alias or none, with the key that it
\* was created with.
BeginAny(t) ==
  \/ \E a \in Aliases \union {None} : Begin(t, Request("create", 0, 0, a))
  \/ \E a \in Aliases : Begin(t, Request("getOrCreate", 0, 0, a))
  \/ Begin(t, Request("createKey", 0, 0, None))
  \/ \E d \in 1 .. generated, a \in Aliases \union {None} : Begin(t, Request("import", d, 0, a))
  \/ \E d \in DOMAIN dids, a \in Aliases : Begin(t, Request("setAlias", d, 0, a))
  \/ \E d \in DOMAIN dids, k \in keys : Begin(t, Request("addKey", d, k, None))
  \/ \E d \in DOMAIN dids : \E k \in ToSet(dids[d].keys) : Begin(t, Request("removeKey", d, k, None))
  \/ \E d \in DOMAIN dids, s \in Services, op \in {"addService", "removeService"} :
       Begin(t, Request(op, d, 0, s))
  \/ \E k \in keys : Begin(t, Request("deleteKey", 0, k, None))

BeginDelete(t, d) == d \in DOMAIN dids /\ Begin(t, Request("delete", d, 0, None))

GoTo(t, stage) == tasks' = [tasks EXCEPT ![t].stage = stage]

\* The method rejects because of what it found.
Reject(t) ==
  /\ tasks' = [tasks EXCEPT ![t] = Idle]
  /\ UNCHANGED <<faults, acknowledged>>

Throw(t) ==
  /\ faults < MaxFaults
  /\ faults' = faults + 1
  /\ tasks' = [tasks EXCEPT ![t] = Idle]
  /\ UNCHANGED acknowledged

\* Call c succeeds, or its last awaited call throws after it took effect.
Finish(t, c) ==
  \/ /\ tasks' = [tasks EXCEPT ![t] = Idle]
     /\ acknowledged' = acknowledged \union
          {a \in {c} : /\ c.op \notin {"createKey", "deleteKey"}
                      /\ \A u \in Running \ {t} : ~Undoes(tasks[u].call, c)}
     /\ UNCHANGED faults
  \/ Throw(t)

\* An awaited call throws, other than those of Swallow.
Fail(t) ==
  /\ tasks[t].stage \notin {"idle", "lookup", "check"}
  /\ Throw(t)
  /\ UNCHANGED <<dids, keys, secrets, generated>>

\* What getDID throws on looking an alias up is taken for there being none.
Swallow(t) ==
  /\ faults < MaxFaults
  /\ faults' = faults + 1
  /\ \/ tasks[t].stage = "lookup" /\ GoTo(t, "check")
     \/ /\ tasks[t].stage = "check"
        /\ tasks' = [tasks EXCEPT ![t].stage = "generate", ![t].was.unchecked = TRUE]
  /\ UNCHANGED <<dids, keys, secrets, generated, acknowledged>>

------------------------------------------------------------------------------
(* Creating and importing                                                  *)

WithAlias(a) == {d \in DOMAIN dids : dids[d].alias = a}

\* didManagerGetOrCreate
LookUp(t) ==
  LET c == tasks[t].call IN
  /\ tasks[t].stage = "lookup"
  /\ \/ \E d \in WithAlias(c.name) : Finish(t, [c EXCEPT !.did = d])
     \/ WithAlias(c.name) = {} /\ GoTo(t, "check") /\ UNCHANGED <<faults, acknowledged>>
  /\ UNCHANGED <<dids, keys, secrets, generated>>

\* The alias is not looked up before the identifier is created.
CheckNoAlias(t) ==
  /\ tasks[t].stage = "check"
  /\ GoTo(t, "generate")
  /\ UNCHANGED <<dids, keys, secrets, generated, faults, acknowledged>>

\* didManagerCreate, up to the provider
CheckAlias(t) ==
  /\ tasks[t].stage = "check"
  /\ IF WithAlias(tasks[t].call.name) # {}
     THEN Reject(t)
     ELSE GoTo(t, "generate") /\ UNCHANGED <<faults, acknowledged>>
  /\ UNCHANGED <<dids, keys, secrets, generated>>

\* A key under a number that is given to the next one too.
GenerateUncounted(t) ==
  /\ tasks[t].stage = "generate"
  /\ secrets' = secrets \union {generated + 1}
  /\ tasks' = [tasks EXCEPT ![t].call.did = generated + 1, ![t].stage = "list"]
  /\ UNCHANGED <<dids, keys, generated, faults, acknowledged>>

\* createKey of the KMS, or its importKey
Generate(t) ==
  LET c == tasks[t].call
      k == IF c.op = "import" THEN c.did ELSE generated + 1 IN
  /\ tasks[t].stage = "generate"
  /\ secrets' = secrets \union {k}
  /\ generated' = IF c.op = "import" THEN generated ELSE k
  /\ tasks' = [tasks EXCEPT ![t].call.did = k, ![t].stage = "list"]
  /\ UNCHANGED <<dids, keys, faults, acknowledged>>

\* The services of an identifier before it is saved for the first time: an import
\* brings its own.
Brought(c) == IF c.op = "import" THEN SUBSET Services ELSE {{}}

\* importKey of the key store, the end of keyManagerCreate and keyManagerImport
List(t) ==
  LET c == tasks[t].call IN
  /\ tasks[t].stage = "list"
  /\ keys' = keys \union {c.did}
  /\ IF c.op = "createKey" THEN Finish(t, c)
     ELSE /\ \E services \in Brought(c) :
               tasks' = [tasks EXCEPT ![t].stage = "save",
                          ![t].was = [@ EXCEPT !.keys = <<c.did>>, !.services = services]]
          /\ UNCHANGED <<faults, acknowledged>>
  /\ UNCHANGED <<dids, secrets, generated>>

------------------------------------------------------------------------------
(* Updating                                                                *)

\* setAlias writes an identifier with nothing but the alias.
UpdatedAliasOnly(c, was) ==
  IF c.op = "setAlias" THEN [Blank EXCEPT !.alias = c.name]
  ELSE IF c.op = "addService" THEN [was EXCEPT !.services = @ \union {c.name}]
  ELSE IF c.op = "removeService" THEN [was EXCEPT !.services = @ \ {c.name}]
  ELSE was

\* removeKey keeps the key it should remove and drops the others.
UpdatedFilterInverted(c, was) ==
  CASE c.op = "addKey"    -> [was EXCEPT !.keys = Append(@, c.key)]
    [] c.op = "removeKey" -> [was EXCEPT !.keys = SelectSeq(@, LAMBDA k : k = c.key)]
    [] OTHER              -> was

\* The copy that getDID returned, or what is new, as the method changes it.
Updated(c, was) ==
  CASE c.op \in {"create", "getOrCreate"} -> [was EXCEPT !.alias = c.name]
    [] c.op \in {"setAlias", "import"} -> [was EXCEPT !.alias = c.name, !.unchecked = TRUE]
    [] c.op = "addKey"        -> [was EXCEPT !.keys = Append(@, c.key)]
    [] c.op = "removeKey"     -> [was EXCEPT !.keys = Without(@, {c.key})]
    [] c.op = "addService"    -> [was EXCEPT !.services = @ \union {c.name}]
    [] c.op = "removeService" -> [was EXCEPT !.services = @ \ {c.name}]
    [] OTHER                  -> was

\* importDID, which lists the identifier's keys too
Save(t) ==
  LET c == tasks[t].call
      identifier == Updated(c, tasks[t].was) IN
  /\ tasks[t].stage = "save"
  /\ dids' = [d \in DOMAIN dids \union {c.did} |-> IF d = c.did THEN identifier ELSE dids[d]]
  /\ keys' = keys \union ToSet(identifier.keys)
  /\ Finish(t, c)
  /\ UNCHANGED <<secrets, generated>>

AfterKey(left) == IF left = <<>> THEN "drop" ELSE "find"

\* getDID
Read(t) ==
  LET d == tasks[t].call.did IN
  /\ tasks[t].stage = "read"
  /\ IF d \notin DOMAIN dids THEN Reject(t)
     ELSE /\ tasks' = [tasks EXCEPT ![t] =
               IF tasks[t].call.op = "delete"
               THEN [@ EXCEPT !.left = dids[d].keys, !.stage = AfterKey(dids[d].keys)]
               ELSE [@ EXCEPT !.was = dids[d], !.stage = "save"]]
          /\ UNCHANGED <<faults, acknowledged>>
  /\ UNCHANGED <<dids, keys, secrets, generated>>

------------------------------------------------------------------------------
(* Deleting                                                                *)

\* keyManagerDelete: getKey throws if the key is not listed
Find(t) ==
  /\ tasks[t].stage = "find"
  /\ IF Head(tasks[t].left) \notin keys THEN Reject(t)
     ELSE GoTo(t, "erase") /\ UNCHANGED <<faults, acknowledged>>
  /\ UNCHANGED <<dids, keys, secrets, generated>>

\* The private key stays in the KMS.
EraseNothing(t) ==
  /\ tasks[t].stage = "erase"
  /\ GoTo(t, "unlist")
  /\ UNCHANGED <<dids, keys, secrets, generated, faults, acknowledged>>

\* deleteKey of the KMS
Erase(t) ==
  /\ tasks[t].stage = "erase"
  /\ secrets' = secrets \ {Head(tasks[t].left)}
  /\ GoTo(t, "unlist")
  /\ UNCHANGED <<dids, keys, generated, faults, acknowledged>>

\* The loop over the keys does not advance.
UnlistAgain(t) ==
  /\ tasks[t].stage = "unlist"
  /\ keys' = keys \ {Head(tasks[t].left)}
  /\ GoTo(t, "find")
  /\ UNCHANGED <<dids, secrets, generated, faults, acknowledged>>

\* deleteKey of the key store
Unlist(t) ==
  LET left == Tail(tasks[t].left) IN
  /\ tasks[t].stage = "unlist"
  /\ keys' = keys \ {Head(tasks[t].left)}
  /\ IF tasks[t].call.op = "deleteKey" THEN Finish(t, tasks[t].call)
     ELSE /\ tasks' = [tasks EXCEPT ![t].left = left, ![t].stage = AfterKey(left)]
          /\ UNCHANGED <<faults, acknowledged>>
  /\ UNCHANGED <<dids, secrets, generated>>

\* deleteDID
Drop(t) ==
  /\ tasks[t].stage = "drop"
  /\ dids' = Restrict(dids, DOMAIN dids \ {tasks[t].call.did})
  /\ Finish(t, tasks[t].call)
  /\ UNCHANGED <<keys, secrets, generated>>

------------------------------------------------------------------------------

Step(t) ==
  \/ LookUp(t) \/ CheckAlias(t) \/ Generate(t) \/ List(t)
  \/ Read(t) \/ Save(t)
  \/ Find(t) \/ Erase(t) \/ Unlist(t) \/ Drop(t)

Next == \E t \in Callers :
  \/ BeginAny(t)
  \/ \E d \in DOMAIN dids : BeginDelete(t, d)
  \/ Step(t)
  \/ Fail(t) \/ Swallow(t)

Spec == Init /\ [][Next]_vars

\* Calls come to an end, and the application asks again for what is not yet
\* deleted.
Fairness ==
  /\ \A t \in Callers : WF_vars(Step(t))
  /\ \A d \in Kids : SF_vars(\E t \in Callers : BeginDelete(t, d))

FairSpec == Spec /\ Fairness

------------------------------------------------------------------------------
(* Properties                                                              *)

Stored(d) == d \in DOMAIN dids

\* What call a promised when it succeeded.
Holds(a) ==
  CASE a.op = "setAlias"      -> Stored(a.did) /\ dids[a.did].alias = a.name
    [] a.op = "addKey"        -> Stored(a.did) /\ a.key \in ToSet(dids[a.did].keys)
    [] a.op = "removeKey"     -> Stored(a.did) /\ a.key \notin ToSet(dids[a.did].keys)
    [] a.op = "addService"    -> Stored(a.did) /\ a.name \in dids[a.did].services
    [] a.op = "removeService" -> Stored(a.did) /\ a.name \notin dids[a.did].services
    [] a.op = "delete"        -> ~Stored(a.did)
    [] OTHER                  -> Stored(a.did)

(***************************************************************************)
(* What DIDManager acknowledged is not lost again: the aliases, keys and   *)
(* services set, added and removed, the identifiers created and deleted.   *)
(***************************************************************************)
AcknowledgedUpdatesStay == \A a \in acknowledged : Holds(a)

(***************************************************************************)
(* An identifier is created under an alias only while none has it, so that *)
(* didManagerGetOrCreate makes one for all who ask: of two identifiers     *)
(* under an alias one was given it by didManagerSetAlias or                *)
(* didManagerImport, or by a creation whose look-up failed.                *)
(***************************************************************************)
OneIdentifierPerAlias ==
  \A d, e \in DOMAIN dids :
    dids[d].alias = dids[e].alias /\ dids[d].alias # None /\ d # e =>
      dids[d].unchecked \/ dids[e].unchecked

(***************************************************************************)
(* Key store and KMS agree but for the keys that a running call is just    *)
(* creating or deleting, and an identifier's keys can be used until its    *)
(* deletion begins.                                                        *)
(***************************************************************************)
StoresAgree ==
  /\ \A k \in keys \ secrets : \E t \in Running : tasks[t].stage = "unlist" /\ Head(tasks[t].left) = k
  /\ \A k \in secrets \ keys : \E t \in Running : tasks[t].stage = "list" /\ tasks[t].call.did = k
  /\ \A d \in DOMAIN dids : ToSet(dids[d].keys) \subseteq keys \intersect secrets
       \/ \E t \in Running : tasks[t].call.op \in {"delete", "import"} /\ tasks[t].call.did = d

(***************************************************************************)
(* Key store and KMS agree, no two identifiers are created under one       *)
(* alias, and what the DID manager acknowledged stays, as long as calls on *)
(* the same identifier or alias wait for each other.                       *)
(***************************************************************************)
IdentifiersAreSound == StoresAgree /\ OneIdentifierPerAlias /\ AcknowledgedUpdatesStay

(***************************************************************************)
(* An identifier whose deletion an application keeps asking for goes.      *)
(***************************************************************************)
DeletionCompletes == \A d \in Kids : Stored(d) ~> ~Stored(d)

==============================================================================
