------------------------- MODULE Identifiers_proofs -------------------------
(***************************************************************************)
(* Proofs about Identifiers, for every set of callers, aliases and         *)
(* services and every bound: when calls on the same identifier or alias    *)
(* wait for each other, what DIDManager acknowledges stays, an alias names *)
(* one identifier, and the stores agree.                                   *)
(* At the end, about components that keep the keys of identifiers:         *)
(* IonRotation, those of a did:ion, PrivateKeys, the private ones,         *)
(* EthrProvider, what the registry has of a did:ethr, and KeyManager, what *)
(* each key can be used for.                                               *)
(***************************************************************************)
EXTENDS DataKeys, Filters_proofs

------------------------------------------------------------------------------
(* The inductive invariants                                                *)

Made == {"create", "getOrCreate"}

\* The methods that give an identifier an alias without a look at who has it.
Unlooked == {"setAlias", "import"}
InProgress(t) == tasks[t].stage # "idle"

\* The method's arguments are of its kind.
NameFits(c) ==
  /\ c.op \in Made \union Unlooked => c.name \in Aliases \union {None}
  /\ c.op = "addService" => c.name \in Services
  /\ c.op = "addKey" => c.key # 0

\* Which methods pass through which stages, and what they know there.
Fits(task) ==
  LET c == task.call IN
  /\ c.op \in Operations \intersect Methods
  /\ c.did \in 0 .. generated /\ c.key \in 0 .. generated
  /\ task.stage # "save" => task.was \in {Blank, [Blank EXCEPT !.unchecked = TRUE]}
  /\ task.stage = "lookup" => c.op = "getOrCreate" /\ c.did = 0
  /\ task.stage = "check" => c.op \in Made /\ c.did = 0
  /\ task.stage = "generate" => \/ c.op = "import" /\ c.did # 0
                                \/ c.op \in Creating /\ c.did = 0
  /\ task.stage = "list" => c.op \in Creating \union {"import"} /\ c.did # 0
  /\ task.stage = "save" => c.op \in Made \union {"import"} \union Updating /\ c.did # 0
  /\ task.stage = "read" => c.op \in Updating \union {"delete"} /\ c.did # 0
  /\ task.stage \in {"find", "erase", "unlist"} =>
       c.op \in {"delete", "deleteKey"} /\ task.left # <<>>
  /\ task.stage = "drop" => c.op = "delete"
  /\ c.op \in Updating \union {"delete"} => c.did # 0
  /\ c.op = "deleteKey" => c.did = 0 /\ c.key # 0 /\ task.left = <<c.key>>
  /\ NameFits(c)

StagesFit == \A t \in Callers : InProgress(t) => Fits(tasks[t])

\* Calls in progress keep out of each other's way.
CallsAreDisjoint ==
  \A t, u \in Callers : InProgress(t) /\ InProgress(u) /\ t # u =>
    ~Conflict(tasks[t].call, tasks[u].call)

\* What an update writes back is what the store holds still; what is new is in
\* no store and nothing has been acknowledged about it.
CopiesAreCurrent ==
  \A t \in Callers :
    LET c == tasks[t].call IN
    /\ tasks[t].stage = "save" /\ c.op \in Updating => Stored(c.did) /\ tasks[t].was = dids[c.did]
    /\ tasks[t].stage = "save" /\ c.op \notin Updating => tasks[t].was.keys = <<c.did>>
    /\ tasks[t].stage \in {"list", "save"} /\ c.op \in Made =>
         ~Stored(c.did) /\ \A a \in acknowledged : a.did # c.did

\* Nothing that is acknowledged is being undone.
NothingIsUndone ==
  /\ \A a \in acknowledged : a.did \in 1 .. generated /\ a.op \in Methods \ {"createKey", "deleteKey"}
  /\ \A a \in acknowledged, t \in Callers : InProgress(t) => ~Undoes(tasks[t].call, a)

KeysWereGenerated == \A d \in DOMAIN dids : ToSet(dids[d].keys) \subseteq 1 .. generated

\* There is room for the keys that calls in progress may generate.
RoomIsLeft == generated + Cardinality(ToGenerate) <= MaxKeys

KeepsInv ==
  /\ TypeOK
  /\ RoomIsLeft
  /\ KeysWereGenerated
  /\ StagesFit
  /\ CallsAreDisjoint
  /\ CopiesAreCurrent
  /\ NothingIsUndone
  /\ AcknowledgedUpdatesStay

\* An alias that a call has found free stays free until the call saves it.
AliasesAreFree ==
  \A t \in Callers :
    tasks[t].stage \in {"generate", "list", "save"} /\ tasks[t].call.op \in Made
      /\ tasks[t].call.name # None /\ ~tasks[t].was.unchecked => WithAlias(tasks[t].call.name) = {}

AliasInv == KeepsInv /\ AliasesAreFree /\ OneIdentifierPerAlias

\* An identifier has its own key or none.
Own(d, s) == s \in {<<>>, <<d>>}

\* Which keys a call in progress has created or deleted so far.
KeysFollow ==
  \A t \in Callers :
    LET d == tasks[t].call.did
        stage == tasks[t].stage
        op == tasks[t].call.op IN
    /\ op = "removeKey" => tasks[t].call.key = d
    /\ stage = "list" => d \in secrets
    /\ stage = "save" => Own(d, tasks[t].was.keys) /\ ToSet(tasks[t].was.keys) \subseteq keys \intersect secrets
    /\ stage \in {"find", "erase", "unlist"} => tasks[t].left = <<d>>
    /\ stage \in {"find", "erase"} => d \in keys \intersect secrets
    /\ stage = "unlist" => d \notin secrets
    /\ stage \in {"find", "erase", "unlist", "drop"} => op = "delete" /\ Stored(d)

\* An identifier's keys are there, but for those that a deletion has erased.
KeysAreThere ==
  \A d \in DOMAIN dids :
    /\ Own(d, dids[d].keys)
    /\ ToSet(dids[d].keys) \subseteq keys \intersect secrets
         \/ \E t \in Running : /\ tasks[t].call.op = "delete" /\ tasks[t].call.did = d
                               /\ tasks[t].stage \in {"unlist", "drop"}

StoresInv == KeepsInv /\ KeysFollow /\ KeysAreThere /\ StoresAgree

------------------------------------------------------------------------------
(* Steps                                                                   *)

\* What the task of caller t is after a step, all others staying what they are.
Becomes(t, call, stage, was, left) ==
  /\ tasks'[t].call = call /\ tasks'[t].stage = stage
  /\ tasks'[t].was = was /\ tasks'[t].left = left
  /\ tasks' \in [Callers -> Task]
  /\ \A u \in Callers : u # t => tasks'[u] = tasks[u]

\* The call of t ends, and `acknowledged` may have call c in addition.
Ends(t, c) ==
  /\ tasks'[t] = Idle
  /\ tasks' \in [Callers -> Task]
  /\ \A u \in Callers : u # t => tasks'[u] = tasks[u]
  /\ faults' \in 0 .. MaxFaults
  /\ \/ acknowledged' = acknowledged
     \/ /\ acknowledged' = acknowledged \union {c}
        /\ c.op \notin {"createKey", "deleteKey"}
        /\ \A u \in Running \ {t} : ~Undoes(tasks[u].call, c)

\* What the application asks for.
Asked(c) ==
  /\ c \in Call /\ c.op \in Methods
  /\ c.did \in 0 .. generated /\ c.key \in 0 .. generated
  /\ c.op \in Creating => c.did = 0 /\ c.key = 0
  /\ c.op = "import" => c.did # 0 /\ c.key = 0
  /\ c.op \in Updating \union {"delete"} => Stored(c.did)
  /\ c.op = "removeKey" => c.key \in ToSet(dids[c.did].keys)
  /\ c.op = "deleteKey" => c.did = 0 /\ c.key # 0
  /\ NameFits(c)

LEMMA BlankType == Blank \in Identifier /\ Idle \in Task /\ Idle.stage = "idle"
<1>1. Blank \in Identifier
  BY DEF Blank, Identifier
<1>2. QED
  BY <1>1 DEF Idle, At, Request, Task, Call, Stages

LEMMA TaskFields ==
  ASSUME TypeOK, NEW t \in Callers
  PROVE  /\ tasks[t] \in Task /\ tasks[t].call \in Call /\ tasks[t].stage \in Stages
         /\ tasks[t].was \in Identifier /\ tasks[t].left \in Seq(Kids)
         /\ InProgress(t) <=> t \in Running
         /\ tasks[t] = Idle => ~InProgress(t)
<1>1. tasks[t] \in Task
  BY DEF TypeOK
<1>2. QED
  BY <1>1, BlankType DEF Task, InProgress, Running

\* Replacing a task.
LEMMA Replaced ==
  ASSUME TypeOK, NEW t \in Callers,
         NEW call \in Call, NEW stage \in Stages, NEW was \in Identifier, NEW left \in Seq(Kids),
         tasks' = [tasks EXCEPT ![t] = [call |-> call, stage |-> stage, was |-> was, left |-> left]]
  PROVE  Becomes(t, call, stage, was, left)
<1> DEFINE new == [call |-> call, stage |-> stage, was |-> was, left |-> left]
<1>1. new \in Task
  BY DEF Task
<1>2. new.call = call /\ new.stage = stage /\ new.was = was /\ new.left = left
  OBVIOUS
<1> HIDE DEF new
<1>3. tasks'[t] = new /\ \A u \in Callers : u # t => tasks'[u] = tasks[u]
  BY DEF TypeOK, new
<1>4. tasks' \in [Callers -> Task]
  BY <1>1 DEF TypeOK, new
<1>5. QED BY <1>2, <1>3, <1>4 DEF Becomes

LEMMA GoesTo ==
  ASSUME TypeOK, NEW t \in Callers, NEW stage \in Stages, GoTo(t, stage)
  PROVE  Becomes(t, tasks[t].call, stage, tasks[t].was, tasks[t].left)
<1>1. [tasks[t] EXCEPT !.stage = stage]
        = [call |-> tasks[t].call, stage |-> stage, was |-> tasks[t].was, left |-> tasks[t].left]
  BY TaskFields DEF Task
<1>2. tasks' = [tasks EXCEPT ![t] = [tasks[t] EXCEPT !.stage = stage]]
  BY DEF GoTo, TypeOK
<1>3. QED BY <1>1, <1>2, TaskFields, Replaced

LEMMA EndsIdle ==
  ASSUME TypeOK, NEW t \in Callers, tasks' = [tasks EXCEPT ![t] = Idle]
  PROVE  /\ tasks'[t] = Idle
         /\ tasks' \in [Callers -> Task]
         /\ \A u \in Callers : u # t => tasks'[u] = tasks[u]
  BY BlankType DEF TypeOK

LEMMA Throws ==
  ASSUME TypeOK, NEW t \in Callers, NEW c, Throw(t)
  PROVE  Ends(t, c) /\ acknowledged' = acknowledged
<1>1. faults' \in 0 .. MaxFaults
  BY IdentifiersAssumption DEF Throw, TypeOK, IdentifiersAssumption
<1>2. QED BY <1>1, EndsIdle DEF Throw, Ends

LEMMA Rejects ==
  ASSUME TypeOK, NEW t \in Callers, NEW c, Reject(t)
  PROVE  Ends(t, c) /\ acknowledged' = acknowledged
  BY EndsIdle DEF Reject, Ends, TypeOK

LEMMA Finishes ==
  ASSUME TypeOK, NEW t \in Callers, NEW c, Finish(t, c)
  PROVE  Ends(t, c)
<1>1. CASE Throw(t)
  BY <1>1, Throws
<1>2. CASE ~Throw(t)
  <2>1. /\ tasks' = [tasks EXCEPT ![t] = Idle]
        /\ acknowledged' = acknowledged \union
             {a \in {c} : /\ c.op \notin {"createKey", "deleteKey"}
                         /\ \A u \in Running \ {t} : ~Undoes(tasks[u].call, c)}
        /\ faults' = faults
    BY <1>2 DEF Finish
  <2>2. \/ acknowledged' = acknowledged
        \/ /\ acknowledged' = acknowledged \union {c}
           /\ c.op \notin {"createKey", "deleteKey"}
           /\ \A u \in Running \ {t} : ~Undoes(tasks[u].call, c)
    BY <2>1
  <2>3. QED BY <2>1, <2>2, EndsIdle DEF Ends, TypeOK
<1>3. QED BY <1>1, <1>2

\* A call begins.
Begins(t, c) ==
  /\ Asked(c) /\ c.op \in Operations /\ ~InProgress(t)
  /\ c.op \in Creating => generated + Cardinality(ToGenerate) < MaxKeys
  /\ Exclusive => \A u \in Running : ~Conflict(c, tasks[u].call)
  /\ Becomes(t, c, FirstStage(c), Blank, IF c.op = "deleteKey" THEN <<c.key>> ELSE <<>>)
  /\ acknowledged' = {a \in acknowledged : ~Undoes(c, a)}
  /\ UNCHANGED <<dids, keys, secrets, generated, faults>>

LEMMA Beginning ==
  ASSUME TypeOK, NEW t \in Callers, NEW c, Asked(c), Begin(t, c)
  PROVE  Begins(t, c)
<1> DEFINE left == IF c.op = "deleteKey" THEN <<c.key>> ELSE <<>>
<1>1. c \in Call /\ FirstStage(c) \in Stages /\ Blank \in Identifier
  BY BlankType DEF Asked, FirstStage, Stages
<1>2. left \in Seq(Kids)
  <2>1. c.op = "deleteKey" => c.key \in Kids
    BY <1>1 DEF Asked, Call
  <2>2. CASE c.op = "deleteKey"
    BY <2>1, <2>2
  <2>3. CASE c.op # "deleteKey"
    BY <2>3
  <2>4. QED BY <2>2, <2>3
<1> HIDE DEF left
<1>3. [At(FirstStage(c), c) EXCEPT !.left = left]
        = [call |-> c, stage |-> FirstStage(c), was |-> Blank, left |-> left]
  BY DEF At
<1>4. Becomes(t, c, FirstStage(c), Blank, left)
  <2>1. tasks' = [tasks EXCEPT ![t] = [At(FirstStage(c), c) EXCEPT !.left = left]]
    BY DEF Begin, left
  <2>2. QED BY <1>1, <1>2, <1>3, <2>1, Replaced
<1>5. ~InProgress(t)
  BY TaskFields DEF Begin
<1>6. QED BY <1>4, <1>5 DEF Begin, Begins, left

LEMMA AskedType ==
  ASSUME TypeOK, NEW op \in Methods, NEW d \in 0 .. generated, NEW key \in 0 .. generated,
         NEW name \in Aliases \union Services \union {None}
  PROVE  Request(op, d, key, name) \in Call
  BY IdentifiersAssumption DEF Request, Call, Kids, TypeOK, IdentifiersAssumption

LEMMA BeginStep ==
  ASSUME TypeOK, KeysWereGenerated, NEW t \in Callers,
         BeginAny(t) \/ \E d \in DOMAIN dids : BeginDelete(t, d)
  PROVE  \E c : Begins(t, c)
<1> USE DEF Asked, Request, NameFits, Made, Unlooked
<1>0. /\ generated \in Nat
      /\ \A d \in DOMAIN dids : d \in 1 .. generated /\ dids[d].keys \in Seq(Kids)
      /\ \A k \in keys : k \in 1 .. generated
      /\ 0 \in 0 .. generated /\ \A k \in 1 .. generated : k \in 0 .. generated /\ k # 0
  BY IdentifiersAssumption DEF TypeOK, Identifier, IdentifiersAssumption
<1>1. ASSUME NEW a \in Aliases \union {None}, NEW op \in Creating, Begin(t, Request(op, 0, 0, a))
      PROVE  \E c : Begins(t, c)
  <2>1. Asked(Request(op, 0, 0, a))
    BY <1>0, <1>1, AskedType DEF Creating, Updating, Methods
  <2>2. QED BY <1>1, <2>1, Beginning DEF Creating
<1>2. ASSUME NEW d \in 1 .. generated, NEW a \in Aliases \union {None}, Begin(t, Request("import", d, 0, a))
      PROVE  \E c : Begins(t, c)
  <2>1. Asked(Request("import", d, 0, a))
    BY <1>0, <1>2, AskedType DEF Creating, Updating, Methods
  <2>2. QED BY <1>2, <2>1, Beginning
<1>3. ASSUME NEW d \in DOMAIN dids, NEW op \in {"setAlias", "addService", "removeService", "delete"},
             NEW n \in Aliases \union Services \union {None}, Begin(t, Request(op, d, 0, n)),
             op = "setAlias" => n \in Aliases, op = "addService" => n \in Services
      PROVE  \E c : Begins(t, c)
  <2>1. Request(op, d, 0, n) \in Call
    BY <1>0, <1>3, AskedType DEF Creating, Updating, Methods
  <2>2. Asked(Request(op, d, 0, n))
    BY <1>0, <1>3, <2>1 DEF Creating, Updating, Methods, Stored
  <2>3. QED BY <1>3, <2>2, Beginning
<1>4. ASSUME NEW d \in DOMAIN dids, NEW k \in keys, Begin(t, Request("addKey", d, k, None))
      PROVE  \E c : Begins(t, c)
  <2>1. Request("addKey", d, k, None) \in Call
    BY <1>0, <1>4, AskedType DEF Creating, Updating, Methods
  <2>2. Asked(Request("addKey", d, k, None))
    BY <1>0, <1>4, <2>1 DEF Creating, Updating, Methods, Stored
  <2>3. QED BY <1>4, <2>2, Beginning
<1>5. ASSUME NEW d \in DOMAIN dids, NEW k \in ToSet(dids[d].keys), k \in 1 .. generated,
             Begin(t, Request("removeKey", d, k, None))
      PROVE  \E c : Begins(t, c)
  <2>1. Request("removeKey", d, k, None) \in Call
    BY <1>0, <1>5, AskedType DEF Creating, Updating, Methods
  <2>2. Asked(Request("removeKey", d, k, None))
    BY <1>0, <1>5, <2>1 DEF Creating, Updating, Methods, Stored
  <2>3. QED BY <1>5, <2>2, Beginning
<1>6. ASSUME NEW k \in keys, Begin(t, Request("deleteKey", 0, k, None))
      PROVE  \E c : Begins(t, c)
  <2>1. Request("deleteKey", 0, k, None) \in Call
    BY <1>0, <1>6, AskedType DEF Creating, Updating, Methods
  <2>2. Asked(Request("deleteKey", 0, k, None))
    BY <1>0, <1>6, <2>1 DEF Creating, Updating, Methods
  <2>3. QED BY <1>6, <2>2, Beginning
<1>7. \A d \in DOMAIN dids : \A k \in ToSet(dids[d].keys) : k \in 1 .. generated
  BY DEF KeysWereGenerated
<1>8. ASSUME BeginAny(t) PROVE \E c : Begins(t, c)
  <2>1. \/ \E a \in Aliases \union {None} : Begin(t, Request("create", 0, 0, a))
        \/ \E a \in Aliases : Begin(t, Request("getOrCreate", 0, 0, a))
        \/ Begin(t, Request("createKey", 0, 0, None))
        => \E c : Begins(t, c)
    BY <1>1 DEF Creating
  <2>2. (\E d \in DOMAIN dids, a \in Aliases : Begin(t, Request("setAlias", d, 0, a)))
        => \E c : Begins(t, c)
    BY <1>3
  <2>3. (\E d \in DOMAIN dids, n \in Services, op \in {"addService", "removeService"} :
           Begin(t, Request(op, d, 0, n)))
        => \E c : Begins(t, c)
    BY <1>3
  <2>4. (\E d \in DOMAIN dids : \E k \in ToSet(dids[d].keys) : Begin(t, Request("removeKey", d, k, None)))
        => \E c : Begins(t, c)
    BY <1>5, <1>7
  <2>5. QED
    BY <1>2, <1>4, <1>6, <1>8, <2>1, <2>2, <2>3, <2>4 DEF BeginAny
<1>9. QED
  BY <1>3, <1>8 DEF BeginDelete

\* A task with its stage and one more field replaced.
LEMMA TaskExceptCall ==
  ASSUME NEW r \in Task, NEW a, NEW b
  PROVE  [r EXCEPT !.call = a, !.stage = b] = [call |-> a, stage |-> b, was |-> r.was, left |-> r.left]
<1>1. r = [call |-> r.call, stage |-> r.stage, was |-> r.was, left |-> r.left]
  BY DEF Task
<1>2. [[call |-> r.call, stage |-> r.stage, was |-> r.was, left |-> r.left] EXCEPT !.call = a]
        = [call |-> a, stage |-> r.stage, was |-> r.was, left |-> r.left]
  OBVIOUS
<1>3. [r EXCEPT !.call = a] = [call |-> a, stage |-> r.stage, was |-> r.was, left |-> r.left]
  BY <1>1, <1>2, Zenon
<1>4. [[call |-> a, stage |-> r.stage, was |-> r.was, left |-> r.left] EXCEPT !.stage = b]
        = [call |-> a, stage |-> b, was |-> r.was, left |-> r.left]
  OBVIOUS
<1>5. QED BY <1>3, <1>4, Zenon

LEMMA TaskExceptWas ==
  ASSUME NEW r \in Task, NEW a, NEW b
  PROVE  [r EXCEPT !.was = a, !.stage = b] = [call |-> r.call, stage |-> b, was |-> a, left |-> r.left]
<1>1. r = [call |-> r.call, stage |-> r.stage, was |-> r.was, left |-> r.left]
  BY DEF Task
<1>2. [[call |-> r.call, stage |-> r.stage, was |-> r.was, left |-> r.left] EXCEPT !.was = a]
        = [call |-> r.call, stage |-> r.stage, was |-> a, left |-> r.left]
  OBVIOUS
<1>3. [r EXCEPT !.was = a] = [call |-> r.call, stage |-> r.stage, was |-> a, left |-> r.left]
  BY <1>1, <1>2, Zenon
<1>4. [[call |-> r.call, stage |-> r.stage, was |-> a, left |-> r.left] EXCEPT !.stage = b]
        = [call |-> r.call, stage |-> b, was |-> a, left |-> r.left]
  OBVIOUS
<1>5. QED BY <1>3, <1>4, Zenon

LEMMA TaskExceptLeft ==
  ASSUME NEW r \in Task, NEW a, NEW b
  PROVE  [r EXCEPT !.left = a, !.stage = b] = [call |-> r.call, stage |-> b, was |-> r.was, left |-> a]
<1>1. r = [call |-> r.call, stage |-> r.stage, was |-> r.was, left |-> r.left]
  BY DEF Task
<1>2. [[call |-> r.call, stage |-> r.stage, was |-> r.was, left |-> r.left] EXCEPT !.left = a]
        = [call |-> r.call, stage |-> r.stage, was |-> r.was, left |-> a]
  OBVIOUS
<1>3. [r EXCEPT !.left = a] = [call |-> r.call, stage |-> r.stage, was |-> r.was, left |-> a]
  BY <1>1, <1>2, Zenon
<1>4. [[call |-> r.call, stage |-> r.stage, was |-> r.was, left |-> a] EXCEPT !.stage = b]
        = [call |-> r.call, stage |-> b, was |-> r.was, left |-> a]
  OBVIOUS
<1>5. QED BY <1>3, <1>4, Zenon

\* What each action does with the task of its call.
LEMMA LookUpStep ==
  ASSUME TypeOK, NEW t \in Callers, LookUp(t)
  PROVE  /\ tasks[t].stage = "lookup" /\ UNCHANGED <<dids, keys, secrets, generated>>
         /\ \/ \E d \in DOMAIN dids : Ends(t, [tasks[t].call EXCEPT !.did = d])
            \/ /\ Becomes(t, tasks[t].call, "check", tasks[t].was, tasks[t].left)
               /\ UNCHANGED <<faults, acknowledged>>
<1>1. ASSUME NEW d \in WithAlias(tasks[t].call.name), Finish(t, [tasks[t].call EXCEPT !.did = d])
      PROVE  d \in DOMAIN dids /\ Ends(t, [tasks[t].call EXCEPT !.did = d])
  <2>1. d \in DOMAIN dids
    BY DEF WithAlias
  <2>2. QED BY <1>1, <2>1, Finishes
<1>2. ASSUME GoTo(t, "check")
      PROVE  Becomes(t, tasks[t].call, "check", tasks[t].was, tasks[t].left)
  BY <1>2, GoesTo DEF Stages
<1>3. QED BY <1>1, <1>2 DEF LookUp

LEMMA CheckStep ==
  ASSUME TypeOK, NEW t \in Callers, CheckAlias(t)
  PROVE  /\ tasks[t].stage = "check" /\ UNCHANGED <<dids, keys, secrets, generated, acknowledged>>
         /\ \/ Ends(t, tasks[t].call)
            \/ /\ WithAlias(tasks[t].call.name) = {}
               /\ Becomes(t, tasks[t].call, "generate", tasks[t].was, tasks[t].left)
               /\ UNCHANGED faults
<1>1. ASSUME Reject(t) PROVE Ends(t, tasks[t].call) /\ UNCHANGED acknowledged
  BY <1>1, Rejects
<1>2. ASSUME GoTo(t, "generate")
      PROVE  Becomes(t, tasks[t].call, "generate", tasks[t].was, tasks[t].left)
  BY <1>2, GoesTo DEF Stages
<1>3. QED BY <1>1, <1>2 DEF CheckAlias

LEMMA GenerateStep ==
  ASSUME TypeOK, NEW t \in Callers, Generate(t),
         tasks[t].call.op # "import" => generated + 1 \in Kids,
         tasks[t].call.op = "import" => tasks[t].call.did \in 1 .. generated
  PROVE  LET c == tasks[t].call
             k == IF c.op = "import" THEN c.did ELSE generated + 1 IN
         /\ tasks[t].stage = "generate"
         /\ Becomes(t, [c EXCEPT !.did = k], "list", tasks[t].was, tasks[t].left)
         /\ secrets' = secrets \union {k} /\ k \in Kids
         /\ generated' = IF c.op = "import" THEN generated ELSE generated + 1
         /\ UNCHANGED <<dids, keys, faults, acknowledged>>
<1> DEFINE c == tasks[t].call
           k == IF c.op = "import" THEN c.did ELSE generated + 1
<1>1. c \in Call /\ tasks[t] \in Task
  BY TaskFields
<1>2. k \in Kids
  BY IdentifiersAssumption DEF Kids, TypeOK, IdentifiersAssumption
<1>3. tasks' = [tasks EXCEPT ![t] = [tasks[t] EXCEPT !.call = [c EXCEPT !.did = k], !.stage = "list"]]
  BY DEF Generate, TypeOK
<1>4. generated' = IF c.op = "import" THEN generated ELSE generated + 1
  BY DEF Generate
<1>5. secrets' = secrets \union {k}
  BY DEF Generate
<1> HIDE DEF k
<1>6. [tasks[t] EXCEPT !.call = [c EXCEPT !.did = k], !.stage = "list"]
        = [call |-> [c EXCEPT !.did = k], stage |-> "list", was |-> tasks[t].was, left |-> tasks[t].left]
  BY <1>1, TaskExceptCall
<1>7. [c EXCEPT !.did = k] \in Call
  BY <1>1, <1>2 DEF Call
<1>8. Becomes(t, [c EXCEPT !.did = k], "list", tasks[t].was, tasks[t].left)
  <2> HIDE DEF c
  <2>1. "list" \in Stages /\ tasks[t].was \in Identifier /\ tasks[t].left \in Seq(Kids)
    BY TaskFields DEF Stages
  <2>2. tasks' = [tasks EXCEPT ![t] = [call |-> [c EXCEPT !.did = k], stage |-> "list",
                                       was |-> tasks[t].was, left |-> tasks[t].left]]
    BY <1>3, <1>6
  <2>3. QED BY <1>7, <2>1, <2>2, Replaced
<1>9. QED BY <1>2, <1>4, <1>5, <1>8 DEF Generate, k

\* Keys and services put into what a call brings leave its alias, and whether it was looked up.
LEMMA BroughtBack ==
  ASSUME NEW w \in Identifier, NEW ks, NEW ss
  PROVE  [w EXCEPT !.keys = ks, !.services = ss]
           = [alias |-> w.alias, unchecked |-> w.unchecked, keys |-> ks, services |-> ss]
<1>1. w = [alias |-> w.alias, unchecked |-> w.unchecked, keys |-> w.keys, services |-> w.services]
  BY DEF Identifier
<1>2. [[alias |-> w.alias, unchecked |-> w.unchecked, keys |-> w.keys, services |-> w.services]
         EXCEPT !.keys = ks]
        = [alias |-> w.alias, unchecked |-> w.unchecked, keys |-> ks, services |-> w.services]
  OBVIOUS
<1>3. [w EXCEPT !.keys = ks]
        = [alias |-> w.alias, unchecked |-> w.unchecked, keys |-> ks, services |-> w.services]
  BY <1>1, <1>2, Zenon
<1>4. [[alias |-> w.alias, unchecked |-> w.unchecked, keys |-> ks, services |-> w.services]
         EXCEPT !.services = ss]
        = [alias |-> w.alias, unchecked |-> w.unchecked, keys |-> ks, services |-> ss]
  OBVIOUS
<1>5. QED BY <1>3, <1>4, Zenon

LEMMA ListStep ==
  ASSUME TypeOK, NEW t \in Callers, List(t), tasks[t].call.did \in Kids
  PROVE  LET c == tasks[t].call IN
         /\ tasks[t].stage = "list"
         /\ keys' = keys \union {c.did}
         /\ UNCHANGED <<dids, secrets, generated, acknowledged>>
         /\ \/ c.op = "createKey" /\ Ends(t, c)
            \/ /\ c.op # "createKey" /\ UNCHANGED faults
               /\ \E was : /\ was.keys = <<c.did>> /\ was.unchecked = tasks[t].was.unchecked
                           /\ Becomes(t, c, "save", was, tasks[t].left)
<1> DEFINE c == tasks[t].call
<1>1. c \in Call /\ tasks[t] \in Task /\ tasks[t].was \in Identifier /\ tasks[t].left \in Seq(Kids)
  BY TaskFields
<1>2. CASE c.op = "createKey"
  <2>1. Ends(t, c)
    BY <1>2, Finishes DEF List
  <2>2. acknowledged' = acknowledged
    BY <1>2, <2>1 DEF Ends
  <2>3. QED BY <1>2, <2>1, <2>2 DEF List
<1>3. CASE c.op # "createKey"
  <2>1. PICK services \in SUBSET Services :
          tasks' = [tasks EXCEPT ![t].stage = "save",
                     ![t].was = [@ EXCEPT !.keys = <<c.did>>, !.services = services]]
    BY <1>3 DEF List, Brought
  <2> DEFINE was == [alias |-> tasks[t].was.alias, unchecked |-> tasks[t].was.unchecked,
                     keys |-> <<c.did>>, services |-> services]
  <2>2. was \in Identifier /\ was.keys = <<c.did>> /\ was.unchecked = tasks[t].was.unchecked
    <3>1. <<c.did>> \in Seq(Kids)
      OBVIOUS
    <3>2. QED BY <1>1, <3>1 DEF Identifier
  <2>3. tasks' = [tasks EXCEPT ![t] = [call |-> c, stage |-> "save", was |-> was, left |-> tasks[t].left]]
    <3>1. [tasks[t].was EXCEPT !.keys = <<c.did>>, !.services = services] = was
      BY <1>1, BroughtBack
    <3> HIDE DEF was
    <3>2. tasks' = [tasks EXCEPT ![t].stage = "save", ![t].was = was]
      BY <2>1, <3>1
    <3>3. tasks' = [tasks EXCEPT ![t] = [tasks[t] EXCEPT !.was = was, !.stage = "save"]]
      BY <1>1, <3>2 DEF TypeOK, Task
    <3>4. [tasks[t] EXCEPT !.was = was, !.stage = "save"]
            = [call |-> c, stage |-> "save", was |-> was, left |-> tasks[t].left]
      BY <1>1, TaskExceptWas
    <3>5. QED BY <3>3, <3>4
  <2>4. "save" \in Stages
    BY DEF Stages
  <2> HIDE DEF c, was
  <2>5. Becomes(t, c, "save", was, tasks[t].left)
    BY <1>1, <2>2, <2>3, <2>4, Replaced
  <2>6. QED BY <1>3, <2>2, <2>5 DEF List, c
<1>4. QED BY <1>2, <1>3

LEMMA ReadStep ==
  ASSUME TypeOK, NEW t \in Callers, Read(t)
  PROVE  LET c == tasks[t].call IN
         /\ tasks[t].stage = "read" /\ UNCHANGED <<dids, keys, secrets, generated, acknowledged>>
         /\ \/ Ends(t, c)
            \/ /\ Stored(c.did) /\ c.op = "delete" /\ UNCHANGED faults
               /\ Becomes(t, c, AfterKey(dids[c.did].keys), tasks[t].was, dids[c.did].keys)
            \/ /\ Stored(c.did) /\ c.op # "delete" /\ UNCHANGED faults
               /\ Becomes(t, c, "save", dids[c.did], tasks[t].left)
<1> DEFINE c == tasks[t].call
<1>1. c \in Call /\ tasks[t] \in Task /\ tasks[t].was \in Identifier /\ tasks[t].left \in Seq(Kids)
  BY TaskFields
<1>2. CASE c.did \notin DOMAIN dids
  <2>1. Reject(t)
    BY <1>2 DEF Read
  <2>2. QED BY <2>1, Rejects DEF Read
<1>3. CASE c.did \in DOMAIN dids
  <2>1. dids[c.did] \in Identifier /\ dids[c.did].keys \in Seq(Kids)
    BY <1>3 DEF TypeOK, Identifier
  <2>2. AfterKey(dids[c.did].keys) \in Stages /\ "save" \in Stages
    BY DEF AfterKey, Stages
  <2>3. CASE c.op = "delete"
    <3>1. tasks' = [tasks EXCEPT ![t] = [tasks[t] EXCEPT !.left = dids[c.did].keys,
                                                         !.stage = AfterKey(dids[c.did].keys)]]
      BY <1>3, <2>3 DEF Read, TypeOK
    <3>2. [tasks[t] EXCEPT !.left = dids[c.did].keys, !.stage = AfterKey(dids[c.did].keys)]
            = [call |-> c, stage |-> AfterKey(dids[c.did].keys), was |-> tasks[t].was,
               left |-> dids[c.did].keys]
      BY <1>1, TaskExceptLeft
    <3> HIDE DEF c
    <3>3. tasks' = [tasks EXCEPT ![t] = [call |-> c, stage |-> AfterKey(dids[c.did].keys),
                                         was |-> tasks[t].was, left |-> dids[c.did].keys]]
      BY <3>1, <3>2
    <3>4. Becomes(t, c, AfterKey(dids[c.did].keys), tasks[t].was, dids[c.did].keys)
      BY <1>1, <2>1, <2>2, <3>3, Replaced
    <3>5. QED BY <1>3, <2>3, <3>4 DEF Read, Stored, c
  <2>4. CASE c.op # "delete"
    <3>1. tasks' = [tasks EXCEPT ![t] = [tasks[t] EXCEPT !.was = dids[c.did], !.stage = "save"]]
      BY <1>3, <2>4 DEF Read, TypeOK
    <3>2. [tasks[t] EXCEPT !.was = dids[c.did], !.stage = "save"]
            = [call |-> c, stage |-> "save", was |-> dids[c.did], left |-> tasks[t].left]
      BY <1>1, TaskExceptWas
    <3> HIDE DEF c
    <3>3. tasks' = [tasks EXCEPT ![t] = [call |-> c, stage |-> "save",
                                         was |-> dids[c.did], left |-> tasks[t].left]]
      BY <3>1, <3>2
    <3>4. Becomes(t, c, "save", dids[c.did], tasks[t].left)
      BY <1>1, <2>1, <2>2, <3>3, Replaced
    <3>5. QED BY <1>3, <2>4, <3>4 DEF Read, Stored, c
  <2>5. QED BY <2>3, <2>4
<1>4. QED BY <1>2, <1>3

\* The identifier that an update writes.
LEMMA UpdatedType ==
  ASSUME NEW c \in Call, NEW was \in Identifier,
         c.op \in Made \union Unlooked => c.name \in Aliases \union {None},
         c.op = "addService" => c.name \in Services,
         c.op = "addKey" => c.key \in Kids
  PROVE  /\ Updated(c, was) \in Identifier
         /\ Elements(Updated(c, was).keys) =
              IF c.op = "addKey" THEN Elements(was.keys) \union {c.key}
              ELSE IF c.op = "removeKey" THEN Elements(was.keys) \ {c.key}
              ELSE Elements(was.keys)
         /\ Updated(c, was).alias =
              IF c.op \in Made \union Unlooked THEN c.name ELSE was.alias
         /\ Updated(c, was).unchecked = (c.op \in Unlooked \/ was.unchecked)
         /\ Updated(c, was).services =
              IF c.op = "addService" THEN was.services \union {c.name}
              ELSE IF c.op = "removeService" THEN was.services \ {c.name}
              ELSE was.services
<1>1. /\ was.keys \in Seq(Kids) /\ was.services \in SUBSET Services
      /\ was.alias \in Aliases \union {None}
      /\ was.unchecked \in BOOLEAN
      /\ was = [alias |-> was.alias, unchecked |-> was.unchecked, keys |-> was.keys, services |-> was.services]
  BY DEF Identifier
<1> USE DEF Made, Unlooked
<1>2. CASE c.op \in Made
  <2>1. Updated(c, was) = [was EXCEPT !.alias = c.name]
    BY <1>2 DEF Updated
  <2>2. QED BY <1>1, <1>2, <2>1 DEF Identifier
<1>9. CASE c.op \in Unlooked
  <2>1. Updated(c, was) = [was EXCEPT !.alias = c.name, !.unchecked = TRUE]
    BY <1>9 DEF Updated
  <2>2. Updated(c, was) = [alias |-> c.name, unchecked |-> TRUE, keys |-> was.keys, services |-> was.services]
    BY <1>1, <2>1
  <2>3. Updated(c, was) \in Identifier
    BY <1>1, <1>9, <2>2 DEF Identifier
  <2>4. /\ Updated(c, was).keys = was.keys /\ Updated(c, was).alias = c.name
        /\ Updated(c, was).unchecked = TRUE /\ Updated(c, was).services = was.services
    BY <2>2
  <2>5. c.op \notin {"addKey", "removeKey", "addService", "removeService"}
    BY <1>9
  <2>6. QED BY <1>9, <2>3, <2>4, <2>5
<1>3. CASE c.op = "addKey"
  <2>1. Updated(c, was) = [was EXCEPT !.keys = Append(was.keys, c.key)]
    BY <1>3 DEF Updated
  <2>2. /\ Append(was.keys, c.key) \in Seq(Kids)
        /\ Elements(Append(was.keys, c.key)) = Elements(was.keys) \union {c.key}
    <3> DEFINE s == was.keys
    <3>1. s \in Seq(Kids) /\ c.key \in Kids
      BY <1>1, <1>3
    <3> HIDE DEF s
    <3>2. /\ DOMAIN s = 1 .. Len(s) /\ DOMAIN Append(s, c.key) = 1 .. Len(s) + 1
          /\ Append(s, c.key)[Len(s) + 1] = c.key /\ Append(s, c.key) \in Seq(Kids)
          /\ \A j \in 1 .. Len(s) : Append(s, c.key)[j] = s[j]
          /\ Len(s) \in Nat
      BY <3>1
    <3>3. Elements(Append(s, c.key)) = Elements(s) \union {c.key}
      BY <3>2 DEF Elements
    <3>4. QED BY <3>2, <3>3 DEF s
  <2>3. QED BY <1>1, <1>3, <2>1, <2>2 DEF Identifier
<1>4. CASE c.op = "removeKey"
  <2>1. Updated(c, was) = [was EXCEPT !.keys = Without(was.keys, {c.key})]
    BY <1>4 DEF Updated
  <2>2. /\ Without(was.keys, {c.key}) \in Seq(Kids)
        /\ Elements(Without(was.keys, {c.key})) = Elements(was.keys) \ {c.key}
    BY <1>1, WithoutElements
  <2>3. QED BY <1>1, <1>4, <2>1, <2>2 DEF Identifier
<1>5. CASE c.op = "addService"
  <2>1. Updated(c, was) = [was EXCEPT !.services = @ \union {c.name}]
    BY <1>5 DEF Updated
  <2>2. QED BY <1>1, <1>5, <2>1 DEF Identifier
<1>6. CASE c.op = "removeService"
  <2>1. Updated(c, was) = [was EXCEPT !.services = @ \ {c.name}]
    BY <1>6 DEF Updated
  <2>2. QED BY <1>1, <1>6, <2>1 DEF Identifier
<1>7. CASE c.op \notin {"create", "getOrCreate", "setAlias", "import", "addKey", "removeKey", "addService", "removeService"}
  <2>1. Updated(c, was) = was
    BY <1>7 DEF Updated
  <2>2. QED BY <1>1, <1>7, <2>1
<1>8. QED BY <1>2, <1>3, <1>4, <1>5, <1>6, <1>7, <1>9

LEMMA SaveStep ==
  ASSUME TypeOK, NEW t \in Callers, Save(t)
  PROVE  LET c == tasks[t].call
             identifier == Updated(c, tasks[t].was) IN
         /\ tasks[t].stage = "save" /\ Ends(t, c)
         /\ dids' = [d \in DOMAIN dids \union {c.did} |-> IF d = c.did THEN identifier ELSE dids[d]]
         /\ keys' = keys \union Elements(identifier.keys)
         /\ UNCHANGED <<secrets, generated>>
<1>1. Ends(t, tasks[t].call)
  BY Finishes DEF Save
<1>2. QED BY <1>1 DEF Save, ToSet, Elements

LEMMA FindStep ==
  ASSUME TypeOK, NEW t \in Callers, Find(t)
  PROVE  /\ tasks[t].stage = "find"
         /\ UNCHANGED <<dids, keys, secrets, generated, acknowledged>>
         /\ \/ Ends(t, tasks[t].call) /\ Head(tasks[t].left) \notin keys
            \/ /\ Head(tasks[t].left) \in keys /\ UNCHANGED faults
               /\ Becomes(t, tasks[t].call, "erase", tasks[t].was, tasks[t].left)
<1>1. ASSUME Reject(t) PROVE Ends(t, tasks[t].call) /\ UNCHANGED acknowledged
  BY <1>1, Rejects
<1>2. ASSUME GoTo(t, "erase") PROVE Becomes(t, tasks[t].call, "erase", tasks[t].was, tasks[t].left)
  BY <1>2, GoesTo DEF Stages
<1>3. QED BY <1>1, <1>2 DEF Find

LEMMA EraseStep ==
  ASSUME TypeOK, NEW t \in Callers, Erase(t)
  PROVE  /\ tasks[t].stage = "erase"
         /\ secrets' = secrets \ {Head(tasks[t].left)}
         /\ UNCHANGED <<dids, keys, generated, faults, acknowledged>>
         /\ Becomes(t, tasks[t].call, "unlist", tasks[t].was, tasks[t].left)
<1>1. "unlist" \in Stages
  BY DEF Stages
<1>2. QED BY <1>1, GoesTo DEF Erase

LEMMA UnlistStep ==
  ASSUME TypeOK, NEW t \in Callers, Unlist(t), tasks[t].left # <<>>
  PROVE  /\ tasks[t].stage = "unlist"
         /\ keys' = keys \ {Head(tasks[t].left)}
         /\ UNCHANGED <<dids, secrets, generated, acknowledged>>
         /\ \/ Ends(t, tasks[t].call) /\ tasks[t].call.op = "deleteKey"
            \/ /\ tasks[t].call.op # "deleteKey" /\ UNCHANGED faults
               /\ Becomes(t, tasks[t].call, AfterKey(Tail(tasks[t].left)), tasks[t].was, Tail(tasks[t].left))
<1> DEFINE left == Tail(tasks[t].left)
<1>1. tasks[t].call \in Call /\ tasks[t] \in Task /\ tasks[t].was \in Identifier /\ tasks[t].left \in Seq(Kids)
  BY TaskFields
<1>2. CASE tasks[t].call.op = "deleteKey"
  <2>1. Ends(t, tasks[t].call)
    BY <1>2, Finishes DEF Unlist
  <2>2. UNCHANGED acknowledged
    BY <1>2, <2>1 DEF Ends
  <2>3. QED BY <1>2, <2>1, <2>2 DEF Unlist
<1>3. CASE tasks[t].call.op # "deleteKey"
  <2>1. left \in Seq(Kids) /\ AfterKey(left) \in Stages
    BY <1>1 DEF AfterKey, Stages
  <2>2. tasks' = [tasks EXCEPT ![t] = [tasks[t] EXCEPT !.left = left, !.stage = AfterKey(left)]]
    BY <1>3 DEF Unlist, TypeOK
  <2> HIDE DEF left
  <2>3. [tasks[t] EXCEPT !.left = left, !.stage = AfterKey(left)]
          = [call |-> tasks[t].call, stage |-> AfterKey(left), was |-> tasks[t].was, left |-> left]
    BY <1>1, TaskExceptLeft
  <2>4. tasks' = [tasks EXCEPT ![t] = [call |-> tasks[t].call, stage |-> AfterKey(left),
                                       was |-> tasks[t].was, left |-> left]]
    BY <2>2, <2>3
  <2>5. Becomes(t, tasks[t].call, AfterKey(left), tasks[t].was, left)
    BY <1>1, <2>1, <2>4, Replaced
  <2>6. QED BY <1>3, <2>5 DEF Unlist, left
<1>4. QED BY <1>2, <1>3

LEMMA DropStep ==
  ASSUME TypeOK, NEW t \in Callers, Drop(t)
  PROVE  /\ tasks[t].stage = "drop" /\ Ends(t, tasks[t].call)
         /\ dids' = [d \in DOMAIN dids \ {tasks[t].call.did} |-> dids[d]]
         /\ UNCHANGED <<keys, secrets, generated>>
<1>1. Ends(t, tasks[t].call)
  BY Finishes DEF Drop
<1>2. QED BY <1>1 DEF Drop, Restrict

LEMMA FailStep ==
  ASSUME TypeOK, NEW t \in Callers, Fail(t)
  PROVE  Ends(t, tasks[t].call) /\ UNCHANGED <<dids, keys, secrets, generated, acknowledged>>
  BY Throws DEF Fail

LEMMA SwallowStep ==
  ASSUME TypeOK, NEW t \in Callers, Swallow(t)
  PROVE  LET was == tasks[t].was IN
         /\ tasks[t].stage \in {"lookup", "check"}
         /\ UNCHANGED <<dids, keys, secrets, generated, acknowledged>>
         /\ faults' \in 0 .. MaxFaults
         /\ \/ tasks[t].stage = "lookup" /\ Becomes(t, tasks[t].call, "check", was, tasks[t].left)
            \/ /\ tasks[t].stage = "check"
               /\ Becomes(t, tasks[t].call, "generate", [was EXCEPT !.unchecked = TRUE], tasks[t].left)
<1> DEFINE was == [tasks[t].was EXCEPT !.unchecked = TRUE]
<1>1. faults' \in 0 .. MaxFaults
  BY IdentifiersAssumption DEF Swallow, TypeOK, IdentifiersAssumption
<1>2. /\ tasks[t] \in Task /\ tasks[t].call \in Call /\ tasks[t].was \in Identifier
      /\ tasks[t].left \in Seq(Kids) /\ "check" \in Stages /\ "generate" \in Stages
  BY TaskFields DEF Stages
<1>3. CASE tasks[t].stage = "lookup"
  BY <1>1, <1>2, <1>3, GoesTo DEF Swallow
<1>4. CASE tasks[t].stage = "check"
  <2>1. was \in Identifier
    BY <1>2 DEF Identifier
  <2>2. tasks' = [tasks EXCEPT ![t] = [tasks[t] EXCEPT !.was = was, !.stage = "generate"]]
    <3>1. tasks' = [tasks EXCEPT ![t].stage = "generate", ![t].was.unchecked = TRUE]
      BY <1>4 DEF Swallow
    <3>2. QED BY <1>2, <3>1 DEF TypeOK, Task
  <2> HIDE DEF was
  <2>3. [tasks[t] EXCEPT !.was = was, !.stage = "generate"]
          = [call |-> tasks[t].call, stage |-> "generate", was |-> was, left |-> tasks[t].left]
    BY <1>2, TaskExceptWas
  <2>4. tasks' = [tasks EXCEPT ![t] = [call |-> tasks[t].call, stage |-> "generate", was |-> was,
                                       left |-> tasks[t].left]]
    BY <2>2, <2>3
  <2>5. Becomes(t, tasks[t].call, "generate", was, tasks[t].left)
    BY <1>2, <2>1, <2>4, Replaced
  <2>6. QED BY <1>1, <1>4, <2>5 DEF Swallow, was
<1>5. QED BY <1>3, <1>4 DEF Swallow

------------------------------------------------------------------------------
(* Types and stages                                                        *)

StepOf(t) ==
  \/ \E c : Begins(t, c)
  \/ LookUp(t) \/ CheckAlias(t) \/ Generate(t) \/ List(t) \/ Read(t) \/ Save(t)
  \/ Find(t) \/ Erase(t) \/ Unlist(t) \/ Drop(t) \/ Fail(t) \/ Swallow(t)

LEMMA StepOfOne ==
  ASSUME TypeOK, KeysWereGenerated, Next
  PROVE  \E t \in Callers : StepOf(t)
  BY BeginStep DEF Next, Step, StepOf

LEMMA EndsTyped ==
  ASSUME TypeOK, NEW t \in Callers, NEW c \in Call, Ends(t, c)
  PROVE  /\ tasks' \in [Callers -> Task] /\ faults' \in 0 .. MaxFaults /\ acknowledged' \subseteq Call
         /\ InProgress(t)' = FALSE
  BY BlankType DEF Ends, TypeOK, InProgress

\* A call in progress that a step of another leaves alone fits as before.
LEMMA StaysFit ==
  ASSUME TypeOK, StagesFit, NEW u \in Callers, tasks'[u] = tasks[u], InProgress(u)',
         generated' \in Nat, generated <= generated'
  PROVE  Fits(tasks[u])' /\ Fits(tasks[u])
<1>1. Fits(tasks[u])
  BY DEF StagesFit, InProgress
<1>2. generated \in Nat
  BY DEF TypeOK
<1>3. \A n \in 0 .. generated : n \in 0 .. generated'
  BY <1>2
<1>4. QED BY <1>1, <1>3 DEF Fits

LEMMA GeneratedKind ==
  ASSUME KeepsInv, NEW t \in Callers, Generate(t)
  PROVE  /\ tasks[t].call.op = "import" => tasks[t].call.did \in 1 .. generated
         /\ tasks[t].call.op # "import" => generated + 1 \in Kids /\ tasks[t].call.op \in Creating
                                            /\ t \in ToGenerate /\ tasks[t].call.did = 0
         /\ tasks[t].stage = "generate" /\ Fits(tasks[t]) /\ generated \in Nat
<1>1. tasks[t].stage = "generate" /\ Fits(tasks[t]) /\ generated \in Nat
  BY DEF Generate, KeepsInv, StagesFit, InProgress, TypeOK
<1>2. tasks[t].call.op = "import" => tasks[t].call.did \in 1 .. generated
  BY <1>1 DEF Fits, Creating
<1>3. ASSUME tasks[t].call.op # "import" PROVE generated + 1 \in Kids
  <2>1. t \in ToGenerate
    BY <1>1, <1>3 DEF Fits, ToGenerate, Running
  <2>2. IsFiniteSet(ToGenerate)
    <3>1. ToGenerate \subseteq Callers
      BY DEF ToGenerate, Running
    <3>2. QED BY <3>1, FS_Subset, IdentifiersAssumption DEF IdentifiersAssumption
  <2>3. Cardinality(ToGenerate) \in Nat /\ Cardinality(ToGenerate) # 0
    BY <2>1, <2>2, FS_CardinalityType, FS_EmptySet
  <2>4. QED
    BY <1>1, <2>3, IdentifiersAssumption DEF KeepsInv, RoomIsLeft, Kids, IdentifiersAssumption
<1>4. QED BY <1>1, <1>2, <1>3 DEF Fits, ToGenerate, Running

LEMMA GeneratedGrows ==
  ASSUME KeepsInv, Next
  PROVE  /\ generated \in Nat /\ generated' \in 0 .. MaxKeys /\ generated <= generated'
         /\ generated' \in Nat
<1>1. generated \in Nat /\ generated \in 0 .. MaxKeys
  BY DEF KeepsInv, TypeOK
<1>2. PICK t \in Callers : StepOf(t)
  BY StepOfOne DEF KeepsInv
<1>3. CASE Generate(t)
  <2>1. generated' = generated \/ (generated + 1 \in Kids /\ generated' = generated + 1)
    BY <1>3, GeneratedKind DEF Generate
  <2>2. QED BY <1>1, <2>1 DEF Kids
<1>4. CASE ~Generate(t)
  <2>1. generated' = generated
    BY <1>2, <1>4 DEF StepOf, Begins, LookUp, CheckAlias, List, Read, Save, Find, Erase, Unlist, Drop, Fail, Swallow
  <2>2. QED BY <1>1, <2>1
<1>5. QED BY <1>3, <1>4

\* The store of identifiers after a step of t.
LEMMA StoreTyped ==
  ASSUME KeepsInv, NEW t \in Callers, Save(t)
  PROVE  LET c == tasks[t].call
             identifier == Updated(c, tasks[t].was) IN
         /\ c.did \in 1 .. generated /\ identifier \in Identifier
         /\ Elements(identifier.keys) \subseteq 1 .. generated
<1> DEFINE c == tasks[t].call
<1>1. /\ tasks[t].stage = "save" /\ Fits(tasks[t]) /\ c \in Call /\ tasks[t].was \in Identifier
      /\ generated \in Nat
  <2>1. TypeOK /\ tasks[t].stage = "save" /\ Fits(tasks[t])
    BY DEF Save, KeepsInv, StagesFit, InProgress
  <2>2. c \in Call /\ tasks[t].was \in Identifier
    BY <2>1, TaskFields
  <2>3. QED BY <2>1, <2>2 DEF TypeOK
<1>2. c.did \in 1 .. generated
  BY <1>1 DEF Fits
<1>3. Elements(tasks[t].was.keys) \subseteq 1 .. generated
  <2>1. CASE c.op \in Updating
    <3>1. Stored(c.did) /\ tasks[t].was = dids[c.did]
      BY <1>1, <2>1 DEF KeepsInv, CopiesAreCurrent
    <3>2. QED BY <3>1 DEF KeepsInv, KeysWereGenerated, ToSet, Elements, Stored
  <2>2. CASE c.op \notin Updating
    <3>2. tasks[t].was.keys = <<c.did>>
      BY <1>1, <2>2 DEF KeepsInv, CopiesAreCurrent
    <3>3. Elements(<<c.did>>) = {c.did}
      BY DEF Elements
    <3>4. QED BY <1>2, <3>2, <3>3
  <2>3. QED BY <2>1, <2>2
<1>4. /\ c.op \in Made \union Unlooked => c.name \in Aliases \union {None}
      /\ c.op = "addService" => c.name \in Services
      /\ c.op = "addKey" => c.key \in Kids /\ c.key \in 1 .. generated
  BY <1>1 DEF Fits, NameFits, Made, Call
<1>5. Updated(c, tasks[t].was) \in Identifier
  BY <1>1, <1>4, UpdatedType
<1>6. Elements(Updated(c, tasks[t].was).keys) \subseteq 1 .. generated
  <2>1. Elements(Updated(c, tasks[t].was).keys) =
          IF c.op = "addKey" THEN Elements(tasks[t].was.keys) \union {c.key}
          ELSE IF c.op = "removeKey" THEN Elements(tasks[t].was.keys) \ {c.key}
          ELSE Elements(tasks[t].was.keys)
    BY <1>1, <1>4, UpdatedType
  <2>2. QED BY <1>3, <1>4, <2>1
<1>7. QED BY <1>2, <1>5, <1>6

LEMMA TypeStep ==
  ASSUME KeepsInv, Next
  PROVE  TypeOK' /\ KeysWereGenerated'
<1>1. PICK t \in Callers : StepOf(t)
  BY StepOfOne DEF KeepsInv
<1>2. /\ generated \in Nat /\ generated' \in 0 .. MaxKeys /\ generated <= generated'
      /\ \A n \in 1 .. generated : n \in 1 .. generated'
  BY GeneratedGrows
<1>3. /\ TypeOK /\ KeysWereGenerated /\ tasks[t].call \in Call
      /\ \A d \in DOMAIN dids : dids[d] \in Identifier /\ d \in 1 .. generated
      /\ InProgress(t) => Fits(tasks[t])
  BY TaskFields DEF KeepsInv, TypeOK, StagesFit
\* The task and the history.
<1>4. /\ tasks' \in [Callers -> Task] /\ faults' \in 0 .. MaxFaults /\ acknowledged' \subseteq Call
  <2>0. /\ faults \in 0 .. MaxFaults /\ acknowledged \subseteq Call
    BY <1>3 DEF TypeOK
  <2>1. ASSUME NEW c, Begins(t, c)
        PROVE  tasks' \in [Callers -> Task] /\ faults' = faults /\ acknowledged' \subseteq Call
    BY <2>0, <2>1 DEF Begins, Becomes
  <2>2. ASSUME NEW c \in Call, Ends(t, c)
        PROVE  tasks' \in [Callers -> Task] /\ faults' \in 0 .. MaxFaults /\ acknowledged' \subseteq Call
    BY <1>3, <2>2, EndsTyped
  <2>3. ASSUME NEW c, NEW stage, NEW was, NEW left, Becomes(t, c, stage, was, left)
        PROVE  tasks' \in [Callers -> Task]
    BY <2>3 DEF Becomes
  <2>4. CASE LookUp(t)
    <3>1. \A d \in DOMAIN dids : [tasks[t].call EXCEPT !.did = d] \in Call
      <4>1. DOMAIN dids \subseteq Kids
        BY <1>2, <1>3, IdentifiersAssumption DEF Kids, TypeOK, IdentifiersAssumption
      <4>2. QED BY <1>3, <4>1 DEF Call
    <3>2. QED BY <1>3, <2>0, <2>2, <2>3, <2>4, <3>1, LookUpStep
  <2>5. CASE CheckAlias(t)
    BY <1>3, <2>0, <2>2, <2>3, <2>5, CheckStep
  <2>6. CASE Generate(t)
    BY <1>3, <2>0, <2>3, <2>6, GenerateStep, GeneratedKind
  <2>7. CASE List(t)
    <3>1. tasks[t].call.did \in Kids
      BY <1>3, <2>7 DEF List, InProgress, Fits, Call
    <3>2. QED BY <1>3, <2>0, <2>2, <2>3, <2>7, <3>1, ListStep
  <2>8. CASE Read(t)
    BY <1>3, <2>0, <2>2, <2>3, <2>8, ReadStep
  <2>9. CASE Save(t)
    BY <1>3, <2>2, <2>9, SaveStep
  <2>10. CASE Find(t)
    BY <1>3, <2>0, <2>2, <2>3, <2>10, FindStep
  <2>11. CASE Erase(t)
    BY <1>3, <2>0, <2>3, <2>11, EraseStep
  <2>12. CASE Unlist(t)
    <3>1. tasks[t].left # <<>>
      BY <1>3, <2>12 DEF Unlist, InProgress, Fits
    <3>2. QED BY <1>3, <2>0, <2>2, <2>3, <2>12, <3>1, UnlistStep
  <2>13. CASE Drop(t)
    BY <1>3, <2>2, <2>13, DropStep
  <2>14. CASE Fail(t)
    BY <1>3, <2>2, <2>14, FailStep
  <2>16. CASE Swallow(t)
    BY <1>3, <2>0, <2>3, <2>16, SwallowStep
  <2>15. QED
    BY <1>1, <2>0, <2>1, <2>4, <2>5, <2>6, <2>7, <2>8, <2>9, <2>10, <2>11, <2>12, <2>13, <2>14, <2>16
       DEF StepOf
\* The stores.
<1>5. /\ DOMAIN dids' \subseteq 1 .. generated' /\ dids' \in [DOMAIN dids' -> Identifier]
      /\ KeysWereGenerated'
  <2>1. CASE Save(t)
    <3> DEFINE c == tasks[t].call
               identifier == Updated(c, tasks[t].was)
    <3>1. /\ c.did \in 1 .. generated /\ identifier \in Identifier
          /\ Elements(identifier.keys) \subseteq 1 .. generated
      BY <2>1, StoreTyped
    <3>2. /\ dids' = [d \in DOMAIN dids \union {c.did} |-> IF d = c.did THEN identifier ELSE dids[d]]
          /\ generated' = generated
      BY <1>3, <2>1, SaveStep
    <3> HIDE DEF identifier
    <3>3. \A d \in DOMAIN dids' : dids'[d] = identifier \/ (d \in DOMAIN dids /\ dids'[d] = dids[d])
      BY <3>2
    <3>4. \A d \in DOMAIN dids : Elements(dids[d].keys) \subseteq 1 .. generated
      BY <1>3 DEF KeysWereGenerated, ToSet, Elements
    <3>5. \A d \in DOMAIN dids' : dids'[d] \in Identifier /\ Elements(dids'[d].keys) \subseteq 1 .. generated
      BY <1>3, <3>1, <3>3, <3>4
    <3>6. DOMAIN dids' \subseteq 1 .. generated' /\ dids' \in [DOMAIN dids' -> Identifier]
      BY <1>3, <3>1, <3>2, <3>5
    <3>7. QED BY <3>2, <3>5, <3>6 DEF KeysWereGenerated, ToSet, Elements
  <2>2. CASE Drop(t)
    <3>1. dids' = [d \in DOMAIN dids \ {tasks[t].call.did} |-> dids[d]] /\ generated' = generated
      BY <1>3, <2>2, DropStep
    <3>2. QED BY <1>3, <3>1 DEF KeysWereGenerated
  <2>3. CASE ~Save(t) /\ ~Drop(t)
    <3>1. dids' = dids
      BY <1>1, <2>3 DEF StepOf, Begins, LookUp, CheckAlias, Generate, List, Read, Find, Erase, Unlist, Fail, Swallow
    <3>2. dids \in [DOMAIN dids -> Identifier]
      BY <1>3 DEF TypeOK
    <3>3. QED BY <1>2, <1>3, <3>1, <3>2 DEF KeysWereGenerated
  <2>4. QED BY <2>1, <2>2, <2>3
<1>6. keys' \subseteq 1 .. generated' /\ secrets' \subseteq 1 .. generated'
  <2>0. keys \subseteq 1 .. generated /\ secrets \subseteq 1 .. generated
    BY <1>3 DEF TypeOK
  <2>1. CASE Generate(t)
    <3>1. /\ tasks[t].call.op = "import" => tasks[t].call.did \in 1 .. generated
          /\ tasks[t].call.op # "import" => generated + 1 \in Kids
      BY <2>1, GeneratedKind
    <3>2. /\ keys' = keys
          /\ IF tasks[t].call.op = "import"
             THEN secrets' = secrets \union {tasks[t].call.did} /\ generated' = generated
             ELSE secrets' = secrets \union {generated + 1} /\ generated' = generated + 1
      BY <2>1 DEF Generate
    <3>3. PICK k : secrets' = secrets \union {k} /\ k \in 1 .. generated'
      BY <1>2, <3>1, <3>2
    <3>4. QED BY <1>2, <2>0, <3>2, <3>3
  <2>2. CASE List(t)
    <3>0. tasks[t].stage = "list"
      BY <2>2 DEF List
    <3>1. tasks[t].call.did \in 1 .. generated
      <4>1. tasks[t].call.did \in 0 .. generated /\ tasks[t].call.did # 0
        BY <1>3, <3>0 DEF InProgress, Fits
      <4>2. QED BY <1>2, <4>1
    <3>2. keys' = keys \union {tasks[t].call.did} /\ UNCHANGED secrets
      BY <2>2 DEF List
    <3>3. QED BY <1>2, <2>0, <3>1, <3>2
  <2>3. CASE Save(t)
    <3> DEFINE onRecord == Elements(Updated(tasks[t].call, tasks[t].was).keys)
    <3>1. keys' = keys \union onRecord /\ UNCHANGED secrets
      BY <1>3, <2>3, SaveStep
    <3>2. onRecord \subseteq 1 .. generated
      BY <2>3, StoreTyped
    <3> HIDE DEF onRecord
    <3>3. QED BY <1>2, <2>0, <3>1, <3>2
  <2>4. CASE ~Generate(t) /\ ~List(t) /\ ~Save(t)
    <3>1. keys' \subseteq keys /\ secrets' \subseteq secrets
      BY <1>1, <2>4 DEF StepOf, Begins, LookUp, CheckAlias, Read, Find, Erase, Unlist, Drop, Fail, Swallow
    <3>2. QED BY <1>2, <2>0, <3>1
  <2>5. QED BY <2>1, <2>2, <2>3, <2>4
<1>7. QED BY <1>2, <1>4, <1>5, <1>6 DEF TypeOK

\* What a call in progress is at its next stage.
LEMMA OwnFit ==
  ASSUME KeepsInv, Next, NEW t \in Callers, InProgress(t)',
         StepOf(t)
  PROVE  Fits(tasks[t])'
<1> DEFINE c == tasks[t].call
<1>0. /\ generated \in Nat /\ generated' \in Nat /\ generated <= generated'
      /\ \A n \in 0 .. generated : n \in 0 .. generated'
  BY GeneratedGrows
<1>1. TypeOK /\ KeysWereGenerated /\ (tasks[t].stage # "idle" => Fits(tasks[t]))
  BY DEF KeepsInv, StagesFit, InProgress
<1>2. \A d : ~Ends(t, d)
  BY BlankType DEF Ends, InProgress
<1>3. ASSUME NEW d, Begins(t, d) PROVE Fits(tasks[t])'
  <2>1. /\ tasks'[t].call = d /\ tasks'[t].stage = FirstStage(d) /\ tasks'[t].was = Blank
        /\ tasks'[t].left = IF d.op = "deleteKey" THEN <<d.key>> ELSE <<>>
        /\ Asked(d) /\ d.op \in Operations
    BY <1>3 DEF Begins, Becomes
  <2>2. Stored(d.did) => d.did # 0
    BY <1>1 DEF TypeOK, Stored
  <2>3. /\ d.op \in Made => FirstStage(d) \in {"lookup", "check", "generate"} /\ d.did = 0
        /\ FirstStage(d) = "lookup" => d.op = "getOrCreate"
        /\ FirstStage(d) = "check" => d.op \in Made
        /\ d.op = "createKey" => FirstStage(d) = "generate" /\ d.did = 0
        /\ d.op = "import" => FirstStage(d) = "generate" /\ d.did # 0
        /\ d.op = "deleteKey" => FirstStage(d) = "find"
        /\ d.op \in Updating \union {"delete"} => FirstStage(d) = "read" /\ d.did # 0
        /\ d.op \in Creating \union Updating \union {"import", "delete", "deleteKey"}
    BY <2>1, <2>2 DEF FirstStage, Asked, Made, Creating, Updating, Methods
  <2>4. tasks'[t].left # <<>> \/ d.op # "deleteKey"
    BY <2>1
  <2>5. /\ d.op \in Operations \intersect Methods
        /\ d.did \in 0 .. generated' /\ d.key \in 0 .. generated' /\ NameFits(d)
        /\ d.op = "deleteKey" => d.did = 0 /\ d.key # 0 /\ tasks'[t].left = <<d.key>>
    BY <1>0, <2>1 DEF Asked
  <2>6. /\ FirstStage(d) \in {"lookup", "check", "generate", "find", "read"}
        /\ FirstStage(d) = "lookup" => d.op = "getOrCreate" /\ d.did = 0
        /\ FirstStage(d) = "check" => d.op \in Made /\ d.did = 0
        /\ FirstStage(d) = "generate" => (d.op = "import" /\ d.did # 0) \/ (d.op \in Creating /\ d.did = 0)
        /\ FirstStage(d) = "find" => d.op = "deleteKey"
        /\ FirstStage(d) = "read" => d.op \in Updating \union {"delete"} /\ d.did # 0
    BY <2>3 DEF Made, Creating, Updating
  <2>7. d.op \in Updating \union {"delete"} => d.did # 0
    BY <2>3
  <2>8. QED
    BY <2>1, <2>4, <2>5, <2>6, <2>7 DEF Fits, NameFits
<1>4. CASE LookUp(t)
  BY <1>0, <1>1, <1>2, <1>4, LookUpStep DEF Becomes, Fits, NameFits, Made
<1>5. CASE CheckAlias(t)
  BY <1>0, <1>1, <1>2, <1>5, CheckStep DEF Becomes, Fits, NameFits, Made, Creating
<1>6. CASE Generate(t)
  <2>1. /\ c.op = "import" => c.did \in 1 .. generated
        /\ c.op # "import" => generated + 1 \in Kids /\ c.op \in Creating
        /\ Fits(tasks[t]) /\ tasks[t].stage = "generate" /\ c \in Call
    BY <1>1, <1>6, GeneratedKind, TaskFields
  <2> DEFINE k == IF c.op = "import" THEN c.did ELSE generated + 1
  <2>2. /\ Becomes(t, [c EXCEPT !.did = k], "list", tasks[t].was, tasks[t].left)
        /\ generated' = IF c.op = "import" THEN generated ELSE generated + 1
    BY <1>1, <1>6, <2>1, GenerateStep
  <2>3. k \in 0 .. generated' /\ k # 0
    BY <1>0, <2>1, <2>2
  <2> HIDE DEF k
  <2>4. /\ [c EXCEPT !.did = k].op = c.op /\ [c EXCEPT !.did = k].did = k
        /\ [c EXCEPT !.did = k].key = c.key /\ [c EXCEPT !.did = k].name = c.name
    BY <2>1 DEF Call
  <2>5. /\ tasks'[t].call.op = c.op /\ tasks'[t].call.did = k
        /\ tasks'[t].call.key = c.key /\ tasks'[t].call.name = c.name
        /\ tasks'[t].stage = "list" /\ tasks'[t].was \in {Blank, [Blank EXCEPT !.unchecked = TRUE]}
    BY <2>1, <2>2, <2>4 DEF Becomes, Fits
  <2>6. c.op \notin Updating \union {"delete", "deleteKey"}
    BY <2>1 DEF Creating, Updating
  <2>7. c.op \in Creating \union {"import"} /\ c.key \in 0 .. generated'
    BY <1>0, <2>1 DEF Fits
  <2>8. QED
    BY <2>1, <2>3, <2>5, <2>6, <2>7 DEF Fits, NameFits
<1>7. CASE List(t)
  <2>1. Fits(tasks[t]) /\ c.did \in Kids
    <3>1. Fits(tasks[t]) /\ tasks[t].stage = "list" /\ c \in Call
      BY <1>1, <1>7, TaskFields DEF List
    <3>2. QED BY <3>1 DEF Fits, Call
  <2>2. QED
    BY <1>0, <1>1, <1>2, <1>7, <2>1, ListStep DEF Becomes, Fits, NameFits, Made, Creating
<1>8. CASE Read(t)
  <2>1. Fits(tasks[t]) /\ tasks[t].stage = "read"
    BY <1>1, <1>8 DEF Read
  <2>2. CASE Stored(c.did) /\ c.op = "delete" /\ Becomes(t, c, AfterKey(dids[c.did].keys), tasks[t].was, dids[c.did].keys)
    BY <1>0, <2>1, <2>2 DEF Becomes, Fits, NameFits, Made, Updating, AfterKey
  <2>3. CASE Stored(c.did) /\ c.op # "delete" /\ Becomes(t, c, "save", dids[c.did], tasks[t].left)
    BY <1>0, <2>1, <2>3 DEF Becomes, Fits, NameFits, Made, Updating
  <2>4. QED BY <1>1, <1>2, <1>8, <2>2, <2>3, ReadStep
<1>9. CASE Find(t)
  BY <1>0, <1>1, <1>2, <1>9, FindStep DEF Becomes, Fits, NameFits
<1>10. CASE Erase(t)
  BY <1>0, <1>1, <1>2, <1>10, EraseStep DEF Becomes, Fits, NameFits
<1>11. CASE Unlist(t)
  <2>1. Fits(tasks[t]) /\ tasks[t].stage = "unlist" /\ tasks[t].left # <<>>
    BY <1>1, <1>11 DEF Unlist, Fits
  <2>2. c.op # "deleteKey" /\ Becomes(t, c, AfterKey(Tail(tasks[t].left)), tasks[t].was, Tail(tasks[t].left))
    BY <1>1, <1>2, <1>11, <2>1, UnlistStep
  <2>3. QED BY <1>0, <2>1, <2>2 DEF Becomes, Fits, NameFits, AfterKey
<1>12. CASE Save(t) \/ Drop(t) \/ Fail(t)
  BY <1>1, <1>2, <1>12, SaveStep, DropStep, FailStep
<1>14. CASE Swallow(t)
  <2>1. Fits(tasks[t]) /\ tasks[t].stage \in {"lookup", "check"} /\ generated' = generated
    BY <1>1, <1>14, SwallowStep
  <2>2. /\ tasks[t].was \in {Blank, [Blank EXCEPT !.unchecked = TRUE]}
        /\ [tasks[t].was EXCEPT !.unchecked = TRUE] = [Blank EXCEPT !.unchecked = TRUE]
    BY <2>1 DEF Fits, Blank
  <2> HIDE DEF c
  <2>3. CASE Becomes(t, tasks[t].call, "check", tasks[t].was, tasks[t].left) /\ tasks[t].stage = "lookup"
    BY <2>1, <2>2, <2>3 DEF Becomes, Fits, NameFits, Made
  <2>4. CASE /\ Becomes(t, tasks[t].call, "generate", [tasks[t].was EXCEPT !.unchecked = TRUE], tasks[t].left)
             /\ tasks[t].stage = "check"
    BY <2>1, <2>2, <2>4 DEF Becomes, Fits, NameFits, Made, Creating
  <2>5. QED BY <1>1, <1>14, <2>3, <2>4, SwallowStep
<1>13. QED
  BY <1>3, <1>4, <1>5, <1>6, <1>7, <1>8, <1>9, <1>10, <1>11, <1>12, <1>14 DEF StepOf

\* The tasks of the others stay, and a call that goes on acknowledges nothing,
\* stores nothing and stays the call it is, but for the key that it generates.
LEMMA StepShape ==
  ASSUME KeepsInv, NEW t \in Callers, StepOf(t)
  PROVE  /\ \A u \in Callers : u # t => tasks'[u] = tasks[u]
         /\ InProgress(t)' /\ ~(\E c : Begins(t, c)) =>
              /\ InProgress(t) /\ UNCHANGED <<dids, acknowledged>>
              /\ \/ tasks'[t].call = tasks[t].call /\ ~Generate(t)
                 \/ tasks'[t].call = tasks[t].call /\ tasks[t].call.op = "import" /\ Generate(t)
                 \/ /\ Generate(t) /\ tasks[t].call.op \in Creating /\ tasks[t].call.op # "import"
                    /\ tasks'[t].call = [tasks[t].call EXCEPT !.did = generated + 1]
<1>0. TypeOK /\ InProgress(t)' = (tasks'[t].stage # "idle") /\ InProgress(t) = (tasks[t].stage # "idle")
      /\ (InProgress(t) => Fits(tasks[t]))
  BY DEF KeepsInv, InProgress, StagesFit
<1>1. ASSUME NEW c, Ends(t, c)
      PROVE  ~InProgress(t)' /\ \A u \in Callers : u # t => tasks'[u] = tasks[u]
  BY <1>0, <1>1, BlankType DEF Ends
<1>2. ASSUME NEW call, NEW stage, NEW was, NEW left, Becomes(t, call, stage, was, left)
      PROVE  tasks'[t].call = call /\ \A u \in Callers : u # t => tasks'[u] = tasks[u]
  BY <1>2 DEF Becomes
<1>3. CASE \E c : Begins(t, c)
  BY <1>2, <1>3 DEF Begins
<1>4. CASE LookUp(t)
  BY <1>0, <1>1, <1>2, <1>4, LookUpStep DEF LookUp, Generate
<1>5. CASE CheckAlias(t)
  BY <1>0, <1>1, <1>2, <1>5, CheckStep DEF Generate
<1>6. CASE Generate(t)
  <2>1. /\ tasks[t].call.op = "import" => tasks[t].call.did \in 1 .. generated
        /\ tasks[t].call.op # "import" => generated + 1 \in Kids /\ tasks[t].call.op \in Creating
        /\ tasks[t].stage = "generate" /\ tasks[t].call \in Call
    BY <1>0, <1>6, GeneratedKind, TaskFields
  <2>2. UNCHANGED <<dids, acknowledged>>
    BY <1>6 DEF Generate
  <2>3. CASE tasks[t].call.op = "import"
    <3>1. Becomes(t, [tasks[t].call EXCEPT !.did = tasks[t].call.did], "list", tasks[t].was, tasks[t].left)
      BY <1>0, <1>6, <2>1, <2>3, GenerateStep
    <3>2. [tasks[t].call EXCEPT !.did = tasks[t].call.did] = tasks[t].call
      BY <2>1 DEF Call
    <3>3. QED BY <1>0, <1>2, <1>6, <2>1, <2>2, <2>3, <3>1, <3>2
  <2>4. CASE tasks[t].call.op # "import"
    <3>1. Becomes(t, [tasks[t].call EXCEPT !.did = generated + 1], "list", tasks[t].was, tasks[t].left)
      BY <1>0, <1>6, <2>1, <2>4, GenerateStep
    <3>2. QED BY <1>0, <1>2, <1>6, <2>1, <2>2, <2>4, <3>1
  <2>5. QED BY <2>3, <2>4
<1>7. CASE List(t)
  <2>1. tasks[t].call.did \in Kids
    <3>1. Fits(tasks[t]) /\ tasks[t].stage = "list" /\ tasks[t].call \in Call
      BY <1>0, <1>7, TaskFields DEF List
    <3>2. QED BY <3>1 DEF Fits, Call
  <2>2. QED BY <1>0, <1>1, <1>2, <1>7, <2>1, ListStep DEF Generate
<1>8. CASE Read(t)
  BY <1>0, <1>1, <1>2, <1>8, ReadStep DEF Generate
<1>9. CASE Find(t)
  BY <1>0, <1>1, <1>2, <1>9, FindStep DEF Generate
<1>10. CASE Erase(t)
  BY <1>0, <1>1, <1>2, <1>10, EraseStep DEF Generate
<1>11. CASE Unlist(t)
  <2>1. tasks[t].left # <<>>
    BY <1>0, <1>11 DEF Unlist, Fits
  <2>2. QED BY <1>0, <1>1, <1>2, <1>11, <2>1, UnlistStep DEF Generate
<1>12. CASE Save(t) \/ Drop(t) \/ Fail(t)
  BY <1>0, <1>1, <1>12, SaveStep, DropStep, FailStep
<1>14. CASE Swallow(t)
  BY <1>0, <1>2, <1>14, SwallowStep DEF Generate
<1>13. QED
  BY <1>3, <1>4, <1>5, <1>6, <1>7, <1>8, <1>9, <1>10, <1>11, <1>12, <1>14 DEF StepOf

LEMMA StagesStep ==
  ASSUME KeepsInv, Next
  PROVE  StagesFit'
<1>1. PICK t \in Callers : StepOf(t)
  BY StepOfOne DEF KeepsInv
<1>2. ASSUME NEW u \in Callers, InProgress(u)' PROVE Fits(tasks[u])'
  <2>1. CASE u = t
    BY <1>1, <1>2, <2>1, OwnFit
  <2>2. CASE u # t
    <3>1. tasks'[u] = tasks[u]
      BY <1>1, <2>2, StepShape
    <3>2. TypeOK /\ StagesFit
      BY DEF KeepsInv
    <3>3. generated' \in Nat /\ generated <= generated'
      BY GeneratedGrows
    <3>4. QED BY <1>2, <3>1, <3>2, <3>3, StaysFit
  <2>3. QED BY <2>1, <2>2
<1>3. QED BY <1>2 DEF StagesFit

LEMMA RoomStep ==
  ASSUME KeepsInv, Next
  PROVE  RoomIsLeft'
<1>1. PICK t \in Callers : StepOf(t)
  BY StepOfOne DEF KeepsInv
<1>2. \A u \in Callers : u # t => tasks'[u] = tasks[u]
  BY <1>1, StepShape
<1>3. ASSUME NEW S \in SUBSET Callers PROVE IsFiniteSet(S) /\ Cardinality(S) \in Nat
  BY FS_Subset, FS_CardinalityType, IdentifiersAssumption DEF IdentifiersAssumption
<1>4. ToGenerate \in SUBSET Callers /\ ToGenerate' \in SUBSET Callers
  BY DEF ToGenerate, Running
<1>5. \A u \in Callers : u # t => (u \in ToGenerate' <=> u \in ToGenerate)
  BY <1>2 DEF ToGenerate, Running
<1>6. /\ generated \in Nat /\ MaxKeys \in Nat /\ generated + Cardinality(ToGenerate) <= MaxKeys
      /\ Cardinality(ToGenerate) \in Nat /\ Cardinality(ToGenerate') \in Nat
  BY <1>3, <1>4, IdentifiersAssumption DEF KeepsInv, TypeOK, RoomIsLeft, IdentifiersAssumption
<1>7. ASSUME ToGenerate' \subseteq ToGenerate PROVE Cardinality(ToGenerate') <= Cardinality(ToGenerate)
  BY <1>3, <1>4, <1>7, FS_Subset
<1>8. CASE \E c : Begins(t, c)
  <2>1. PICK c : Begins(t, c)
    BY <1>8
  <2>2. generated' = generated /\ tasks'[t].call = c
    BY <2>1 DEF Begins, Becomes
  <2>3. CASE c.op \in Creating
    <3>1. ToGenerate' \subseteq ToGenerate \union {t}
      BY <1>4, <1>5
    <3>2. Cardinality(ToGenerate \union {t}) <= Cardinality(ToGenerate) + 1
      BY <1>3, <1>4, <1>6, FS_AddElement
    <3>3. Cardinality(ToGenerate') <= Cardinality(ToGenerate \union {t})
      BY <1>3, <1>4, <3>1, FS_Subset
    <3>4. Cardinality(ToGenerate \union {t}) \in Nat
      BY <1>3, <1>4
    <3>5. generated + Cardinality(ToGenerate) < MaxKeys
      BY <2>1, <2>3 DEF Begins
    <3>6. QED BY <1>6, <2>2, <3>2, <3>3, <3>4, <3>5 DEF RoomIsLeft
  <2>4. CASE c.op \notin Creating
    <3>1. t \notin ToGenerate'
      BY <2>2, <2>4 DEF ToGenerate
    <3>2. ToGenerate' \subseteq ToGenerate
      BY <1>4, <1>5, <3>1
    <3>3. QED BY <1>6, <1>7, <2>2, <3>2 DEF RoomIsLeft
  <2>5. QED BY <2>3, <2>4
<1>9. CASE Generate(t) /\ tasks[t].call.op # "import"
  <2>1. t \in ToGenerate /\ generated' = generated + 1
    BY <1>9, GeneratedKind DEF Generate
  <2>2. t \notin ToGenerate'
    <3>1. tasks'[t].stage = "list"
      BY <1>9, GeneratedKind, GenerateStep DEF KeepsInv, Becomes, Creating
    <3>2. QED BY <3>1 DEF ToGenerate
  <2>3. ToGenerate' \subseteq ToGenerate \ {t}
    BY <1>4, <1>5, <2>2
  <2>4. Cardinality(ToGenerate \ {t}) = Cardinality(ToGenerate) - 1
    BY <1>3, <1>4, <2>1, FS_RemoveElement
  <2>5. Cardinality(ToGenerate') <= Cardinality(ToGenerate \ {t}) /\ Cardinality(ToGenerate \ {t}) \in Nat
    BY <1>3, <1>4, <2>3, FS_Subset
  <2>6. QED BY <1>6, <2>1, <2>4, <2>5 DEF RoomIsLeft
<1>10. CASE ~(\E c : Begins(t, c)) /\ ~(Generate(t) /\ tasks[t].call.op # "import")
  <2>1. generated' = generated
    BY <1>1, <1>10 DEF StepOf, LookUp, CheckAlias, Generate, List, Read, Save, Find, Erase, Unlist, Drop, Fail, Swallow
  <2>2. t \in ToGenerate' => t \in ToGenerate
    <3>1. SUFFICES ASSUME t \in ToGenerate' PROVE t \in ToGenerate
      OBVIOUS
    <3>2. /\ InProgress(t)' /\ tasks'[t].call.op \in Creating
          /\ tasks'[t].stage \in {"lookup", "check", "generate"}
      BY <3>1 DEF ToGenerate, Running, InProgress
    <3>3. tasks'[t].call = tasks[t].call /\ InProgress(t)
      BY <1>1, <1>10, <3>2, StepShape
    <3>4. LookUp(t) \/ CheckAlias(t) \/ Swallow(t)
      <4>1. ASSUME Generate(t) PROVE FALSE
        <5>1. tasks[t].call.op = "import"
          BY <1>10, <4>1
        <5>2. QED BY <3>2, <3>3, <5>1 DEF Creating
      <4>2. ASSUME List(t) \/ Read(t) PROVE tasks'[t].stage \notin {"lookup", "check", "generate"}
        <5>1. TypeOK /\ Fits(tasks[t]) /\ tasks[t].call \in Call
          BY <3>3, TaskFields DEF KeepsInv, StagesFit
        <5>2. List(t) => tasks[t].call.did \in Kids
          BY <5>1 DEF Fits, Call, List
        <5>3. \A c : ~Ends(t, c)
          BY <3>2, BlankType DEF Ends, InProgress
        <5>4. CASE List(t)
          BY <5>1, <5>2, <5>3, <5>4, ListStep DEF Becomes
        <5>5. CASE Read(t)
          BY <5>1, <5>3, <5>5, ReadStep DEF Becomes, AfterKey
        <5>6. QED BY <4>2, <5>4, <5>5
      <4>3. ASSUME Find(t) \/ Erase(t) \/ Unlist(t) PROVE tasks'[t].stage \notin {"lookup", "check", "generate"}
        <5>1. TypeOK /\ Fits(tasks[t])
          BY <3>3 DEF KeepsInv, StagesFit
        <5>2. Unlist(t) => tasks[t].left # <<>>
          BY <5>1 DEF Fits, Unlist
        <5>3. \A c : ~Ends(t, c)
          BY <3>2, BlankType DEF Ends, InProgress
        <5>4. QED BY <4>3, <5>1, <5>2, <5>3, FindStep, EraseStep, UnlistStep DEF Becomes, AfterKey
      <4>4. ASSUME Save(t) \/ Drop(t) \/ Fail(t) PROVE FALSE
        <5>1. \A c : ~Ends(t, c)
          BY <3>2, BlankType DEF Ends, InProgress
        <5>2. QED BY <4>4, <5>1, SaveStep, DropStep, FailStep DEF KeepsInv
      <4>5. QED BY <1>1, <1>10, <3>2, <4>1, <4>2, <4>3, <4>4 DEF StepOf
    <3>5. tasks[t].stage \in {"lookup", "check"}
      BY <3>4 DEF LookUp, CheckAlias, Swallow
    <3>6. QED BY <3>2, <3>3, <3>5 DEF ToGenerate, Running
  <2>3. ToGenerate' \subseteq ToGenerate
    BY <1>4, <1>5, <2>2
  <2>4. QED BY <1>6, <1>7, <2>1, <2>3 DEF RoomIsLeft
<1>11. QED BY <1>8, <1>9, <1>10

------------------------------------------------------------------------------
(* What is acknowledged                                                    *)

\* A call that is acknowledged has just ended.
LEMMA NewlyAcknowledged ==
  ASSUME KeepsInv, NEW t \in Callers, StepOf(t), NEW a \in acknowledged', a \notin acknowledged
  PROVE  /\ ~InProgress(t)'
         /\ a.op \in Methods \ {"createKey", "deleteKey"} /\ a.did \in 1 .. generated
         /\ \A u \in Callers : u # t /\ InProgress(u) => ~Undoes(tasks[u].call, a)
         /\ \/ LookUp(t) /\ a.op = "getOrCreate" /\ Stored(a.did)
            \/ Save(t) /\ a = tasks[t].call
            \/ Drop(t) /\ a = tasks[t].call
<1>0. TypeOK /\ (tasks[t].stage # "idle" => Fits(tasks[t])) /\ tasks[t].call \in Call /\ generated \in Nat
  BY TaskFields DEF KeepsInv, InProgress, StagesFit, TypeOK
<1>1. ASSUME NEW c, Ends(t, c), acknowledged' # acknowledged
      PROVE  /\ ~InProgress(t)' /\ a = c
             /\ \A u \in Callers : u # t /\ InProgress(u) => ~Undoes(tasks[u].call, a)
             /\ a.op \notin {"createKey", "deleteKey"}
  BY <1>1, BlankType DEF Ends, InProgress, Running
<1>2. acknowledged' # acknowledged
  OBVIOUS
<1>3. CASE LookUp(t)
  <2>1. PICK d \in DOMAIN dids : Ends(t, [tasks[t].call EXCEPT !.did = d])
    BY <1>0, <1>2, <1>3, LookUpStep
  <2>2. tasks[t].stage = "lookup" /\ Fits(tasks[t])
    BY <1>0, <1>3 DEF LookUp
  <2>3. a.op = "getOrCreate" /\ a.did = d
    BY <1>0, <1>1, <1>2, <2>1, <2>2 DEF Fits, Call
  <2>4. d \in 1 .. generated /\ Stored(d)
    BY <1>0 DEF TypeOK, Stored
  <2>5. QED BY <1>1, <1>2, <1>3, <2>1, <2>3, <2>4 DEF Methods, Creating
<1>4. CASE Save(t)
  <2>1. Ends(t, tasks[t].call) /\ tasks[t].stage = "save" /\ Fits(tasks[t])
    BY <1>0, <1>4, SaveStep
  <2>2. tasks[t].call.did \in 1 .. generated /\ tasks[t].call.op \in Methods
    BY <1>0, <2>1 DEF Fits
  <2>3. QED BY <1>1, <1>2, <1>4, <2>1, <2>2
<1>5. CASE Drop(t)
  <2>1. Ends(t, tasks[t].call) /\ tasks[t].stage = "drop" /\ Fits(tasks[t])
    BY <1>0, <1>5, DropStep
  <2>2. tasks[t].call.did \in 1 .. generated /\ tasks[t].call.op \in Methods
    BY <1>0, <2>1 DEF Fits
  <2>3. QED BY <1>1, <1>2, <1>5, <2>1, <2>2
<1>6. CASE ~LookUp(t) /\ ~Save(t) /\ ~Drop(t)
  <2>1. ASSUME NEW c, Begins(t, c) PROVE FALSE
    BY <2>1 DEF Begins
  <2>2. ASSUME Generate(t) \/ Erase(t) PROVE FALSE
    BY <1>2, <2>2 DEF Generate, Erase
  <2>3. ASSUME CheckAlias(t) \/ Read(t) \/ Find(t) \/ Fail(t) \/ Swallow(t) PROVE FALSE
    BY <1>0, <1>2, <2>3, CheckStep, ReadStep, FindStep, FailStep, SwallowStep
  <2>4. ASSUME List(t) PROVE FALSE
    <3>1. tasks[t].call.did \in Kids
      BY <1>0, <2>4 DEF Fits, Call, List
    <3>2. QED BY <1>0, <1>2, <2>4, <3>1, ListStep
  <2>5. ASSUME Unlist(t) PROVE FALSE
    <3>1. tasks[t].left # <<>>
      BY <1>0, <2>5 DEF Fits, Unlist
    <3>2. QED BY <1>0, <1>2, <2>5, <3>1, UnlistStep
  <2>6. QED BY <1>6, <2>1, <2>2, <2>3, <2>4, <2>5 DEF StepOf
<1>7. QED BY <1>3, <1>4, <1>5, <1>6

\* A new key is in nobody's way.
LEMMA NewKey ==
  ASSUME KeepsInv, NEW u \in Callers, InProgress(u)
  PROVE  /\ generated + 1 \notin Touches(tasks[u].call)
         /\ Touches(tasks[u].call) \subseteq 1 .. generated
<1>1. Fits(tasks[u]) /\ generated \in Nat
  BY DEF KeepsInv, StagesFit, TypeOK
<1>2. QED BY <1>1 DEF Fits, Touches

LEMMA ConflictIsMutual == \A c, d : Conflict(c, d) => Conflict(d, c)
  BY DEF Conflict

LEMMA DisjointStep ==
  ASSUME KeepsInv, Next, Exclusive
  PROVE  CallsAreDisjoint'
<1>1. PICK t \in Callers : StepOf(t)
  BY StepOfOne DEF KeepsInv
<1>2. \A u \in Callers : u # t => tasks'[u] = tasks[u]
  BY <1>1, StepShape
<1>3. ASSUME NEW u \in Callers, u # t, InProgress(u), InProgress(t)'
      PROVE  ~Conflict(tasks'[t].call, tasks[u].call)
  <2>1. CASE \E c : Begins(t, c)
    BY <1>3, <2>1 DEF Begins, Becomes, Running, InProgress
  <2>2. CASE InProgress(t) /\ tasks'[t].call = tasks[t].call
    BY <1>3, <2>2 DEF KeepsInv, CallsAreDisjoint
  <2>3. CASE InProgress(t) /\ tasks'[t].call = [tasks[t].call EXCEPT !.did = generated + 1]
    <3> DEFINE c == tasks[t].call
               d == tasks[u].call
    <3>1. ~Conflict(c, d)
      BY <1>3, <2>3 DEF KeepsInv, CallsAreDisjoint
    <3>2. c \in Call
      BY TaskFields DEF KeepsInv
    <3>3. /\ [c EXCEPT !.did = generated + 1].did = generated + 1
          /\ [c EXCEPT !.did = generated + 1].key = c.key
          /\ [c EXCEPT !.did = generated + 1].op = c.op
          /\ [c EXCEPT !.did = generated + 1].name = c.name
      BY <3>2 DEF Call
    <3>4. Touches([c EXCEPT !.did = generated + 1]) \subseteq Touches(c) \union {generated + 1}
      BY <3>3 DEF Touches
    <3>5. generated + 1 \notin Touches(d)
      BY <1>3, NewKey
    <3>6. Touches([c EXCEPT !.did = generated + 1]) \intersect Touches(d) = {}
      BY <3>1, <3>4, <3>5 DEF Conflict
    <3>7. ~(SetsAlias([c EXCEPT !.did = generated + 1]) /\ SetsAlias(d) /\ c.name = d.name)
      BY <3>1, <3>3 DEF Conflict, SetsAlias
    <3>8. ~Conflict([c EXCEPT !.did = generated + 1], d)
      BY <3>3, <3>6, <3>7 DEF Conflict
    <3>9. QED BY <2>3, <3>8
  <2>4. QED BY <1>1, <1>3, <2>1, <2>2, <2>3, StepShape
<1>4. ASSUME NEW u \in Callers, NEW v \in Callers, u # v, InProgress(u)', InProgress(v)'
      PROVE  ~Conflict(tasks'[u].call, tasks'[v].call)
  <2>1. CASE u = t
    BY <1>2, <1>3, <1>4, <2>1 DEF InProgress
  <2>2. CASE v = t
    BY <1>2, <1>3, <1>4, <2>2, ConflictIsMutual DEF InProgress
  <2>3. CASE u # t /\ v # t
    BY <1>2, <1>4, <2>3 DEF InProgress, KeepsInv, CallsAreDisjoint
  <2>4. QED BY <2>1, <2>2, <2>3
<1>5. CallsAreDisjoint' <=> \A u, v \in Callers : InProgress(u)' /\ InProgress(v)' /\ u # v =>
                              ~Conflict(tasks'[u].call, tasks'[v].call)
  BY DEF CallsAreDisjoint, Conflict, Touches, SetsAlias
<1>6. QED BY <1>4, <1>5

LEMMA UndoneStep ==
  ASSUME KeepsInv, Next
  PROVE  NothingIsUndone'
<1>1. PICK t \in Callers : StepOf(t)
  BY StepOfOne DEF KeepsInv
<1>2. \A u \in Callers : u # t => tasks'[u] = tasks[u]
  BY <1>1, StepShape
<1>3. generated \in Nat /\ generated' \in Nat /\ generated <= generated'
  BY GeneratedGrows
<1>4. ASSUME NEW a \in acknowledged'
      PROVE  a.did \in 1 .. generated' /\ a.op \in Methods \ {"createKey", "deleteKey"}
  <2>1. a.did \in 1 .. generated /\ a.op \in Methods \ {"createKey", "deleteKey"}
    BY <1>1, <1>4, NewlyAcknowledged DEF KeepsInv, NothingIsUndone
  <2>2. QED BY <1>3, <2>1
<1>5. ASSUME NEW a \in acknowledged', NEW u \in Callers, InProgress(u)'
      PROVE  ~Undoes(tasks'[u].call, a)
  <2>1. CASE u # t
    <3>1. tasks'[u] = tasks[u] /\ InProgress(u)
      BY <1>2, <1>5, <2>1 DEF InProgress
    <3>2. QED BY <1>1, <1>5, <2>1, <3>1, NewlyAcknowledged DEF KeepsInv, NothingIsUndone
  <2>2. CASE u = t
    <3>1. CASE \E c : Begins(t, c)
      BY <1>5, <2>2, <3>1 DEF Begins, Becomes
    <3>2. CASE InProgress(t) /\ tasks'[t].call = tasks[t].call /\ UNCHANGED acknowledged
      BY <1>5, <2>2, <3>2 DEF KeepsInv, NothingIsUndone
    <3>3. CASE tasks'[t].call = [tasks[t].call EXCEPT !.did = generated + 1] /\ UNCHANGED acknowledged
      <4>1. tasks[t].call \in Call
        BY TaskFields DEF KeepsInv
      <4>2. tasks'[t].call.did = generated + 1
        BY <3>3, <4>1 DEF Call
      <4>3. a.did \in 1 .. generated
        BY <1>5, <3>3 DEF KeepsInv, NothingIsUndone
      <4>4. tasks'[t].call.did # a.did
        BY <1>3, <4>2, <4>3
      <4>5. QED BY <2>2, <4>4 DEF Undoes
    <3>4. QED BY <1>1, <1>5, <2>2, <3>1, <3>2, <3>3, StepShape
  <2>3. QED BY <2>1, <2>2
<1>6. NothingIsUndone' <=>
        /\ \A a \in acknowledged' : a.did \in 1 .. generated' /\ a.op \in Methods \ {"createKey", "deleteKey"}
        /\ \A a \in acknowledged', u \in Callers : InProgress(u)' => ~Undoes(tasks'[u].call, a)
  BY DEF NothingIsUndone, Undoes
<1>7. QED BY <1>4, <1>5, <1>6

------------------------------------------------------------------------------
(* Copies and promises                                                     *)

\* A step changes no identifier but that of its own call.
LEMMA OthersKept ==
  ASSUME KeepsInv, NEW t \in Callers, StepOf(t)
  PROVE  /\ \A d : d # tasks[t].call.did =>
              /\ d \in DOMAIN dids' <=> d \in DOMAIN dids
              /\ d \in DOMAIN dids => dids'[d] = dids[d]
         /\ dids' # dids => (Save(t) \/ Drop(t)) /\ InProgress(t) /\ tasks[t].call.did \in 1 .. generated
<1>1. CASE Save(t)
  <2>1. tasks[t].call.did \in 1 .. generated
    BY <1>1, StoreTyped
  <2>2. dids' = [d \in DOMAIN dids \union {tasks[t].call.did} |->
                   IF d = tasks[t].call.did THEN Updated(tasks[t].call, tasks[t].was) ELSE dids[d]]
    BY <1>1, SaveStep DEF KeepsInv
  <2>3. QED BY <1>1, <2>1, <2>2 DEF Save, InProgress
<1>2. CASE Drop(t)
  <2>1. dids' = [d \in DOMAIN dids \ {tasks[t].call.did} |-> dids[d]]
    BY <1>2, DropStep DEF KeepsInv
  <2>2. InProgress(t) /\ tasks[t].call.did \in 1 .. generated
    <3>1. InProgress(t) /\ tasks[t].stage = "drop" /\ generated \in Nat
      BY <1>2 DEF Drop, InProgress, KeepsInv, TypeOK
    <3>2. Fits(tasks[t])
      BY <3>1 DEF KeepsInv, StagesFit
    <3>3. QED BY <3>1, <3>2 DEF Fits
  <2>3. QED BY <1>2, <2>1, <2>2
<1>3. CASE ~Save(t) /\ ~Drop(t)
  <2>1. dids' = dids
    BY <1>3 DEF StepOf, Begins, LookUp, CheckAlias, Generate, List, Read, Find, Erase, Unlist, Fail, Swallow
  <2>2. QED BY <2>1
<1>4. QED BY <1>1, <1>2, <1>3

\* The ways to the stages "list" and "save".
LEMMA Arrives ==
  ASSUME KeepsInv, NEW t \in Callers, StepOf(t), tasks'[t].stage \in {"list", "save"}
  PROVE  LET c == tasks[t].call IN
         /\ UNCHANGED <<dids, acknowledged>>
         /\ \/ Generate(t) /\ tasks'[t].stage = "list"
            \/ /\ List(t) /\ c.op # "createKey"
               /\ \E was : was.keys = <<c.did>> /\ Becomes(t, c, "save", was, tasks[t].left)
            \/ /\ Read(t) /\ Stored(c.did) /\ c.op # "delete"
               /\ Becomes(t, c, "save", dids[c.did], tasks[t].left)
<1>0. TypeOK /\ (tasks[t].stage # "idle" => Fits(tasks[t]))
  BY DEF KeepsInv, InProgress, StagesFit
<1>1. \A d : ~Ends(t, d)
  BY BlankType DEF Ends
<1>2. ASSUME NEW c, Begins(t, c) PROVE FALSE
  BY <1>2 DEF Begins, Becomes, FirstStage
<1>3. ASSUME LookUp(t) \/ CheckAlias(t) \/ Swallow(t) PROVE FALSE
  BY <1>0, <1>1, <1>3, LookUpStep, CheckStep, SwallowStep DEF Becomes
<1>4. ASSUME Find(t) \/ Erase(t) PROVE FALSE
  BY <1>0, <1>1, <1>4, FindStep, EraseStep DEF Becomes
<1>5. ASSUME Unlist(t) PROVE FALSE
  <2>1. tasks[t].left # <<>>
    BY <1>0, <1>5 DEF Unlist, Fits
  <2>2. QED BY <1>0, <1>1, <1>5, <2>1, UnlistStep DEF Becomes, AfterKey
<1>6. ASSUME Save(t) \/ Drop(t) \/ Fail(t) PROVE FALSE
  BY <1>0, <1>1, <1>6, SaveStep, DropStep, FailStep
<1>7. CASE Generate(t)
  BY <1>0, <1>7, GenerateStep, GeneratedKind DEF Generate, Becomes
<1>8. CASE List(t)
  <2>1. tasks[t].call.did \in Kids
    <3>1. Fits(tasks[t]) /\ tasks[t].stage = "list" /\ tasks[t].call \in Call
      BY <1>0, <1>8, TaskFields DEF List
    <3>2. QED BY <3>1 DEF Fits, Call
  <2>2. QED BY <1>0, <1>1, <1>8, <2>1, ListStep
<1>9. CASE Read(t)
  BY <1>0, <1>1, <1>9, ReadStep DEF Becomes, AfterKey
<1>10. QED
  BY <1>2, <1>3, <1>4, <1>5, <1>6, <1>7, <1>8, <1>9 DEF StepOf

\* Two calls in progress are not about the same identifier.
LEMMA Apart ==
  ASSUME CallsAreDisjoint, NEW t \in Callers, NEW u \in Callers, t # u, InProgress(t), InProgress(u),
         tasks[t].call.did # 0
  PROVE  tasks[t].call.did # tasks[u].call.did
  BY DEF CallsAreDisjoint, Conflict, Touches

LEMMA CopiesStep ==
  ASSUME KeepsInv, Next
  PROVE  CopiesAreCurrent'
<1>1. PICK t \in Callers : StepOf(t)
  BY StepOfOne DEF KeepsInv
<1>2. TypeOK /\ generated \in Nat
  BY DEF KeepsInv, TypeOK
<1>3. ASSUME NEW u \in Callers, tasks'[u].stage \in {"list", "save"}
      PROVE  LET c == tasks'[u].call IN
             /\ tasks'[u].stage = "save" /\ c.op \in Updating => c.did \in DOMAIN dids' /\ tasks'[u].was = dids'[c.did]
             /\ tasks'[u].stage = "save" /\ c.op \notin Updating => tasks'[u].was.keys = <<c.did>>
             /\ c.op \in Made => c.did \notin DOMAIN dids' /\ \A a \in acknowledged' : a.did # c.did
  <2> DEFINE c == tasks[u].call
  <2>1. CASE u # t
    <3>1. tasks'[u] = tasks[u] /\ InProgress(u)
      BY <1>1, <1>3, <2>1, StepShape DEF InProgress
    <3>2. Fits(tasks[u]) /\ c.did # 0
      BY <1>3, <3>1 DEF KeepsInv, StagesFit, Fits
    <3>3. InProgress(t) => c.did # tasks[t].call.did
      BY <2>1, <3>1, <3>2, Apart DEF KeepsInv
    <3>4. /\ c.did \in DOMAIN dids' <=> Stored(c.did)
          /\ Stored(c.did) => dids'[c.did] = dids[c.did]
      BY <1>1, <3>3, OthersKept DEF Stored
    <3>5. ASSUME c.op \in Made, NEW a \in acknowledged' PROVE a.did # c.did
      <4>1. CASE a \in acknowledged
        BY <1>3, <3>1, <3>5, <4>1 DEF KeepsInv, CopiesAreCurrent
      <4>2. CASE a \notin acknowledged
        <5>1. ~Stored(c.did)
          BY <1>3, <3>1, <3>5 DEF KeepsInv, CopiesAreCurrent
        <5>2. CASE Stored(a.did)
          BY <5>1, <5>2
        <5>3. CASE (Save(t) \/ Drop(t)) /\ a = tasks[t].call
          BY <3>3, <5>3 DEF Save, Drop, InProgress
        <5>4. QED BY <1>1, <3>5, <4>2, <5>2, <5>3, NewlyAcknowledged
      <4>3. QED BY <4>1, <4>2
    <3>6. QED
      BY <1>3, <3>1, <3>4, <3>5 DEF KeepsInv, CopiesAreCurrent, Stored
  <2>2. CASE u = t
    <3>0. /\ UNCHANGED <<dids, acknowledged>> /\ InProgress(t)
          /\ Fits(tasks[t]) /\ c \in Call
      <4>1. UNCHANGED <<dids, acknowledged>>
        BY <1>1, <1>3, <2>2, Arrives
      <4>2. InProgress(t)
        BY <1>1, <1>3, <2>2, Arrives DEF Generate, List, Read, InProgress
      <4>3. QED BY <1>2, <2>2, <4>1, <4>2, TaskFields DEF KeepsInv, StagesFit
    <3>1. CASE Generate(t) /\ tasks'[t].stage = "list"
      <4>1. ~(\E d : Begins(t, d))
        BY <3>0 DEF Begins
      <4>2. \/ tasks'[t].call.op = "import"
            \/ tasks'[t].call = [c EXCEPT !.did = generated + 1]
        BY <1>1, <1>3, <2>2, <3>1, <4>1, StepShape DEF InProgress
      <4>3. CASE tasks'[t].call.op = "import"
        BY <2>2, <3>1, <4>3 DEF Made
      <4>4. CASE tasks'[t].call = [c EXCEPT !.did = generated + 1]
        <5>1. tasks'[t].call.did = generated + 1
          BY <3>0, <4>4 DEF Call
        <5>2. generated + 1 \notin DOMAIN dids'
          BY <1>2, <3>0 DEF TypeOK
        <5>3. \A a \in acknowledged' : a.did # generated + 1
          BY <1>2, <3>0 DEF KeepsInv, NothingIsUndone
        <5>4. QED BY <2>2, <3>1, <5>1, <5>2, <5>3
      <4>5. QED BY <4>2, <4>3, <4>4
    <3>2. CASE /\ List(t) /\ c.op # "createKey"
               /\ \E was : was.keys = <<c.did>> /\ Becomes(t, c, "save", was, tasks[t].left)
      <4>1. tasks[t].stage = "list"
        BY <3>2 DEF List
      <4>2. /\ tasks'[t].call = c /\ tasks'[t].stage = "save"
            /\ tasks'[t].was.keys = <<c.did>>
        BY <3>2 DEF Becomes
      <4>3. c.op \notin Updating
        BY <2>2, <3>0, <4>1 DEF Fits, Creating, Updating
      <4>4. c.op \in Made => ~Stored(c.did) /\ \A a \in acknowledged : a.did # c.did
        BY <2>2, <4>1 DEF KeepsInv, CopiesAreCurrent
      <4>5. QED BY <2>2, <3>0, <4>2, <4>3, <4>4 DEF Stored
    <3>3. CASE /\ Read(t) /\ Stored(c.did) /\ c.op # "delete"
               /\ Becomes(t, c, "save", dids[c.did], tasks[t].left)
      <4>1. tasks'[t].call = c /\ tasks'[t].stage = "save" /\ tasks'[t].was = dids[c.did]
        BY <3>3 DEF Becomes
      <4>2. c.op \in Updating
        BY <2>2, <3>0, <3>3 DEF Read, Fits
      <4>3. c.op \notin Made
        BY <4>2 DEF Updating, Made
      <4>4. QED BY <2>2, <3>0, <3>3, <4>1, <4>2, <4>3 DEF Stored
    <3>4. QED BY <1>1, <1>3, <2>2, <3>1, <3>2, <3>3, Arrives
  <2>3. QED BY <2>1, <2>2
<1>4. QED BY <1>3 DEF CopiesAreCurrent, Stored

\* What an update leaves as a call has acknowledged it.
LEMMA PromiseKept ==
  ASSUME KeepsInv, NEW t \in Callers, Save(t), NEW a \in acknowledged, a.did = tasks[t].call.did
  PROVE  Holds(a)'
<1> DEFINE c == tasks[t].call
           new == Updated(c, tasks[t].was)
<1>0. /\ TypeOK /\ tasks[t].stage = "save" /\ InProgress(t) /\ Fits(tasks[t])
      /\ c \in Call /\ tasks[t].was \in Identifier
  <2>1. TypeOK /\ tasks[t].stage = "save" /\ InProgress(t) /\ Fits(tasks[t])
    BY DEF Save, KeepsInv, StagesFit, InProgress
  <2>2. QED BY <2>1, TaskFields
<1>1. ~Undoes(c, a) /\ Holds(a)
  BY <1>0 DEF KeepsInv, NothingIsUndone, AcknowledgedUpdatesStay
<1>2. c.op \in Updating
  <2>1. c.op \notin Made
    BY <1>0 DEF KeepsInv, CopiesAreCurrent
  <2>2. c.op # "import"
    BY <1>1 DEF Undoes
  <2>3. QED BY <1>0, <2>1, <2>2 DEF Fits
<1>3. Stored(c.did) /\ tasks[t].was = dids[c.did]
  BY <1>0, <1>2 DEF KeepsInv, CopiesAreCurrent
<1>4. /\ c.op \in Made \union Unlooked => c.name \in Aliases \union {None}
      /\ c.op = "addService" => c.name \in Services
      /\ c.op = "addKey" => c.key \in Kids
  BY <1>0 DEF Fits, NameFits, Made, Call
<1>5. /\ Elements(new.keys) =
           IF c.op = "addKey" THEN Elements(dids[a.did].keys) \union {c.key}
           ELSE IF c.op = "removeKey" THEN Elements(dids[a.did].keys) \ {c.key}
           ELSE Elements(dids[a.did].keys)
      /\ new.alias = IF c.op \in Made \union Unlooked THEN c.name ELSE dids[a.did].alias
      /\ new.services =
           IF c.op = "addService" THEN dids[a.did].services \union {c.name}
           ELSE IF c.op = "removeService" THEN dids[a.did].services \ {c.name}
           ELSE dids[a.did].services
  <2>1. /\ Elements(new.keys) =
             IF c.op = "addKey" THEN Elements(tasks[t].was.keys) \union {c.key}
             ELSE IF c.op = "removeKey" THEN Elements(tasks[t].was.keys) \ {c.key}
             ELSE Elements(tasks[t].was.keys)
        /\ new.alias = IF c.op \in Made \union Unlooked THEN c.name ELSE tasks[t].was.alias
        /\ new.services =
             IF c.op = "addService" THEN tasks[t].was.services \union {c.name}
             ELSE IF c.op = "removeService" THEN tasks[t].was.services \ {c.name}
             ELSE tasks[t].was.services
    BY <1>0, <1>4, UpdatedType
  <2>2. tasks[t].was = dids[a.did]
    BY <1>3
  <2> HIDE DEF new
  <2>3. QED BY <2>1, <2>2
<1>6. a.did \in DOMAIN dids' /\ dids'[a.did] = new
  <2>1. dids' = [d \in DOMAIN dids \union {c.did} |-> IF d = c.did THEN new ELSE dids[d]]
    BY <1>0, SaveStep
  <2> HIDE DEF new
  <2>2. QED BY <2>1
<1>7. a.op # "delete"
  BY <1>1 DEF Undoes
<1>8. CASE a.op = "setAlias"
  <2>1. c.op = "setAlias" => c.name = a.name
    BY <1>1, <1>8 DEF Undoes
  <2>2. dids'[a.did].alias = a.name
    <3>1. new.alias = IF c.op \in Made \union Unlooked THEN c.name ELSE dids[a.did].alias
      BY <1>5
    <3>2. dids[a.did].alias = a.name
      BY <1>1, <1>8 DEF Holds
    <3> HIDE DEF new
    <3>3. QED BY <1>2, <1>6, <2>1, <3>1, <3>2 DEF Updating, Made, Unlooked
  <2>3. QED BY <1>6, <1>8, <2>2 DEF Holds, Stored
<1>9. CASE a.op = "addKey"
  <2>1. c.op = "removeKey" => c.key # a.key
    BY <1>1, <1>9 DEF Undoes
  <2>2. a.key \in Elements(dids[a.did].keys)
    BY <1>1, <1>9 DEF Holds, ToSet, Elements
  <2>3. a.key \in Elements(dids'[a.did].keys)
    BY <1>5, <1>6, <2>1, <2>2
  <2>4. QED BY <1>6, <1>9, <2>3 DEF Holds, Stored, ToSet, Elements
<1>10. CASE a.op = "removeKey"
  <2>1. c.op = "addKey" => c.key # a.key
    BY <1>1, <1>10 DEF Undoes
  <2>2. a.key \notin Elements(dids[a.did].keys)
    BY <1>1, <1>10 DEF Holds, ToSet, Elements
  <2>3. a.key \notin Elements(dids'[a.did].keys)
    BY <1>5, <1>6, <2>1, <2>2
  <2>4. QED BY <1>6, <1>10, <2>3 DEF Holds, Stored, ToSet, Elements
<1>11. CASE a.op = "addService"
  <2>1. c.op = "removeService" => c.name # a.name
    BY <1>1, <1>11 DEF Undoes
  <2>2. QED BY <1>1, <1>5, <1>6, <1>11, <2>1 DEF Holds, Stored
<1>12. CASE a.op = "removeService"
  <2>1. c.op = "addService" => c.name # a.name
    BY <1>1, <1>12 DEF Undoes
  <2>2. QED BY <1>1, <1>5, <1>6, <1>12, <2>1 DEF Holds, Stored
<1>13. CASE a.op \notin {"setAlias", "addKey", "removeKey", "addService", "removeService", "delete"}
  BY <1>6, <1>13 DEF Holds, Stored
<1>14. QED BY <1>7, <1>8, <1>9, <1>10, <1>11, <1>12, <1>13

\* What a call acknowledges holds.
LEMMA PromiseHolds ==
  ASSUME KeepsInv, NEW t \in Callers, StepOf(t), NEW a \in acknowledged', a \notin acknowledged
  PROVE  Holds(a)'
<1> DEFINE c == tasks[t].call
           new == Updated(c, tasks[t].was)
<1>1. CASE LookUp(t) /\ a.op = "getOrCreate" /\ Stored(a.did)
  BY <1>1 DEF LookUp, Holds, Stored
<1>2. CASE Save(t) /\ a = c
  <2>0. /\ TypeOK /\ tasks[t].stage = "save" /\ Fits(tasks[t])
        /\ c \in Call /\ tasks[t].was \in Identifier
    <3>1. TypeOK /\ tasks[t].stage = "save" /\ Fits(tasks[t])
      BY <1>2 DEF Save, KeepsInv, StagesFit, InProgress
    <3>2. QED BY <3>1, TaskFields
  <2>1. /\ c.op \in Made \union Unlooked => c.name \in Aliases \union {None}
        /\ c.op = "addService" => c.name \in Services
        /\ c.op = "addKey" => c.key \in Kids
    BY <2>0 DEF Fits, NameFits, Made, Call
  <2>2. /\ c.op = "setAlias" => new.alias = c.name
        /\ c.op = "addKey" => c.key \in Elements(new.keys)
        /\ c.op = "removeKey" => c.key \notin Elements(new.keys)
        /\ c.op = "addService" => c.name \in new.services
        /\ c.op = "removeService" => c.name \notin new.services
    <3>1. /\ Elements(new.keys) =
               IF c.op = "addKey" THEN Elements(tasks[t].was.keys) \union {c.key}
               ELSE IF c.op = "removeKey" THEN Elements(tasks[t].was.keys) \ {c.key}
               ELSE Elements(tasks[t].was.keys)
          /\ new.alias = IF c.op \in Made \union Unlooked THEN c.name ELSE tasks[t].was.alias
          /\ new.services =
               IF c.op = "addService" THEN tasks[t].was.services \union {c.name}
               ELSE IF c.op = "removeService" THEN tasks[t].was.services \ {c.name}
               ELSE tasks[t].was.services
      BY <2>0, <2>1, UpdatedType
    <3> HIDE DEF new
    <3>2. QED BY <3>1 DEF Unlooked
  <2>3. c.did \in DOMAIN dids' /\ dids'[c.did] = new
    <3>1. dids' = [d \in DOMAIN dids \union {c.did} |-> IF d = c.did THEN new ELSE dids[d]]
      BY <1>2, <2>0, SaveStep
    <3> HIDE DEF new
    <3>2. QED BY <3>1
  <2>4. c.op # "delete"
    BY <2>0 DEF Fits, Made, Updating
  <2> HIDE DEF new
  <2>5. a.did \in DOMAIN dids' /\ dids'[a.did] = new /\ a.op # "delete"
    BY <1>2, <2>3, <2>4
  <2>6. /\ a.op = "setAlias" => dids'[a.did].alias = a.name
        /\ a.op = "addKey" => a.key \in ToSet(dids'[a.did].keys)
        /\ a.op = "removeKey" => a.key \notin ToSet(dids'[a.did].keys)
        /\ a.op = "addService" => a.name \in dids'[a.did].services
        /\ a.op = "removeService" => a.name \notin dids'[a.did].services
    BY <1>2, <2>2, <2>5 DEF ToSet, Elements
  <2>7. QED BY <2>5, <2>6 DEF Holds, Stored
<1>3. CASE Drop(t) /\ a = c
  <2>1. dids' = [d \in DOMAIN dids \ {c.did} |-> dids[d]] /\ tasks[t].stage = "drop"
    BY <1>3, DropStep DEF KeepsInv
  <2>2. c.op = "delete"
    BY <2>1 DEF KeepsInv, StagesFit, InProgress, Fits
  <2>3. QED BY <1>3, <2>1, <2>2 DEF Holds, Stored
<1>4. QED BY <1>1, <1>2, <1>3, NewlyAcknowledged

LEMMA StayStep ==
  ASSUME KeepsInv, Next
  PROVE  AcknowledgedUpdatesStay'
<1>1. PICK t \in Callers : StepOf(t)
  BY StepOfOne DEF KeepsInv
<1>2. ASSUME NEW a \in acknowledged' PROVE Holds(a)'
  <2>1. CASE a \notin acknowledged
    BY <1>1, <1>2, <2>1, PromiseHolds
  <2>2. CASE a \in acknowledged /\ dids' = dids
    BY <2>2 DEF KeepsInv, AcknowledgedUpdatesStay, Holds, Stored
  <2>3. CASE a \in acknowledged /\ dids' # dids /\ a.did # tasks[t].call.did
    <3>1. /\ a.did \in DOMAIN dids' <=> a.did \in DOMAIN dids
          /\ a.did \in DOMAIN dids => dids'[a.did] = dids[a.did]
      BY <1>1, <2>3, OthersKept
    <3>2. Holds(a)
      BY <2>3 DEF KeepsInv, AcknowledgedUpdatesStay
    <3>3. QED BY <3>1, <3>2 DEF Holds, Stored
  <2>4. CASE a \in acknowledged /\ dids' # dids /\ a.did = tasks[t].call.did
    <3>1. (Save(t) \/ Drop(t)) /\ InProgress(t)
      BY <1>1, <2>4, OthersKept
    <3>2. ~Drop(t)
      <4>1. ~Undoes(tasks[t].call, a)
        BY <2>4, <3>1 DEF KeepsInv, NothingIsUndone
      <4>2. Drop(t) => tasks[t].call.op = "delete"
        BY DEF Drop, KeepsInv, StagesFit, InProgress, Fits
      <4>3. QED BY <2>4, <4>1, <4>2 DEF Undoes
    <3>3. QED BY <2>4, <3>1, <3>2, PromiseKept
  <2>5. QED BY <2>1, <2>2, <2>3, <2>4
<1>3. QED BY <1>2 DEF AcknowledgedUpdatesStay

------------------------------------------------------------------------------
(* What is acknowledged stays                                              *)

LEMMA KeepsInit ==
  ASSUME Init
  PROVE  KeepsInv
<1>1. TypeOK
  BY BlankType, IdentifiersAssumption DEF Init, TypeOK, IdentifiersAssumption
<1>2. \A t \in Callers : ~InProgress(t) /\ tasks[t].stage \notin {"list", "save"}
  BY BlankType DEF Init, InProgress
<1>3. RoomIsLeft
  <2>1. ToGenerate = {}
    BY <1>2 DEF ToGenerate, Running, InProgress
  <2>2. QED BY <2>1, FS_EmptySet, IdentifiersAssumption DEF RoomIsLeft, Init, IdentifiersAssumption
<1>4. KeysWereGenerated /\ NothingIsUndone /\ AcknowledgedUpdatesStay
  BY DEF Init, KeysWereGenerated, NothingIsUndone, AcknowledgedUpdatesStay
<1>5. StagesFit /\ CallsAreDisjoint /\ CopiesAreCurrent
  BY <1>2 DEF StagesFit, CallsAreDisjoint, CopiesAreCurrent
<1>6. QED BY <1>1, <1>3, <1>4, <1>5 DEF KeepsInv

LEMMA KeepsStutter ==
  ASSUME KeepsInv, UNCHANGED vars
  PROVE  KeepsInv'
<1> USE DEF vars
<1>1. TypeOK' /\ RoomIsLeft' /\ KeysWereGenerated'
  BY DEF KeepsInv, TypeOK, RoomIsLeft, ToGenerate, Running, KeysWereGenerated
<1>2. StagesFit' /\ CallsAreDisjoint'
  <2>1. StagesFit'
    BY DEF KeepsInv, StagesFit, Fits, NameFits, InProgress
  <2>2. CallsAreDisjoint'
    BY DEF KeepsInv, InProgress, CallsAreDisjoint, Conflict, Touches, SetsAlias
  <2>3. QED BY <2>1, <2>2
<1>3. CopiesAreCurrent'
  BY DEF KeepsInv, CopiesAreCurrent, Stored
<1>4. NothingIsUndone' /\ AcknowledgedUpdatesStay'
  BY DEF KeepsInv, NothingIsUndone, Undoes, InProgress, AcknowledgedUpdatesStay, Holds, Stored
<1>5. QED BY <1>1, <1>2, <1>3, <1>4 DEF KeepsInv

LEMMA KeepsStep ==
  ASSUME KeepsInv, [Next]_vars, Exclusive
  PROVE  KeepsInv'
<1>1. CASE Next
  BY <1>1, TypeStep, RoomStep, StagesStep, DisjointStep, CopiesStep, UndoneStep, StayStep DEF KeepsInv
<1>2. CASE UNCHANGED vars
  BY <1>2, KeepsStutter
<1>3. QED BY <1>1, <1>2

LEMMA Keeps ==
  ASSUME Exclusive
  PROVE  Spec => []KeepsInv
<1>1. Init => KeepsInv
  BY KeepsInit
<1>2. KeepsInv /\ [Next]_vars => KeepsInv'
  BY KeepsStep
<1>3. QED BY <1>1, <1>2, PTL DEF Spec

\* When calls on the same identifier or alias wait for each other, the state
\* stays of its type: the stores list generated keys only, and no call is at a
\* stage that its method does not have.
THEOREM TypeCorrect ==
  ASSUME Exclusive
  PROVE  Spec => []TypeOK
<1>1. KeepsInv => TypeOK
  BY DEF KeepsInv
<1>2. QED BY <1>1, Keeps, PTL

\* When calls on the same identifier or alias wait for each other, nothing that
\* DIDManager acknowledged is lost: neither to another call nor to one that
\* threw on the way.
THEOREM AcknowledgedStays ==
  ASSUME Exclusive
  PROVE  Spec => []AcknowledgedUpdatesStay
<1>1. KeepsInv => AcknowledgedUpdatesStay
  BY DEF KeepsInv
<1>2. QED BY <1>1, Keeps, PTL

------------------------------------------------------------------------------
(* An alias names one identifier                                           *)

\* An identifier has its alias from before, or from a call that saves it, and it
\* is unchecked if the call did not look at who has the alias.
LEMMA NewAliases ==
  ASSUME KeepsInv, NEW t \in Callers, StepOf(t), NEW d \in DOMAIN dids', dids'[d].alias # None
  PROVE  LET c == tasks[t].call IN
         \/ /\ d \in DOMAIN dids /\ dids'[d].alias = dids[d].alias
            /\ dids'[d].unchecked = dids[d].unchecked
         \/ /\ Save(t) /\ c.op \in Made \union Unlooked /\ d = c.did /\ dids'[d].alias = c.name
            /\ dids'[d].unchecked = (c.op \in Unlooked \/ tasks[t].was.unchecked)
<1> DEFINE c == tasks[t].call
           new == Updated(c, tasks[t].was)
<1>1. CASE d # c.did
  BY <1>1, OthersKept
<1>2. CASE dids' = dids
  BY <1>2
<1>3. CASE Drop(t)
  <2>1. dids' = [e \in DOMAIN dids \ {c.did} |-> dids[e]]
    BY <1>3, DropStep DEF KeepsInv
  <2>2. QED BY <2>1
<1>4. CASE Save(t) /\ d = c.did
  <2>0. /\ TypeOK /\ tasks[t].stage = "save" /\ Fits(tasks[t])
        /\ c \in Call /\ tasks[t].was \in Identifier
    <3>1. TypeOK /\ tasks[t].stage = "save" /\ Fits(tasks[t])
      BY <1>4 DEF Save, KeepsInv, StagesFit, InProgress
    <3>2. QED BY <3>1, TaskFields
  <2>1. /\ c.op \in Made \union Unlooked => c.name \in Aliases \union {None}
        /\ c.op = "addService" => c.name \in Services
        /\ c.op = "addKey" => c.key \in Kids
    BY <2>0 DEF Fits, NameFits, Made, Call
  <2>2. /\ new.alias = IF c.op \in Made \union Unlooked THEN c.name ELSE tasks[t].was.alias
        /\ new.unchecked = (c.op \in Unlooked \/ tasks[t].was.unchecked)
    BY <2>0, <2>1, UpdatedType
  <2>3. dids'[d] = new
    <3>1. dids' = [e \in DOMAIN dids \union {c.did} |-> IF e = c.did THEN new ELSE dids[e]]
      BY <1>4, <2>0, SaveStep
    <3> HIDE DEF new
    <3>2. QED BY <1>4, <3>1
  <2> HIDE DEF new
  <2>4. CASE c.op \in Made \union Unlooked
    BY <1>4, <2>2, <2>3, <2>4
  <2>5. CASE c.op \in Updating /\ c.op \notin Made \union Unlooked
    <3>1. Stored(c.did) /\ tasks[t].was = dids[c.did] /\ tasks[t].was.unchecked \in BOOLEAN
      BY <2>0, <2>5 DEF KeepsInv, CopiesAreCurrent, Identifier
    <3>2. dids'[d].alias = dids[d].alias /\ dids'[d].unchecked = dids[d].unchecked
      BY <1>4, <2>2, <2>3, <2>5, <3>1
    <3>3. QED BY <1>4, <3>1, <3>2 DEF Stored
  <2>6. c.op \in Updating \/ c.op \in Made \union Unlooked
    BY <2>0 DEF Fits, Unlooked
  <2>7. QED BY <2>4, <2>5, <2>6
<1>5. QED BY <1>1, <1>2, <1>3, <1>4, OthersKept

LEMMA FreeStep ==
  ASSUME AliasInv, Next
  PROVE  AliasesAreFree'
<1>1. PICK t \in Callers : StepOf(t)
  BY StepOfOne DEF AliasInv, KeepsInv
<1>2. ASSUME NEW u \in Callers, tasks'[u].stage \in {"generate", "list", "save"},
             tasks'[u].call.op \in Made, tasks'[u].call.name # None, ~tasks'[u].was.unchecked,
             NEW d \in DOMAIN dids', dids'[d].alias = tasks'[u].call.name
      PROVE  FALSE
  <2>1. CASE u # t
    <3>1. tasks'[u] = tasks[u] /\ InProgress(u)
      BY <1>1, <1>2, <2>1, StepShape DEF AliasInv, InProgress
    <3>2. ~(d \in DOMAIN dids /\ dids'[d].alias = dids[d].alias)
      BY <1>2, <3>1 DEF AliasInv, AliasesAreFree, WithAlias
    <3>3. /\ Save(t) /\ tasks[t].call.op \in Made \union Unlooked
          /\ tasks[t].call.name = tasks[u].call.name
      BY <1>1, <1>2, <3>1, <3>2, NewAliases DEF AliasInv
    <3>4. InProgress(t)
      BY <3>3 DEF Save, InProgress
    <3>5. Conflict(tasks[t].call, tasks[u].call)
      BY <1>2, <3>1, <3>3 DEF Conflict, SetsAlias, Made, Unlooked
    <3>6. QED BY <2>1, <3>1, <3>4, <3>5 DEF AliasInv, KeepsInv, CallsAreDisjoint
  <2>2. CASE u = t
    <3>1. ~(\E c : Begins(t, c))
      BY <1>2, <2>2 DEF Begins, Becomes, FirstStage, Made
    <3>2. UNCHANGED dids /\ InProgress(t)
      BY <1>1, <1>2, <2>2, <3>1, StepShape DEF AliasInv, InProgress
    <3>3. /\ TypeOK /\ Fits(tasks[t]) /\ tasks[t].call \in Call /\ KeepsInv
          /\ tasks[t].was \in Identifier
      BY <3>2, TaskFields DEF AliasInv, KeepsInv, StagesFit
    <3>4. /\ tasks'[t].call.op = tasks[t].call.op
          /\ tasks'[t].call.name = tasks[t].call.name
      <4>1. \/ tasks'[t].call = tasks[t].call
            \/ tasks'[t].call = [tasks[t].call EXCEPT !.did = generated + 1]
        BY <1>1, <1>2, <2>2, <3>1, StepShape DEF AliasInv, InProgress
      <4>2. QED BY <3>3, <4>1 DEF Call
    <3>5. WithAlias(tasks[t].call.name) # {}
      BY <1>2, <2>2, <3>2, <3>4 DEF WithAlias
    <3>6. tasks[t].stage \notin {"generate", "list", "save"} \/ tasks[t].was.unchecked
      BY <1>2, <2>2, <3>4, <3>5 DEF AliasInv, AliasesAreFree
    <3>7. ~Ends(t, tasks[t].call)
      BY <1>2, <2>2, BlankType DEF Ends
    <3>8. ~CheckAlias(t)
      BY <3>3, <3>5, <3>7, CheckStep
    <3>9. ~LookUp(t)
      BY <1>2, <2>2, <3>3, LookUpStep, BlankType DEF Becomes, Ends
    <3>10. CASE Read(t)
      <4>1. tasks[t].call.op \in Updating \union {"delete"}
        BY <3>3, <3>10 DEF Fits, Read
      <4>2. QED BY <1>2, <2>2, <3>4, <4>1 DEF Updating, Made
    <3>11. CASE Find(t) \/ Erase(t) \/ Unlist(t) \/ Drop(t)
      <4>1. tasks[t].call.op \in {"delete", "deleteKey"}
        BY <3>3, <3>11 DEF Fits, Find, Erase, Unlist, Drop
      <4>2. QED BY <1>2, <2>2, <3>4, <4>1 DEF Made
    <3>12. ~Fail(t)
      BY <3>3, <3>7, FailStep
    <3>13. ~Swallow(t)
      <4>1. [tasks[t].was EXCEPT !.unchecked = TRUE].unchecked
        BY <3>3 DEF Identifier
      <4>2. QED BY <1>2, <2>2, <3>3, <4>1, SwallowStep DEF Becomes
    <3>14. ASSUME Generate(t) \/ List(t), tasks[t].was.unchecked PROVE FALSE
      <4>1. CASE Generate(t)
        BY <1>2, <2>2, <3>3, <3>14, <4>1, GenerateStep, GeneratedKind DEF Becomes
      <4>2. CASE List(t)
        <5>1. tasks[t].call.did \in Kids
          BY <3>3, <4>2 DEF Fits, Call, List
        <5>2. QED BY <1>2, <2>2, <3>3, <3>7, <3>14, <4>2, <5>1, ListStep DEF Becomes
      <4>3. QED BY <3>14, <4>1, <4>2
    <3>15. ~Save(t)
      BY <3>3, <3>7, SaveStep
    <3>16. QED
      BY <1>1, <3>1, <3>6, <3>8, <3>9, <3>10, <3>11, <3>12, <3>13, <3>14, <3>15 DEF StepOf, Generate, List
  <2>3. QED BY <2>1, <2>2
<1>3. QED BY <1>2 DEF AliasesAreFree, WithAlias

LEMMA OneStep ==
  ASSUME AliasInv, Next
  PROVE  OneIdentifierPerAlias'
<1>1. PICK t \in Callers : StepOf(t)
  BY StepOfOne DEF AliasInv, KeepsInv
<1> DEFINE c == tasks[t].call
           Old(d) == /\ d \in DOMAIN dids /\ dids'[d].alias = dids[d].alias
                     /\ dids'[d].unchecked = dids[d].unchecked
           New(d) == /\ Save(t) /\ c.op \in Made /\ d = c.did /\ dids'[d].alias = c.name
                     /\ ~tasks[t].was.unchecked
<1>2. \A d \in DOMAIN dids' : dids'[d].alias # None /\ ~dids'[d].unchecked => Old(d) \/ New(d)
  BY <1>1, NewAliases DEF AliasInv
<1>3. ASSUME NEW d \in DOMAIN dids, New(c.did), c.name # None PROVE dids[d].alias # c.name
  BY <1>3 DEF AliasInv, AliasesAreFree, WithAlias, Save
<1>4. ASSUME NEW d \in DOMAIN dids', NEW e \in DOMAIN dids', dids'[d].alias = dids'[e].alias, dids'[d].alias # None,
             ~dids'[d].unchecked, ~dids'[e].unchecked
      PROVE  d = e
  <2>1. CASE Old(d) /\ Old(e)
    BY <1>4, <2>1 DEF AliasInv, OneIdentifierPerAlias
  <2>2. CASE New(d) /\ New(e)
    BY <2>2
  <2>3. CASE Old(d) /\ New(e)
    BY <1>3, <1>4, <2>3
  <2>4. CASE New(d) /\ Old(e)
    BY <1>3, <1>4, <2>4
  <2>5. QED BY <1>2, <1>4, <2>1, <2>2, <2>3, <2>4
<1>5. QED BY <1>4 DEF OneIdentifierPerAlias

LEMMA AliasIsKept ==
  ASSUME Exclusive
  PROVE  Spec => []AliasInv
<1>1. Init => AliasInv
  <2>1. SUFFICES ASSUME Init PROVE AliasInv
    OBVIOUS
  <2>2. AliasesAreFree
    <3>1. \A t \in Callers : tasks[t].stage = "idle"
      BY <2>1, BlankType DEF Init
    <3>2. QED BY <3>1 DEF AliasesAreFree
  <2>3. QED BY <2>1, <2>2, KeepsInit DEF AliasInv, Init, OneIdentifierPerAlias
<1>2. AliasInv /\ [Next]_vars => AliasInv'
  <2>1. SUFFICES ASSUME AliasInv, [Next]_vars PROVE AliasInv'
    OBVIOUS
  <2>2. KeepsInv'
    BY <2>1, KeepsStep DEF AliasInv
  <2>3. CASE Next
    BY <2>1, <2>2, <2>3, FreeStep, OneStep DEF AliasInv
  <2>4. CASE UNCHANGED vars
    BY <2>1, <2>2, <2>4 DEF vars, AliasInv, AliasesAreFree, WithAlias, OneIdentifierPerAlias
  <2>5. QED BY <2>1, <2>3, <2>4
<1>3. QED BY <1>1, <1>2, PTL DEF Spec

\* When calls with the same alias wait for each other, an alias that a create or
\* getOrCreate found free is free still when the identifier is saved, whatever
\* throws: of two identifiers under one alias, at least one was given it by
\* didManagerSetAlias or didManagerImport, which look up nothing, or by a creation
\* whose look-up threw.
THEOREM AliasNamesOne ==
  ASSUME Exclusive
  PROVE  Spec => []OneIdentifierPerAlias
<1>1. AliasInv => OneIdentifierPerAlias
  BY DEF AliasInv
<1>2. QED BY <1>1, AliasIsKept, PTL

------------------------------------------------------------------------------
(* The stores agree                                                        *)

\* Calls wait for each other, none throws, and identifiers keep their own keys.
Undisturbed == Exclusive /\ MaxFaults = 0 /\ Operations \intersect {"addKey", "deleteKey"} = {}

LEMMA OwnKeys ==
  ASSUME NEW d, NEW s, Own(d, s)
  PROVE  Elements(s) \subseteq {d} /\ (s # <<>> => s = <<d>> /\ Elements(s) = {d})
<1>1. Elements(<<d>>) = {d} /\ Elements(<<>>) = {}
  BY DEF Elements
<1>2. QED BY <1>1 DEF Own

LEMMA NoElements ==
  ASSUME NEW S, NEW s \in Seq(S), Elements(s) = {}
  PROVE  s = <<>>
<1>1. Len(s) \in Nat /\ DOMAIN s = 1 .. Len(s)
  OBVIOUS
<1>2. CASE Len(s) = 0
  BY <1>2
<1>3. CASE Len(s) # 0
  <2>1. 1 \in 1 .. Len(s)
    BY <1>1, <1>3
  <2>2. s[1] \in Elements(s)
    BY <1>1, <2>1 DEF Elements
  <2>3. QED BY <2>2
<1>4. QED BY <1>2, <1>3

LEMMA NoFault ==
  ASSUME TypeOK, Undisturbed, NEW t \in Callers
  PROVE  ~Throw(t) /\ ~Fail(t) /\ ~Swallow(t)
  BY DEF TypeOK, Undisturbed, Throw, Fail, Swallow

\* What a call that is saving, reading, erasing ... knows.
LEMMA Follows ==
  ASSUME StoresInv, Undisturbed, NEW t \in Callers, InProgress(t)
  PROVE  /\ TypeOK /\ KeepsInv /\ Fits(tasks[t]) /\ tasks[t].call \in Call
         /\ tasks[t].was \in Identifier
         /\ tasks[t].call.op \notin {"addKey", "deleteKey"}
<1>1. TypeOK /\ Fits(tasks[t]) /\ KeepsInv
  BY DEF StoresInv, KeepsInv, StagesFit
<1>2. QED BY <1>1, TaskFields DEF Fits, Undisturbed

\* What an update writes lists what it read, or less.
LEMMA SavedKeys ==
  ASSUME StoresInv, Undisturbed, NEW t \in Callers, Save(t)
  PROVE  LET c == tasks[t].call
             new == Updated(c, tasks[t].was) IN
         /\ c.did \in DOMAIN dids' /\ dids'[c.did] = new
         /\ Own(c.did, new.keys)
         /\ Elements(new.keys) \subseteq keys \intersect secrets
         /\ UNCHANGED <<keys, secrets>>
<1> DEFINE c == tasks[t].call
           new == Updated(c, tasks[t].was)
<1>0. /\ TypeOK /\ Fits(tasks[t]) /\ c \in Call /\ tasks[t].was \in Identifier
      /\ tasks[t].stage = "save" /\ c.op # "addKey"
  <2>1. InProgress(t) /\ tasks[t].stage = "save"
    BY DEF Save, InProgress
  <2>2. QED BY <2>1, Follows
<1>1. /\ c.op \in Made \union Unlooked => c.name \in Aliases \union {None}
      /\ c.op = "addService" => c.name \in Services
      /\ c.op = "addKey" => c.key \in Kids
  BY <1>0 DEF Fits, NameFits, Made, Call
<1>2. /\ new \in Identifier
      /\ Elements(new.keys) = IF c.op = "removeKey" THEN Elements(tasks[t].was.keys) \ {c.key}
                              ELSE Elements(tasks[t].was.keys)
  BY <1>0, <1>1, UpdatedType
<1>3. /\ Own(c.did, tasks[t].was.keys)
      /\ Elements(tasks[t].was.keys) \subseteq keys \intersect secrets
      /\ c.op = "removeKey" => c.key = c.did
  BY <1>0 DEF StoresInv, KeysFollow, ToSet, Elements
<1>4. Own(c.did, new.keys)
  <2>1. CASE c.op = "removeKey"
    <3>1. Elements(new.keys) = {}
      BY <1>2, <1>3, <2>1, OwnKeys
    <3>2. new.keys \in Seq(Kids)
      BY <1>2 DEF Identifier
    <3> HIDE DEF new
    <3>3. new.keys = <<>>
      BY <3>1, <3>2, NoElements
    <3>4. QED BY <3>3 DEF Own
  <2>2. CASE c.op # "removeKey"
    <3>1. new.keys = tasks[t].was.keys
      BY <1>0, <2>2 DEF Updated, Identifier
    <3>2. QED BY <1>3, <3>1
  <2>3. QED BY <2>1, <2>2
<1>5. Elements(new.keys) \subseteq keys \intersect secrets
  BY <1>2, <1>3
<1>6. /\ dids' = [e \in DOMAIN dids \union {c.did} |-> IF e = c.did THEN new ELSE dids[e]]
      /\ keys' = keys \union Elements(new.keys)
      /\ secrets' = secrets
  BY <1>0, SaveStep
<1> HIDE DEF new
<1>7. c.did \in DOMAIN dids' /\ dids'[c.did] = new /\ keys' = keys
  BY <1>5, <1>6
<1>8. QED BY <1>4, <1>5, <1>6, <1>7 DEF new

\* What a step does to the stores of keys.
LEMMA StoreEffect ==
  ASSUME StoresInv, Undisturbed, NEW t \in Callers, StepOf(t)
  PROVE  LET d == tasks[t].call.did IN
         \/ ~Generate(t) /\ ~List(t) /\ ~Erase(t) /\ ~Unlist(t) /\ UNCHANGED <<keys, secrets>>
         \/ /\ Generate(t) /\ keys' = keys /\ secrets' = secrets \union {tasks'[t].call.did}
            /\ tasks'[t].stage = "list"
            /\ \/ tasks'[t].call.did = d /\ d # 0
               \/ tasks'[t].call.did = generated + 1
         \/ List(t) /\ keys' = keys \union {d} /\ secrets' = secrets /\ d \in secrets
         \/ /\ Erase(t) /\ keys' = keys /\ secrets' = secrets \ {d}
            /\ tasks'[t].call = tasks[t].call /\ tasks'[t].stage = "unlist" /\ tasks'[t].left = <<d>>
         \/ /\ Unlist(t) /\ keys' = keys \ {d} /\ secrets' = secrets /\ d \notin secrets
            /\ tasks'[t].call = tasks[t].call /\ tasks'[t].stage = "drop"
<1> DEFINE d == tasks[t].call.did
<1>1. CASE Generate(t)
  <2>1. TypeOK /\ KeepsInv /\ tasks[t].call \in Call
    BY TaskFields DEF StoresInv, KeepsInv
  <2>2. /\ tasks[t].call.op = "import" => d \in 1 .. generated /\ d # 0
        /\ tasks[t].call.op # "import" => generated + 1 \in Kids
    BY <1>1, <2>1, GeneratedKind
  <2> DEFINE k == IF tasks[t].call.op = "import" THEN d ELSE generated + 1
  <2>3. /\ Becomes(t, [tasks[t].call EXCEPT !.did = k], "list", tasks[t].was, tasks[t].left)
        /\ secrets' = secrets \union {k} /\ keys' = keys
    BY <1>1, <2>1, <2>2, GenerateStep
  <2>4. (k = d /\ d # 0) \/ k = generated + 1
    BY <2>2
  <2> HIDE DEF k
  <2>5. tasks'[t].call.did = k /\ tasks'[t].stage = "list"
    BY <2>1, <2>3 DEF Becomes, Call
  <2>6. QED BY <1>1, <2>3, <2>4, <2>5
<1>2. CASE List(t)
  BY <1>2 DEF List, StoresInv, KeysFollow
<1>3. CASE Erase(t)
  <2>1. TypeOK /\ tasks[t].left = <<d>> /\ Head(tasks[t].left) = d
    BY <1>3 DEF Erase, StoresInv, KeysFollow, KeepsInv
  <2>2. QED BY <1>3, <2>1, EraseStep DEF Becomes
<1>4. CASE Unlist(t)
  <2>1. TypeOK /\ tasks[t].left = <<d>> /\ d \notin secrets /\ tasks[t].call.op = "delete"
    BY <1>4 DEF Unlist, StoresInv, KeysFollow, KeepsInv
  <2>2. tasks[t].left # <<>> /\ Head(tasks[t].left) = d /\ AfterKey(Tail(tasks[t].left)) = "drop"
    BY <2>1 DEF AfterKey
  <2>3. QED BY <1>4, <2>1, <2>2, UnlistStep DEF Becomes
<1>5. CASE Save(t)
  BY <1>5, SavedKeys DEF Save, Generate, List, Erase, Unlist
<1>6. CASE ~Generate(t) /\ ~List(t) /\ ~Erase(t) /\ ~Unlist(t) /\ ~Save(t)
  BY <1>6 DEF StepOf, Begins, LookUp, CheckAlias, Read, Find, Drop, Fail, Swallow
<1>7. QED BY <1>1, <1>2, <1>3, <1>4, <1>5, <1>6

\* A step leaves the identifier of another call alone, and its key.
LEMMA OthersStores ==
  ASSUME StoresInv, Undisturbed, NEW t \in Callers, StepOf(t),
         NEW u \in Callers, u # t, InProgress(u), tasks[u].call.did # 0
  PROVE  LET d == tasks[u].call.did IN
         /\ d \in keys' <=> d \in keys
         /\ d \in secrets' <=> d \in secrets
         /\ d \in DOMAIN dids' <=> d \in DOMAIN dids
<1> DEFINE d == tasks[u].call.did
<1>1. KeepsInv /\ CallsAreDisjoint /\ generated \in Nat
  BY DEF StoresInv, KeepsInv, TypeOK
<1>2. d \in 1 .. generated
  <2>1. Fits(tasks[u])
    BY Follows
  <2>2. QED BY <1>1, <2>1 DEF Fits
<1>3. InProgress(t) => tasks[t].call.did # d
  BY <1>1, Apart
<1>4. Generate(t) \/ List(t) \/ Erase(t) \/ Unlist(t) => InProgress(t)
  BY DEF Generate, List, Erase, Unlist, InProgress
<1>5. d \in DOMAIN dids' <=> d \in DOMAIN dids
  BY <1>1, <1>3, OthersKept
<1>6. generated + 1 # d
  BY <1>1, <1>2
<1>7. QED
  BY <1>3, <1>4, <1>5, <1>6, StoreEffect

\* No call reads the identifier that another is deleting.
LEMMA ReadsWhole ==
  ASSUME StoresInv, Undisturbed, NEW t \in Callers, InProgress(t), Stored(tasks[t].call.did),
         tasks[t].stage = "read"
  PROVE  LET d == tasks[t].call.did IN
         Own(d, dids[d].keys) /\ Elements(dids[d].keys) \subseteq keys \intersect secrets
<1> DEFINE d == tasks[t].call.did
<1>1. Fits(tasks[t]) /\ d # 0
  <2>1. Fits(tasks[t])
    BY Follows
  <2>2. QED BY <2>1 DEF Fits
<1>2. /\ Own(d, dids[d].keys)
      /\ \/ Elements(dids[d].keys) \subseteq keys \intersect secrets
         \/ \E u \in Running : tasks[u].call.did = d /\ tasks[u].stage \in {"unlist", "drop"}
  BY DEF StoresInv, KeysAreThere, Stored, ToSet, Elements
<1>3. ASSUME NEW u \in Running, tasks[u].call.did = d, tasks[u].stage \in {"unlist", "drop"} PROVE FALSE
  <2>1. u \in Callers /\ InProgress(u) /\ u # t
    BY <1>3 DEF Running, InProgress
  <2>2. QED BY <1>1, <1>3, <2>1, Apart DEF StoresInv, KeepsInv
<1>4. QED BY <1>2, <1>3

\* KeysFollow for one task, over the stores of keys and the identifiers.
LEMMA FollowStep ==
  ASSUME StoresInv, Undisturbed, Next
  PROVE  KeysFollow'
<1>1. PICK t \in Callers : StepOf(t)
  BY StepOfOne DEF StoresInv, KeepsInv
<1>2. ASSUME NEW u \in Callers
      PROVE  LET d == tasks'[u].call.did
                 stage == tasks'[u].stage
                 op == tasks'[u].call.op IN
             /\ op = "removeKey" => tasks'[u].call.key = d
             /\ stage = "list" => d \in secrets'
             /\ stage = "save" => Own(d, tasks'[u].was.keys)
                                   /\ Elements(tasks'[u].was.keys) \subseteq keys' \intersect secrets'
             /\ stage \in {"find", "erase", "unlist"} => tasks'[u].left = <<d>>
             /\ stage \in {"find", "erase"} => d \in keys' \intersect secrets'
             /\ stage = "unlist" => d \notin secrets'
             /\ stage \in {"find", "erase", "unlist", "drop"} => op = "delete" /\ d \in DOMAIN dids'
  <2> DEFINE c == tasks[u].call
             d == tasks[u].call.did
  <2>0. TypeOK /\ KeepsInv
    BY DEF StoresInv, KeepsInv
  <2>1. /\ c.op = "removeKey" => c.key = d
        /\ tasks[u].stage = "list" => d \in secrets
        /\ tasks[u].stage = "save" => /\ Own(d, tasks[u].was.keys)
                                      /\ Elements(tasks[u].was.keys) \subseteq keys \intersect secrets
        /\ tasks[u].stage \in {"find", "erase", "unlist"} => tasks[u].left = <<d>>
        /\ tasks[u].stage \in {"find", "erase"} => d \in keys \intersect secrets
        /\ tasks[u].stage = "unlist" => d \notin secrets
        /\ tasks[u].stage \in {"find", "erase", "unlist", "drop"} => c.op = "delete" /\ d \in DOMAIN dids
    BY DEF StoresInv, KeysFollow, ToSet, Elements, Stored
  <2>2. CASE tasks'[u] = Idle
    BY <2>2 DEF Idle, At, Request
  <2>3. CASE u # t
    <3>1. tasks'[u] = tasks[u]
      BY <1>1, <2>0, <2>3, StepShape
    <3>2. CASE tasks[u].stage \notin {"list", "save", "find", "erase", "unlist", "drop"}
      BY <2>1, <3>1, <3>2
    <3>3. CASE tasks[u].stage \in {"list", "save", "find", "erase", "unlist", "drop"}
      <4>1. InProgress(u) /\ Fits(tasks[u])
        BY <3>3, Follows DEF InProgress
      <4>2. d # 0
        BY <2>1, <3>3, <4>1 DEF Fits
      <4>3. /\ d \in keys' <=> d \in keys
            /\ d \in secrets' <=> d \in secrets
            /\ d \in DOMAIN dids' <=> d \in DOMAIN dids
        BY <1>1, <2>3, <4>1, <4>2, OthersStores
      <4>4. tasks[u].stage = "save" => Elements(tasks[u].was.keys) \subseteq {d}
        BY <2>1, OwnKeys
      <4>5. tasks[u].stage = "save" => Elements(tasks[u].was.keys) \subseteq keys' \intersect secrets'
        BY <2>1, <4>3, <4>4
      <4>6. QED BY <2>1, <3>1, <4>3, <4>5
    <3>4. QED BY <3>2, <3>3
  <2>4. CASE u = t /\ \E e : Begins(t, e)
    <3>1. PICK e : Begins(t, e)
      BY <2>4
    <3>2. /\ tasks'[u].call = e /\ tasks'[u].stage = FirstStage(e) /\ Asked(e)
          /\ e.op \in Operations /\ e.op # "deleteKey"
      BY <2>4, <3>1 DEF Begins, Becomes, Undisturbed
    <3>3. FirstStage(e) \notin {"list", "save", "find", "erase", "unlist", "drop"}
      BY <3>2 DEF FirstStage
    <3>4. ASSUME e.op = "removeKey" PROVE e.key = e.did
      <4>1. Stored(e.did) /\ e.key \in Elements(dids[e.did].keys)
        BY <3>2, <3>4 DEF Asked, Updating, ToSet, Elements
      <4>2. Own(e.did, dids[e.did].keys)
        BY <4>1 DEF StoresInv, KeysAreThere, Stored
      <4>3. QED BY <4>1, <4>2, OwnKeys
    <3>5. QED BY <3>2, <3>3, <3>4
  <2>5. CASE u = t /\ tasks'[t] # Idle /\ ~(\E e : Begins(t, e))
    <3>0. \A e : ~Ends(t, e)
      BY <2>5 DEF Ends
    <3>1. InProgress(t) /\ Fits(tasks[t]) /\ c \in Call
      <4>1. InProgress(t)
        BY <1>1, <2>5 DEF StepOf, LookUp, CheckAlias, Generate, List, Read, Save, Find, Erase, Unlist,
                          Drop, Fail, Swallow, InProgress
      <4>2. QED BY <2>5, <4>1, Follows
    <3>2. CASE LookUp(t)
      BY <2>0, <2>1, <2>5, <3>0, <3>2, LookUpStep DEF Becomes
    <3>3. CASE CheckAlias(t)
      BY <2>0, <2>1, <2>5, <3>0, <3>3, CheckStep DEF Becomes
    <3>4. CASE Generate(t)
      <4>1. tasks'[t].call.op = c.op /\ tasks'[t].stage = "list"
        <5>1. tasks'[t].stage = "list"
          BY <1>1, <3>4, StoreEffect DEF Generate, List, Erase, Unlist
        <5>2. \/ tasks'[t].call = c
              \/ tasks'[t].call = [c EXCEPT !.did = generated + 1]
          BY <1>1, <2>0, <2>5, <5>1, StepShape DEF InProgress
        <5>3. QED BY <3>1, <5>1, <5>2 DEF Call
      <4>2. c.op # "removeKey"
        BY <2>0, <2>5, <3>4, GeneratedKind DEF Creating
      <4>3. tasks'[t].call.did \in secrets'
        BY <1>1, <3>4, StoreEffect DEF Generate, List, Erase, Unlist
      <4>4. QED BY <2>5, <4>1, <4>2, <4>3
    <3>5. CASE List(t)
      <4>0. tasks[t].stage = "list" /\ d # 0 /\ d \in Kids
        BY <2>5, <3>1, <3>5 DEF List, Fits, Call
      <4>1. /\ \E was : was.keys = <<d>> /\ Becomes(t, c, "save", was, tasks[t].left)
            /\ keys' = keys \union {d} /\ secrets' = secrets
        BY <2>0, <2>5, <3>0, <3>5, <4>0, ListStep
      <4>2. tasks'[u].call = c /\ tasks'[u].stage = "save"
        BY <2>5, <4>1 DEF Becomes
      <4>3. tasks'[u].was.keys = <<d>>
        BY <2>5, <4>1 DEF Becomes
      <4>4. Own(d, <<d>>) /\ Elements(<<d>>) = {d}
        BY OwnKeys DEF Own, Elements
      <4>5. d \in secrets
        BY <2>1, <2>5, <4>0
      <4>6. QED BY <2>1, <4>1, <4>2, <4>3, <4>4, <4>5
    <3>6. CASE Read(t)
      <4>0. tasks[t].stage = "read" /\ UNCHANGED <<keys, secrets, dids>>
        BY <3>6 DEF Read
      <4>1. CASE Stored(d) /\ c.op # "delete" /\ Becomes(t, c, "save", dids[d], tasks[t].left)
        <5>1. Own(d, dids[d].keys) /\ Elements(dids[d].keys) \subseteq keys \intersect secrets
          BY <2>5, <3>1, <4>0, <4>1, ReadsWhole
        <5>2. tasks'[u].call = c /\ tasks'[u].stage = "save" /\ tasks'[u].was = dids[d]
          BY <2>5, <4>1 DEF Becomes
        <5>3. QED BY <2>1, <4>0, <5>1, <5>2
      <4>2. CASE Stored(d) /\ c.op = "delete" /\ Becomes(t, c, AfterKey(dids[d].keys), tasks[t].was, dids[d].keys)
        <5>1. Own(d, dids[d].keys) /\ Elements(dids[d].keys) \subseteq keys \intersect secrets
          BY <2>5, <3>1, <4>0, <4>2, ReadsWhole
        <5>2. /\ tasks'[u].call = c /\ tasks'[u].left = dids[d].keys
              /\ tasks'[u].stage = IF dids[d].keys = <<>> THEN "drop" ELSE "find"
          BY <2>5, <4>2 DEF Becomes, AfterKey
        <5>3. dids[d].keys # <<>> => dids[d].keys = <<d>> /\ d \in keys \intersect secrets
          BY <5>1, OwnKeys
        <5>4. QED BY <2>1, <4>0, <4>2, <5>2, <5>3 DEF Stored
      <4>3. QED BY <2>0, <2>5, <3>0, <3>6, <4>1, <4>2, ReadStep
    <3>7. CASE Find(t)
      <4>1. Becomes(t, c, "erase", tasks[t].was, tasks[t].left) /\ UNCHANGED <<keys, secrets, dids>>
        BY <2>0, <2>5, <3>0, <3>7, FindStep
      <4>2. tasks'[u].call = c /\ tasks'[u].stage = "erase" /\ tasks'[u].left = tasks[u].left
        BY <2>5, <4>1 DEF Becomes
      <4>3. tasks[u].stage = "find"
        BY <2>5, <3>7 DEF Find
      <4>4. QED BY <2>1, <4>1, <4>2, <4>3
    <3>8. CASE Erase(t)
      <4>1. /\ tasks'[u].call = c /\ tasks'[u].stage = "unlist" /\ tasks'[u].left = <<d>>
            /\ secrets' = secrets \ {d} /\ UNCHANGED dids
        BY <1>1, <2>5, <3>8, StoreEffect DEF Erase, Generate, List, Unlist
      <4>2. tasks[u].stage = "erase"
        BY <2>5, <3>8 DEF Erase
      <4>3. QED BY <2>1, <4>1, <4>2
    <3>9. CASE Unlist(t)
      <4>1. tasks'[u].call = c /\ tasks'[u].stage = "drop" /\ UNCHANGED dids
        BY <1>1, <2>5, <3>9, StoreEffect DEF Erase, Generate, List, Unlist
      <4>2. tasks[u].stage = "unlist"
        BY <2>5, <3>9 DEF Unlist
      <4>3. QED BY <2>1, <4>1, <4>2
    <3>10. CASE Save(t) \/ Drop(t) \/ Fail(t)
      BY <2>0, <2>5, <3>0, <3>10, SaveStep, DropStep, FailStep
    <3>12. ~Swallow(t)
      BY <2>0, NoFault
    <3>11. QED
      BY <1>1, <2>5, <3>2, <3>3, <3>4, <3>5, <3>6, <3>7, <3>8, <3>9, <3>10, <3>12 DEF StepOf
  <2>6. QED BY <2>2, <2>3, <2>4, <2>5
<1>3. QED BY <1>2 DEF KeysFollow, Own, ToSet, Elements, Stored

\* A task that is deleting goes on, and so does one that has a key to list.
LEMMA GoesOn ==
  ASSUME StoresInv, Undisturbed, NEW t \in Callers, StepOf(t),
         tasks[t].stage \in {"list", "unlist", "drop"}
  PROVE  /\ tasks[t].stage = "list" => List(t)
         /\ tasks[t].stage = "unlist" => Unlist(t)
         /\ tasks[t].stage = "drop" => Drop(t)
<1>1. ~Fail(t) /\ ~Swallow(t) /\ ~(\E c : Begins(t, c))
  BY NoFault DEF StoresInv, KeepsInv, Begins, InProgress
<1>2. QED
  BY <1>1 DEF StepOf, LookUp, CheckAlias, Generate, List, Read, Save, Find, Erase, Unlist, Drop

LEMMA ThereStep ==
  ASSUME StoresInv, Undisturbed, Next
  PROVE  KeysAreThere'
<1>1. PICK t \in Callers : StepOf(t)
  BY StepOfOne DEF StoresInv, KeepsInv
<1> DEFINE c == tasks[t].call
<1>2. TypeOK /\ KeepsInv
  BY DEF StoresInv, KeepsInv
<1>3. \A u \in Callers : u # t => tasks'[u] = tasks[u]
  BY <1>1, <1>2, StepShape
<1>4. ASSUME NEW d \in DOMAIN dids'
      PROVE  /\ Own(d, dids'[d].keys)
             /\ \/ Elements(dids'[d].keys) \subseteq keys' \intersect secrets'
                \/ \E u \in Callers : /\ tasks'[u].call.op = "delete" /\ tasks'[u].call.did = d
                                      /\ tasks'[u].stage \in {"unlist", "drop"}
  <2>1. CASE Save(t) /\ d = c.did
    BY <2>1, SavedKeys
  <2>2. CASE ~(Save(t) /\ d = c.did)
    <3>1. d \in DOMAIN dids /\ dids'[d] = dids[d] /\ ~(Drop(t) /\ d = c.did)
      <4>1. CASE d # c.did
        BY <1>1, <1>2, <4>1, OthersKept
      <4>2. CASE dids' = dids /\ ~Drop(t)
        BY <4>2
      <4>3. CASE Drop(t) /\ d = c.did
        BY <1>2, <4>3, DropStep
      <4>4. CASE Drop(t) \/ Save(t) \/ dids' = dids
        BY <2>2, <4>1, <4>2, <4>3, <4>4
      <4>5. QED BY <1>1, <1>2, <4>4, OthersKept
    <3>2. /\ Own(d, dids[d].keys)
          /\ \/ Elements(dids[d].keys) \subseteq keys \intersect secrets
             \/ \E u \in Callers : /\ tasks[u].call.op = "delete" /\ tasks[u].call.did = d
                                   /\ tasks[u].stage \in {"unlist", "drop"}
      BY <3>1 DEF StoresInv, KeysAreThere, Running, ToSet, Elements
    <3>3. CASE Elements(dids[d].keys) \subseteq keys \intersect secrets
      <4>1. CASE dids[d].keys = <<>>
        BY <3>1, <3>2, <4>1 DEF Elements
      <4>2. CASE dids[d].keys # <<>>
        <5>1. Elements(dids[d].keys) = {d} /\ d \in keys \intersect secrets
          BY <3>2, <3>3, <4>2, OwnKeys
        <5>2. CASE Erase(t) /\ d = c.did
          <6>1. tasks'[t].call = c /\ tasks'[t].stage = "unlist"
            BY <1>1, <5>2, StoreEffect DEF Erase, Generate, List, Unlist
          <6>2. c.op = "delete"
            BY <5>2 DEF StoresInv, KeysFollow, Erase
          <6>3. QED BY <3>1, <3>2, <5>2, <6>1, <6>2
        <5>3. CASE ~(Erase(t) /\ d = c.did)
          <6>1. d \in keys' \intersect secrets'
            BY <1>1, <5>1, <5>3, StoreEffect
          <6>2. QED BY <3>1, <3>2, <5>1, <6>1
        <5>4. QED BY <5>2, <5>3
      <4>3. QED BY <4>1, <4>2
    <3>4. CASE \E u \in Callers : /\ tasks[u].call.op = "delete" /\ tasks[u].call.did = d
                                  /\ tasks[u].stage \in {"unlist", "drop"}
      <4>1. PICK u \in Callers : /\ tasks[u].call.op = "delete" /\ tasks[u].call.did = d
                                 /\ tasks[u].stage \in {"unlist", "drop"}
        BY <3>4
      <4>2. CASE u # t
        BY <1>3, <3>1, <3>2, <4>1, <4>2
      <4>3. CASE u = t
        <5>1. Unlist(t)
          BY <1>1, <3>1, <4>1, <4>3, GoesOn
        <5>2. tasks'[t].call = c /\ tasks'[t].stage = "drop"
          BY <1>1, <5>1, StoreEffect DEF Erase, Generate, List, Unlist
        <5>3. QED BY <3>1, <3>2, <4>1, <4>3, <5>2
      <4>4. QED BY <4>2, <4>3
    <3>5. QED BY <3>2, <3>3, <3>4
  <2>3. QED BY <2>1, <2>2
<1>5. QED BY <1>4 DEF KeysAreThere, Running, Own, ToSet, Elements

LEMMA AgreeStep ==
  ASSUME StoresInv, Undisturbed, Next, KeysAreThere'
  PROVE  StoresAgree'
<1>1. PICK t \in Callers : StepOf(t)
  BY StepOfOne DEF StoresInv, KeepsInv
<1> DEFINE c == tasks[t].call
<1>2. TypeOK /\ KeepsInv
  BY DEF StoresInv, KeepsInv
<1>3. \A u \in Callers : u # t => tasks'[u] = tasks[u]
  BY <1>1, <1>2, StepShape
<1>4. ASSUME NEW k \in keys', k \notin secrets'
      PROVE  \E u \in Callers : tasks'[u].stage = "unlist" /\ Head(tasks'[u].left) = k
  <2>1. CASE k \in keys /\ k \notin secrets
    <3>1. PICK u \in Callers : tasks[u].stage = "unlist" /\ Head(tasks[u].left) = k
      BY <2>1 DEF StoresInv, StoresAgree, Running
    <3>2. CASE u # t
      BY <1>3, <3>1, <3>2
    <3>3. CASE u = t
      <4>1. Unlist(t)
        BY <1>1, <3>1, <3>3, GoesOn
      <4>2. QED BY <1>4, <3>1, <3>3, <4>1 DEF Unlist
    <3>4. QED BY <3>2, <3>3
  <2>2. CASE k \notin keys
    BY <1>1, <1>4, <2>2, StoreEffect
  <2>3. CASE k \in secrets
    <3>1. Erase(t) /\ k = c.did /\ tasks'[t].stage = "unlist" /\ tasks'[t].left = <<c.did>>
      BY <1>1, <1>4, <2>3, StoreEffect
    <3>2. Head(<<c.did>>) = c.did
      OBVIOUS
    <3>3. QED BY <3>1, <3>2
  <2>4. QED BY <2>1, <2>2, <2>3
<1>5. ASSUME NEW k \in secrets', k \notin keys'
      PROVE  \E u \in Callers : tasks'[u].stage = "list" /\ tasks'[u].call.did = k
  <2>1. CASE k \in secrets /\ k \notin keys
    <3>1. PICK u \in Callers : tasks[u].stage = "list" /\ tasks[u].call.did = k
      BY <2>1 DEF StoresInv, StoresAgree, Running
    <3>2. CASE u # t
      BY <1>3, <3>1, <3>2
    <3>3. CASE u = t
      <4>1. List(t)
        BY <1>1, <3>1, <3>3, GoesOn
      <4>2. QED BY <1>5, <3>1, <3>3, <4>1 DEF List
    <3>4. QED BY <3>2, <3>3
  <2>2. CASE k \notin secrets
    BY <1>1, <1>5, <2>2, StoreEffect
  <2>3. CASE k \in keys
    BY <1>1, <1>5, <2>3, StoreEffect
  <2>4. QED BY <2>1, <2>2, <2>3
<1>6. ASSUME NEW d \in DOMAIN dids'
      PROVE  \/ Elements(dids'[d].keys) \subseteq keys' \intersect secrets'
             \/ \E u \in Callers : /\ tasks'[u].call.op = "delete" /\ tasks'[u].call.did = d
                                   /\ tasks'[u].stage \in {"unlist", "drop"}
  BY DEF KeysAreThere, Running, ToSet, Elements
<1>7. QED BY <1>4, <1>5, <1>6 DEF StoresAgree, Running, ToSet, Elements

LEMMA StoresAreKept ==
  ASSUME Undisturbed
  PROVE  Spec => []StoresInv
<1>1. Init => StoresInv
  <2>1. SUFFICES ASSUME Init PROVE StoresInv
    OBVIOUS
  <2>2. KeepsInv
    BY <2>1, KeepsInit
  <2>3. \A t \in Callers : tasks[t].stage = "idle" /\ tasks[t].call.op = "none"
    BY <2>1, BlankType DEF Init, Idle, At, Request
  <2>4. KeysFollow
    BY <2>3 DEF KeysFollow
  <2>5. KeysAreThere /\ StoresAgree
    BY <2>1 DEF Init, KeysAreThere, StoresAgree
  <2>6. QED BY <2>2, <2>4, <2>5 DEF StoresInv
<1>2. StoresInv /\ [Next]_vars => StoresInv'
  <2>1. SUFFICES ASSUME StoresInv, [Next]_vars PROVE StoresInv'
    OBVIOUS
  <2>2. KeepsInv'
    BY <2>1, KeepsStep DEF StoresInv, Undisturbed
  <2>3. CASE Next
    BY <2>1, <2>2, <2>3, FollowStep, ThereStep, AgreeStep DEF StoresInv
  <2>4. CASE UNCHANGED vars
    <3>1. KeysFollow'
      BY <2>1, <2>4 DEF vars, StoresInv, KeysFollow, Own, Stored
    <3>2. KeysAreThere'
      BY <2>1, <2>4 DEF vars, StoresInv, KeysAreThere, Own, Running
    <3>3. StoresAgree'
      BY <2>1, <2>4 DEF vars, StoresInv, StoresAgree, Running
    <3>4. QED BY <2>2, <3>1, <3>2, <3>3 DEF StoresInv
  <2>5. QED BY <2>1, <2>3, <2>4
<1>3. QED BY <1>1, <1>2, PTL DEF Spec

\* As long as calls on the same identifier wait for each other, none throws and
\* no identifier lists a key of another, key store and KMS have the same keys
\* but for the one that a call is just creating or deleting, and an identifier's
\* keys can be used until its deletion has erased them.
THEOREM StoresStayTogether ==
  ASSUME Exclusive, MaxFaults = 0, Operations \intersect {"addKey", "deleteKey"} = {}
  PROVE  Spec => []StoresAgree
<1>1. Undisturbed
  BY DEF Undisturbed
<1>2. StoresInv => StoresAgree
  BY DEF StoresInv
<1>3. QED BY <1>1, <1>2, StoresAreKept, PTL

\* All three together, for the methods whose run checks them: key store and KMS
\* agree, what DIDManager acknowledged stays, and of two identifiers under an
\* alias one was imported or given it by didManagerSetAlias.
THEOREM IdentifiersStaySound ==
  ASSUME Exclusive, MaxFaults = 0, Operations \intersect {"addKey", "deleteKey"} = {}
  PROVE  Spec => []IdentifiersAreSound
<1>1. Exclusive /\ MaxFaults = 0 /\ Operations \intersect {"addKey", "deleteKey"} = {}
  OBVIOUS
<1>2. Spec => []StoresAgree
  BY <1>1, StoresStayTogether
<1>3. Spec => []OneIdentifierPerAlias
  BY AliasNamesOne
<1>4. Spec => []AcknowledgedUpdatesStay
  BY AcknowledgedStays
<1>5. StoresAgree /\ OneIdentifierPerAlias /\ AcknowledgedUpdatesStay => IdentifiersAreSound
  BY DEF IdentifiersAreSound
<1>6. QED BY <1>2, <1>3, <1>4, <1>5, PTL

------------------------------------------------------------------------------
(* The keys of a did:ion: the update key that the ledger is committed to and *)
(* the recovery key are in the key manager, for any number of calls and      *)
(* whatever is lost; and the recovery key is listed unless the application   *)
(* interferes.                                                               *)

\* The keys that createIdentifier makes.
FirstKeys == {Ion!Recovery, Ion!Update, 3}

\* A call of the provider that has imported a next key.
Imported(c) == rotations[c].at = "imported"

\* Keys are numbered as they are made, and what nobody made is nowhere.
KeysAreNumbered ==
  /\ fresh = 1 \/ fresh > 3
  /\ \A k \in owned \union lost : k < fresh
  /\ updater < fresh
  /\ \A r \in requests : r.next < fresh
  /\ fresh = 1 => /\ ~saved /\ requests = {} /\ active = "no"
                  /\ \A c \in Callers : rotations[c] = Ion!Idle

\* Lists of keys as they are saved, and as calls have read them.
SoundList(ks, ap) ==
  /\ ks \subseteq FirstKeys \union {Ion!Foreign}
  /\ ap \intersect {Ion!Recovery, Ion!Foreign} = {} => Ion!Recovery \in ks /\ Ion!Foreign \notin ks

\* A call is about an identifier that is there until the call is over.
ListsAreSound ==
  /\ saved => SoundList(listed, apart)
  /\ \A c \in Callers : rotations[c].at # "idle" => saved /\ SoundList(rotations[c].keys, apart)

FirstAreOwned == saved => FirstKeys \subseteq owned

\* A next key is its call's alone until it is submitted.
NextKeysAreApart ==
  \A c \in Callers : Imported(c) =>
    /\ rotations[c].next \in owned
    /\ rotations[c].next > 3 /\ rotations[c].next # updater
    /\ \A r \in requests : r.next # rotations[c].next
    /\ \A d \in Callers : Imported(d) /\ c # d => rotations[d].next # rotations[c].next

\* The next keys of requests are kept, until the DID manager deletes the DID.
RequestsAreCovered ==
  \A r \in requests :
    /\ requests = {r}
    /\ r.kind = "create" => r.next = Ion!Update /\ active = "no"
    /\ r.kind = "update" /\ saved => r.next \in owned \union lost

LedgerIsCovered == active # "no" /\ saved => updater \in owned \union lost

RotationInv ==
  /\ Ion!TypeOK
  /\ KeysAreNumbered /\ ListsAreSound /\ FirstAreOwned /\ NextKeysAreApart
  /\ RequestsAreCovered /\ LedgerIsCovered

USE DEF FirstKeys, Ion!Recovery, Ion!Update, Ion!NoKey, Ion!Key
LEMMA RotationInit ==
  ASSUME RotationKeys \in Nat, Ion!Init
  PROVE  RotationInv
<1>1. Ion!TypeOK
  BY DEF Ion!Init, Ion!TypeOK, Ion!Call, Ion!Idle
<1>2. \A c \in Callers : ~Imported(c) /\ rotations[c].at = "idle"
  BY DEF Ion!Init, Imported, Ion!Idle
<1>3. QED
  BY <1>1, <1>2 DEF Ion!Init, RotationInv, KeysAreNumbered, ListsAreSound, FirstAreOwned, NextKeysAreApart,
     RequestsAreCovered, LedgerIsCovered

LEMMA CreateStep ==
  ASSUME RotationKeys \in Nat, RotationKeys >= 3, RotationInv, Ion!Create
  PROVE  RotationInv'
<1>0. /\ fresh = 1 /\ ~saved /\ requests = {} /\ active = "no"
      /\ UNCHANGED <<updater, active, rotations, lost, apart>>
  BY DEF RotationInv, KeysAreNumbered, Ion!Create
<1>9. 1..3 = FirstKeys /\ FirstKeys \subseteq Ion!Key /\ Ion!Foreign \notin FirstKeys
  BY DEF Ion!Foreign
<1>1. /\ fresh = 1 /\ owned' = FirstKeys /\ fresh' = 4 /\ requests = {} /\ active = "no"
      /\ UNCHANGED <<updater, active, rotations, lost, apart>>
      /\ (saved' = TRUE /\ listed' = FirstKeys) \/ (saved' = saved /\ listed' = listed)
  BY <1>0, <1>9 DEF Ion!Create, Ion!Created
<1>2. requests' = {} \/ requests' = {[kind |-> "create", signer |-> Ion!NoKey, next |-> Ion!Update]}
  BY <1>1 DEF Ion!Create, Ion!Accepted, Ion!Refused
<1>3. Ion!TypeOK'
  <2>1. requests' \subseteq Ion!Request
    BY <1>2 DEF Ion!Request
  <2>2. owned' \subseteq Ion!Key /\ listed' \subseteq Ion!Listable
    <3> HIDE DEF FirstKeys, Ion!Key
    <3>1. QED BY <1>1, <1>9 DEF RotationInv, Ion!TypeOK, Ion!Listable
  <2>3. QED BY <1>1, <2>1, <2>2 DEF RotationInv, Ion!TypeOK
<1>4. \A c \in Callers : ~Imported(c)' /\ rotations'[c].at = "idle"
  BY <1>1 DEF RotationInv, KeysAreNumbered, Imported, Ion!Idle
<1>5. KeysAreNumbered'
  BY <1>1, <1>2 DEF RotationInv, KeysAreNumbered, Ion!TypeOK
<1>6. ListsAreSound'
  <2>1. SoundList(FirstKeys, apart')
    BY <1>9 DEF SoundList
  <2> HIDE DEF FirstKeys
  <2>2. saved' => listed' = FirstKeys
    BY <1>0, <1>1
  <2>3. QED BY <1>4, <2>1, <2>2 DEF ListsAreSound
<1>7. QED
  BY <1>1, <1>2, <1>3, <1>4, <1>5, <1>6
     DEF RotationInv, FirstAreOwned, NextKeysAreApart, RequestsAreCovered, LedgerIsCovered

\* The application adds and removes ever more keys; what was sound stays so.
LEMMA SoundStays ==
  ASSUME NEW a, NEW b, a \subseteq b, NEW ks, SoundList(ks, a)
  PROVE  SoundList(ks, b)
BY DEF SoundList

\* A call goes on without a next key, or ends, and leaves all but the identifier.
LEMMA CallGoesStep ==
  ASSUME RotationKeys \in Nat, RotationKeys >= 3, RotationInv, saved,
         NEW c \in Callers, NEW e \in Ion!Call, e.at # "imported",
         rotations' = [rotations EXCEPT ![c] = e], e.at # "idle" => SoundList(e.keys, apart'),
         apart \subseteq apart', apart' \subseteq Ion!Listable,
         saved', SoundList(listed', apart'),
         UNCHANGED <<owned, updater, active, requests, fresh, lost>>
  PROVE  RotationInv'
<1>1. rotations' \in [Callers -> Ion!Call]
      /\ \A d \in Callers : rotations'[d] = IF d = c THEN e ELSE rotations[d]
  BY DEF RotationInv, Ion!TypeOK
<1>2. listed' \subseteq Ion!Listable
  BY DEF SoundList, Ion!Listable, Ion!Foreign
<1>3. Ion!TypeOK'
  BY <1>1, <1>2 DEF RotationInv, Ion!TypeOK
<1>4. KeysAreNumbered'
  BY DEF RotationInv, KeysAreNumbered
<1>5. ListsAreSound'
  <2>1. ASSUME NEW d \in Callers, rotations'[d].at # "idle" PROVE SoundList(rotations'[d].keys, apart')
    <3>1. CASE d = c
      BY <1>1, <2>1, <3>1
    <3>2. CASE d # c
      <4>1. PICK ks : ks = rotations[d].keys
        OBVIOUS
      <4>2. rotations'[d] = rotations[d] /\ SoundList(ks, apart)
        BY <1>1, <2>1, <3>2, <4>1 DEF RotationInv, ListsAreSound
      <4>3. SoundList(ks, apart')
        BY <4>2, SoundStays
      <4>4. QED BY <4>1, <4>2, <4>3 DEF SoundList
    <3>3. QED BY <3>1, <3>2
  <2>2. QED BY <2>1 DEF ListsAreSound, SoundList
<1>6. NextKeysAreApart'
  <2>1. \A d \in Callers : Imported(d)' => Imported(d) /\ rotations'[d] = rotations[d]
    BY <1>1 DEF Imported
  <2>2. QED BY <2>1 DEF RotationInv, NextKeysAreApart
<1>7. QED
  BY <1>3, <1>4, <1>5, <1>6 DEF RotationInv, FirstAreOwned, RequestsAreCovered, LedgerIsCovered

LEMMA ReadsStep ==
  ASSUME RotationKeys \in Nat, RotationKeys >= 3, RotationInv, NEW c \in Callers, Ion!Read(c)
  PROVE  RotationInv'
<1> DEFINE e == [Ion!Idle EXCEPT !.at = "read", !.keys = listed]
<1>1. saved /\ rotations' = [rotations EXCEPT ![c] = e]
      /\ UNCHANGED <<owned, updater, active, requests, fresh, lost, saved, listed, apart>>
  BY DEF Ion!Read, Ion!storeVars
<1>2. e \in Ion!Call /\ e.at = "read" /\ e.keys = listed
  BY DEF RotationInv, Ion!TypeOK, Ion!Call, Ion!Idle
<1>3. SoundList(listed', apart')
  BY <1>1 DEF RotationInv, ListsAreSound, SoundList
<1>4. apart' \subseteq Ion!Listable
  BY <1>1 DEF RotationInv, Ion!TypeOK
<1> HIDE DEF e
<1>5. SoundList(e.keys, apart')
  BY <1>1, <1>2, <1>3 DEF SoundList
<1>6. QED BY <1>1, <1>2, <1>3, <1>4, <1>5, CallGoesStep

LEMMA ResolveStep ==
  ASSUME RotationKeys \in Nat, RotationKeys >= 3, RotationInv, NEW c \in Callers, Ion!Resolve(c)
  PROVE  RotationInv'
<1>1. PICK k \in rotations[c].keys :
        /\ k = Ion!Committed /\ Ion!Foreign \notin rotations[c].keys
        /\ rotations' = [rotations EXCEPT ![c].at = "resolved", ![c].current = k]
  BY DEF Ion!Resolve, Ion!Matching, Ion!Throws
<1>2. /\ rotations[c].at = "read" /\ rotations[c] \in Ion!Call
      /\ UNCHANGED <<owned, updater, active, requests, fresh, lost, saved, listed, apart>>
  BY DEF Ion!Resolve, Ion!storeVars, RotationInv, Ion!TypeOK
<1>3. saved /\ SoundList(rotations[c].keys, apart) /\ SoundList(listed, apart)
  BY <1>2 DEF RotationInv, ListsAreSound
<1> DEFINE e == [rotations[c] EXCEPT !.at = "resolved", !.current = k]
<1>4. k \in Ion!Key \union {Ion!NoKey}
  BY <1>1, <1>2 DEF Ion!Call, Ion!Listable, Ion!Foreign
<1>5. e \in Ion!Call /\ e.at = "resolved" /\ e.keys = rotations[c].keys
  BY <1>2, <1>4 DEF Ion!Call
<1>6. rotations' = [rotations EXCEPT ![c] = e]
  BY <1>1
<1> HIDE DEF e
<1>7. SoundList(e.keys, apart') /\ SoundList(listed', apart') /\ apart' \subseteq Ion!Listable
  BY <1>2, <1>3, <1>5 DEF SoundList, RotationInv, Ion!TypeOK
<1>8. QED BY <1>2, <1>3, <1>5, <1>6, <1>7, CallGoesStep

LEMMA SaveIdentifierStep ==
  ASSUME RotationKeys \in Nat, RotationKeys >= 3, RotationInv, NEW c \in Callers, Ion!Save(c)
  PROVE  RotationInv'
<1>1. PICK pushed \in {{}, {Ion!Foreign}}, filtered \in {{}} \union {{k} : k \in rotations[c].keys} :
        /\ listed' = (rotations[c].keys \union pushed) \ filtered
        /\ apart' = apart \union pushed \union filtered
  BY DEF Ion!Save
<1>2. /\ rotations[c].at = "submitted" /\ rotations[c] \in Ion!Call /\ saved'
      /\ rotations' = [rotations EXCEPT ![c] = Ion!Idle]
      /\ UNCHANGED <<owned, updater, active, requests, fresh, lost>>
  BY DEF Ion!Save, Ion!Over, RotationInv, Ion!TypeOK
<1>3. saved /\ SoundList(rotations[c].keys, apart)
  BY <1>2 DEF RotationInv, ListsAreSound
<1>4. filtered \subseteq rotations[c].keys
  OBVIOUS
<1>5. apart \subseteq apart' /\ apart' \subseteq Ion!Listable
  BY <1>1, <1>2, <1>4 DEF RotationInv, Ion!TypeOK, Ion!Call, Ion!Listable
<1>6. SoundList(listed', apart')
  <2>1. listed' \subseteq FirstKeys \union {Ion!Foreign}
    BY <1>1, <1>3 DEF SoundList
  <2>2. ASSUME apart' \intersect {Ion!Recovery, Ion!Foreign} = {}
        PROVE  Ion!Recovery \in listed' /\ Ion!Foreign \notin listed'
    <3>1. pushed = {} /\ Ion!Recovery \notin filtered
      BY <1>1, <2>2
    <3>2. Ion!Recovery \in rotations[c].keys /\ Ion!Foreign \notin rotations[c].keys
      BY <1>3, <1>5, <2>2 DEF SoundList
    <3>3. QED BY <1>1, <3>1, <3>2
  <2>3. QED BY <2>1, <2>2 DEF SoundList, Ion!Foreign
<1>7. Ion!Idle \in Ion!Call /\ Ion!Idle.at = "idle"
  BY DEF Ion!Idle, Ion!Call
<1>8. QED BY <1>2, <1>3, <1>5, <1>6, <1>7, CallGoesStep

LEMMA FailsStep ==
  ASSUME RotationKeys \in Nat, RotationKeys >= 3, RotationInv, NEW c \in Callers, Ion!Fails(c)
  PROVE  RotationInv'
<1>1. /\ rotations[c].at # "idle"
      /\ rotations' = [rotations EXCEPT ![c] = Ion!Idle]
      /\ UNCHANGED <<owned, updater, active, requests, fresh, lost, saved, listed, apart>>
  BY DEF Ion!Fails, Ion!Over, Ion!storeVars
<1>2. saved /\ SoundList(listed, apart) /\ apart \subseteq Ion!Listable
  BY <1>1 DEF RotationInv, ListsAreSound, Ion!TypeOK
<1>3. SoundList(listed', apart') /\ apart' \subseteq Ion!Listable /\ saved'
  BY <1>1, <1>2 DEF SoundList
<1>4. Ion!Idle \in Ion!Call /\ Ion!Idle.at = "idle"
  BY DEF Ion!Idle, Ion!Call
<1>5. QED BY <1>1, <1>2, <1>3, <1>4, CallGoesStep

LEMMA NextKeyStep ==
  ASSUME RotationKeys \in Nat, RotationKeys >= 3, RotationInv, NEW c \in Callers, Ion!ImportNext(c)
  PROVE  RotationInv'
<1>1. /\ fresh <= RotationKeys /\ owned' = owned \union {fresh} /\ fresh' = fresh + 1
      /\ rotations' = [rotations EXCEPT ![c].at = "imported", ![c].next = fresh]
      /\ rotations[c].at = "resolved"
      /\ UNCHANGED <<saved, listed, apart, updater, active, requests, lost>>
  BY DEF Ion!ImportNext, Ion!storeVars
<1>2. /\ fresh \in Nat /\ owned \subseteq Nat /\ lost \subseteq Nat /\ updater \in Nat
      /\ \A r \in requests : r.next \in Nat
      /\ rotations[c] \in Ion!Call
  BY DEF RotationInv, Ion!TypeOK, Ion!Request
<1>3. rotations'[c] = [at |-> "imported", keys |-> rotations[c].keys, current |-> rotations[c].current,
                        next |-> fresh]
  BY <1>1, <1>2 DEF RotationInv, Ion!TypeOK, Ion!Call
<1>4. fresh > 3
  BY <1>1, <1>2 DEF RotationInv, KeysAreNumbered, Ion!Idle
<1>5. Ion!TypeOK'
  <2>1. rotations' \in [Callers -> Ion!Call]
    <3>0. fresh \in Ion!Key
      BY <1>1, <1>2, <1>4
    <3> HIDE DEF Ion!Key
    <3>1. rotations'[c] \in Ion!Call
      BY <1>2, <1>3, <3>0 DEF Ion!Call
    <3>2. \A d \in Callers : d # c => rotations'[d] \in Ion!Call
      BY <1>1 DEF RotationInv, Ion!TypeOK
    <3>3. rotations' = [d \in Callers |-> rotations'[d]]
      BY <1>1 DEF RotationInv, Ion!TypeOK
    <3>4. QED BY <3>1, <3>2, <3>3
  <2>2. fresh \in Ion!Key /\ owned' \subseteq Ion!Key
    BY <1>1, <1>2, <1>4 DEF RotationInv, Ion!TypeOK
  <2>3. fresh' \in Nat
    BY <1>1, <1>2
  <2>4. QED BY <1>1, <2>1, <2>2, <2>3 DEF RotationInv, Ion!TypeOK
<1>6. KeysAreNumbered'
  BY <1>1, <1>2, <1>4 DEF RotationInv, KeysAreNumbered
<1>7. \A d \in Callers : d # c => rotations'[d] = rotations[d]
  BY <1>1 DEF RotationInv, Ion!TypeOK
<1>8. \A d \in Callers : Imported(d)' => d = c \/ (Imported(d) /\ rotations'[d] = rotations[d])
  BY <1>7 DEF Imported
<1>9. \A d \in Callers : Imported(d) => rotations[d].next # fresh
  BY <1>2 DEF RotationInv, KeysAreNumbered, NextKeysAreApart
<1>10. /\ fresh # updater
       /\ \A r \in requests : r.next # fresh
  BY <1>2 DEF RotationInv, KeysAreNumbered
<1>11. NextKeysAreApart'
  <2>1. ASSUME NEW d \in Callers, Imported(d)'
        PROVE  /\ rotations'[d].next \in owned' /\ rotations'[d].next > 3 /\ rotations'[d].next # updater'
               /\ \A r \in requests' : r.next # rotations'[d].next
    <3> DEFINE NextFits(k) == k \in owned' /\ k > 3 /\ k # updater' /\ \A r \in requests' : r.next # k
    <3>1. CASE d = c
      <4>1. NextFits(fresh)
        BY <1>1, <1>4, <1>10
      <4>2. rotations'[d].next = fresh
        BY <1>3, <3>1
      <4>3. QED BY <4>1, <4>2
    <3>2. CASE d # c
      <4>1. NextFits(rotations[d].next)
        BY <1>1, <1>8, <2>1, <3>2 DEF RotationInv, NextKeysAreApart
      <4>2. rotations'[d].next = rotations[d].next
        BY <1>8, <2>1, <3>2
      <4>3. QED BY <4>1, <4>2
    <3>3. QED BY <3>1, <3>2
  <2>2. ASSUME NEW d \in Callers, NEW e \in Callers, Imported(d)', Imported(e)', d # e
        PROVE  rotations'[e].next # rotations'[d].next
    BY <1>3, <1>8, <1>9, <2>2 DEF RotationInv, NextKeysAreApart
  <2>3. QED BY <2>1, <2>2 DEF NextKeysAreApart
<1>12. ListsAreSound'
  <2>1. ASSUME NEW d \in Callers, rotations'[d].at # "idle" PROVE saved' /\ SoundList(rotations'[d].keys, apart')
    <3>1. rotations[d].at # "idle" /\ rotations'[d].keys = rotations[d].keys
      <4>1. CASE d = c
        BY <1>1, <1>3, <4>1
      <4>2. CASE d # c
        BY <1>7, <2>1, <4>2
      <4>3. QED BY <4>1, <4>2
    <3>2. QED BY <1>1, <3>1 DEF RotationInv, ListsAreSound
  <2>2. QED BY <1>1, <2>1 DEF RotationInv, ListsAreSound
<1>13. QED
  BY <1>1, <1>5, <1>6, <1>11, <1>12 DEF RotationInv, FirstAreOwned, RequestsAreCovered, LedgerIsCovered

\* A call that has submitted its request, or failed to; the other calls go on.
LEMMA SubmittedStep ==
  ASSUME RotationKeys \in Nat, RotationKeys >= 3, RotationInv, NEW c \in Callers, Imported(c),
         NEW e \in Ion!Call, e.at # "imported", e.at = "idle" \/ e.keys = rotations[c].keys,
         rotations' = [rotations EXCEPT ![c] = e],
         owned' \in {owned, owned \ {rotations[c].next}},
         UNCHANGED <<saved, listed, apart, updater, active, fresh>>,
         Ion!Accepted(Ion!UpdateRequest(c)) \/ Ion!Refused,
         \/ UNCHANGED requests /\ UNCHANGED lost
         \/ owned' = owned /\ UNCHANGED lost
         \/ lost' = lost \union {rotations[c].next}
  PROVE  RotationInv'
<1> DEFINE n == rotations[c].next
           r == Ion!UpdateRequest(c)
<1>1. /\ n \in owned /\ n > 3 /\ n # updater /\ n \in Ion!Key /\ rotations[c] \in Ion!Call
      /\ r \in Ion!Request /\ r.next = n /\ r.kind = "update"
  BY DEF RotationInv, NextKeysAreApart, Ion!TypeOK, Ion!UpdateRequest, Ion!Call, Ion!Request
<1>2. /\ fresh \in Nat /\ owned \subseteq Nat /\ lost \subseteq Nat /\ updater \in Nat /\ n < fresh
      /\ \A q \in requests : q.next \in Nat
  BY <1>1 DEF RotationInv, Ion!TypeOK, Ion!Request, KeysAreNumbered
<1>3. requests' = requests \/ (requests = {} /\ requests' = {r})
  BY DEF Ion!Accepted, Ion!Refused
<1>4. \A d \in Callers : rotations'[d] = IF d = c THEN e ELSE rotations[d]
  BY DEF RotationInv, Ion!TypeOK
<1>5. /\ rotations' \in [Callers -> Ion!Call]
      /\ \A d \in Callers : Imported(d)' => d # c /\ Imported(d) /\ rotations'[d] = rotations[d]
  BY <1>4 DEF RotationInv, Ion!TypeOK, Imported
<1>6. lost' \subseteq lost \union {n} /\ lost \subseteq lost' /\ owned \ {n} \subseteq owned' /\ owned' \subseteq owned
  OBVIOUS
<1>7. Ion!TypeOK'
  BY <1>1, <1>3, <1>5, <1>6 DEF RotationInv, Ion!TypeOK
<1>8. KeysAreNumbered'
  BY <1>1, <1>2, <1>3, <1>6 DEF RotationInv, KeysAreNumbered, Imported, Ion!Idle
<1>9. ListsAreSound' /\ FirstAreOwned'
  <2>1. \A d \in Callers : rotations'[d].at # "idle" => /\ rotations[d].at # "idle"
                                                       /\ rotations'[d].keys = rotations[d].keys
    BY <1>4 DEF Imported
  <2>2. QED BY <1>1, <1>6, <2>1 DEF RotationInv, ListsAreSound, SoundList, FirstAreOwned
<1>10. NextKeysAreApart'
  BY <1>1, <1>3, <1>5, <1>6 DEF RotationInv, NextKeysAreApart
<1>11. r \in requests' /\ r \notin requests => n \in owned' \union lost'
  BY <1>1 DEF Ion!Refused
<1>12. \A q \in requests : q.next # n
  BY DEF RotationInv, NextKeysAreApart
<1>13. RequestsAreCovered'
  BY <1>1, <1>3, <1>6, <1>11, <1>12 DEF RotationInv, RequestsAreCovered
<1>14. LedgerIsCovered'
  BY <1>1, <1>6 DEF RotationInv, LedgerIsCovered
<1>15. QED
  BY <1>7, <1>8, <1>9, <1>10, <1>13, <1>14 DEF RotationInv

LEMMA DeactivateStep ==
  ASSUME RotationKeys \in Nat, RotationKeys >= 3, RotationInv, Ion!Deactivate
  PROVE  RotationInv'
<1> DEFINE r == [kind |-> "deactivate", signer |-> Ion!Recovery, next |-> Ion!NoKey]
<1>1. /\ \A c \in Callers : rotations[c] = Ion!Idle
      /\ listed' \in {{}, listed}
      /\ owned' \subseteq owned
      /\ saved' => UNCHANGED <<owned, listed>>
      /\ saved /\ saved' \in BOOLEAN
      /\ UNCHANGED <<updater, active, rotations, fresh, lost, apart>>
  BY DEF Ion!Deactivate, RotationInv, Ion!TypeOK
<1>2. requests' = requests \/ (requests = {} /\ requests' = {r})
  BY DEF Ion!Deactivate, Ion!Accepted, Ion!Refused
<1>3. r \in Ion!Request /\ r.next = 0 /\ r.kind = "deactivate"
  BY DEF Ion!Request
<1>4. Ion!TypeOK'
  BY <1>1, <1>2, <1>3 DEF RotationInv, Ion!TypeOK
<1>5. KeysAreNumbered'
  <2>1. fresh \in Nat /\ fresh > 3
    BY <1>1 DEF RotationInv, KeysAreNumbered, Ion!TypeOK
  <2>2. \A q \in requests' : q.next < fresh
    BY <1>2, <1>3, <2>1 DEF RotationInv, KeysAreNumbered
  <2>3. QED BY <1>1, <2>1, <2>2 DEF RotationInv, KeysAreNumbered
<1>6. NextKeysAreApart'
  BY <1>1 DEF NextKeysAreApart, Imported, Ion!Idle
<1>7. ListsAreSound'
  <2>1. \A c \in Callers : rotations'[c].at = "idle"
    BY <1>1 DEF Ion!Idle
  <2>2. QED BY <1>1, <2>1 DEF RotationInv, ListsAreSound, SoundList
<1>8. QED
  BY <1>1, <1>2, <1>3, <1>4, <1>5, <1>6, <1>7
     DEF RotationInv, FirstAreOwned, RequestsAreCovered, LedgerIsCovered

LEMMA RestartStep ==
  ASSUME RotationKeys \in Nat, RotationKeys >= 3, RotationInv, Ion!Restart
  PROVE  RotationInv'
<1>1. /\ \A c \in Callers : rotations'[c] = Ion!Idle
      /\ rotations' \in [Callers -> Ion!Call]
      /\ UNCHANGED <<owned, saved, listed, apart, updater, active, requests, fresh, lost>>
  BY DEF Ion!Restart, Ion!Idle, Ion!Call, Ion!storeVars
<1>2. QED
  BY <1>1 DEF RotationInv, Ion!TypeOK, KeysAreNumbered, ListsAreSound, SoundList, FirstAreOwned, NextKeysAreApart,
     RequestsAreCovered, LedgerIsCovered, Imported, Ion!Idle

LEMMA AnchorStep ==
  ASSUME RotationKeys \in Nat, RotationKeys >= 3, RotationInv, Ion!Anchor
  PROVE  RotationInv'
<1>1. PICK r \in requests :
        /\ requests' = requests \ {r}
        /\ active' = CASE r.kind = "deactivate" /\ active = "yes" -> "deactivated"
                       [] r.kind = "create" -> "yes"
                       [] OTHER -> active
        /\ updater' = IF \/ r.kind = "create"
                         \/ r.kind = "update" /\ active = "yes" /\ r.signer = updater
                      THEN r.next ELSE updater
  BY DEF Ion!Anchor
<1>2. UNCHANGED <<owned, saved, listed, apart, rotations, fresh, lost>>
  BY DEF Ion!Anchor, Ion!storeVars
<1>3. Ion!TypeOK'
  BY <1>1, <1>2 DEF RotationInv, Ion!TypeOK, Ion!Request
<1>4. KeysAreNumbered'
  BY <1>1, <1>2 DEF RotationInv, KeysAreNumbered
<1>5. NextKeysAreApart'
  BY <1>1, <1>2 DEF RotationInv, NextKeysAreApart, Imported
<1>6. RequestsAreCovered'
  BY <1>1, <1>2 DEF RotationInv, RequestsAreCovered
<1>7. LedgerIsCovered'
  BY <1>1, <1>2 DEF RotationInv, RequestsAreCovered, LedgerIsCovered, FirstAreOwned
<1>8. QED
  BY <1>2, <1>3, <1>4, <1>5, <1>6, <1>7 DEF RotationInv, FirstAreOwned, ListsAreSound, SoundList

\* Every step keeps the invariant.
LEMMA RotationStep ==
  ASSUME RotationKeys \in Nat, RotationKeys >= 3, RotationInv, [Ion!Next]_(Ion!vars)
  PROVE  RotationInv'
<1>0. Ion!Idle \in Ion!Call /\ Ion!Idle.at = "idle"
  BY DEF Ion!Idle, Ion!Call
<1>1. ASSUME NEW c \in Callers, Ion!Submit(c) PROVE RotationInv'
  <2> DEFINE e == [rotations[c] EXCEPT !.at = "submitted"]
  <2>1. rotations[c] \in Ion!Call /\ rotations' = [rotations EXCEPT ![c] = e] /\ Imported(c)
    BY <1>1 DEF Ion!Submit, RotationInv, Ion!TypeOK, Imported
  <2>2. e \in Ion!Call /\ e.at = "submitted" /\ e.keys = rotations[c].keys
    BY <2>1 DEF Ion!Call
  <2> HIDE DEF e
  <2>3. QED BY <1>1, <2>1, <2>2, SubmittedStep DEF Ion!Submit, Ion!Kept, Ion!Refused, Ion!storeVars
<1>2. ASSUME NEW c \in Callers, Ion!SubmitFails(c) PROVE RotationInv'
  BY <1>0, <1>2, SubmittedStep DEF Ion!SubmitFails, Ion!Over, Imported, Ion!Refused, Ion!storeVars
<1>3. ASSUME UNCHANGED Ion!vars PROVE RotationInv'
  BY <1>3 DEF Ion!vars, RotationInv, Ion!TypeOK, KeysAreNumbered, ListsAreSound, SoundList, FirstAreOwned,
     NextKeysAreApart, Imported, RequestsAreCovered, LedgerIsCovered
<1>4. QED
  BY <1>1, <1>2, <1>3, CreateStep, ReadsStep, ResolveStep, NextKeyStep, SaveIdentifierStep, FailsStep,
     DeactivateStep, RestartStep, AnchorStep DEF Ion!Next

LEMMA RotationStays ==
  ASSUME RotationKeys \in Nat, RotationKeys >= 3
  PROVE  Ion!Spec => []RotationInv
<1>1. Ion!Init => RotationInv
  BY RotationInit
<1>2. RotationInv /\ [Ion!Next]_(Ion!vars) => RotationInv'
  BY RotationStep
<1>3. QED BY <1>1, <1>2, PTL DEF Ion!Spec

\* Every reachable state of the provider, the key manager, the DID manager and the
\* ledger is well typed, whatever answer is lost and whoever restarts.
THEOREM RotationTypeCorrect ==
  ASSUME RotationKeys \in Nat, RotationKeys >= 3
  PROVE  Ion!Spec => []Ion!TypeOK
<1>1. RotationInv => Ion!TypeOK
  BY DEF RotationInv
<1>2. QED BY <1>1, RotationStays, PTL

\* The key manager has the update key that the ledger is committed to as long as
\* the DID manager has the identifier, but for one whose request was anchored
\* though its answer was lost; and it has the recovery key, which is listed and
\* found unless the application removed it or added a key that the provider throws
\* on: for any number of calls that read the identifier, import next keys and save
\* at a time.
THEOREM IonIsControlled ==
  ASSUME RotationKeys \in Nat, RotationKeys >= 3
  PROVE  Ion!Spec => []IonStaysControlled
<1>1. RotationInv => IonStaysControlled
  BY DEF IonStaysControlled, RotationInv, LedgerIsCovered, ListsAreSound, SoundList, FirstAreOwned,
         Ion!IonStaysControlled, Ion!CommittedKeyIsOwned, Ion!RecoveryIsPossible, Ion!Matching, Ion!Throws
<1>2. QED BY <1>1, RotationStays, PTL

------------------------------------------------------------------------------
(* The private keys: what was imported can be read back, when the imports  *)
(* under an alias wait for each other and the store keeps its rows to      *)
(* itself.                                                                 *)

\* The conditions of the theorem.
Boxed == Box!PrivateKeysAssumption /\ Exclusive /\ ~InPlace

\* The types, but for the bounds of the counters.
Kept == [object : Nat, text : Box!Text]
ImportCalls == [stage : Box!Stages, alias : BoxAliases \union {NoSecret}, secret : Secrets \union {NoSecret},
            entry : Kept, left : SUBSET (BoxAliases \X Nat)]

BoxTyped ==
  /\ entries \in [BoxAliases -> Kept]
  /\ imports \in [Callers -> ImportCalls]
  /\ writes \in Nat
  /\ imported \in [BoxAliases -> SUBSET Secrets]

Importing(c) == imports[c].stage \in {"existing", "compared", "encrypted"}

\* An import keeps its alias to itself, and knows what is stored there: the
\* entry it has read, or that no other secret was acknowledged.
ImportsAreApart ==
  \A c \in Callers :
    IF Importing(c)
    THEN /\ imports[c].secret \in Secrets /\ imports[c].alias \in BoxAliases \ {NoSecret}
         /\ \A d \in Callers \ {c} : imports[d].alias # imports[c].alias
         /\ IF imports[c].stage = "existing" THEN imports[c].entry = entries[imports[c].alias]
            ELSE imported[imports[c].alias] \subseteq {imports[c].secret}
    ELSE imports[c].secret = NoSecret /\ imports[c].alias = NoSecret

BoxInv ==
  /\ BoxTyped
  /\ ImportsAreApart
  /\ Box!ImportedKeysAreKept /\ Box!EncryptedInMemory

LEMMA BoxInit ==
  ASSUME Boxed, Box!Init
  PROVE  BoxInv
<1>1. BoxTyped
  BY DEF Box!Init, BoxTyped, Kept, ImportCalls, Box!NoEntry, Box!Text, Box!Stages, Box!Idle
<1>2. QED
  BY <1>1 DEF Box!Init, BoxInv, ImportsAreApart, Importing, Box!Idle, Box!ImportedKeysAreKept,
     Box!EncryptedInMemory, Box!Has

\* A call moves on, or ends, and leaves what is stored alone.
LEMMA CallStep ==
  ASSUME Boxed, BoxInv, NEW c \in Callers, NEW call \in ImportCalls, imports' = [imports EXCEPT ![c] = call],
         UNCHANGED <<entries, writes, imported>>,
         \/ /\ call.secret = NoSecret /\ call.alias = NoSecret
            /\ call.stage \in {"idle", "listing"}
         \/ /\ Importing(c) /\ call.secret = imports[c].secret /\ call.alias = imports[c].alias
            /\ call.stage \in {"compared", "encrypted"}
            /\ imported[call.alias] \subseteq {call.secret}
  PROVE  BoxInv'
<1>1. \A d \in Callers : imports'[d] = IF d = c THEN call ELSE imports[d]
  BY DEF BoxInv, BoxTyped
<1>2. BoxTyped'
  BY DEF BoxInv, BoxTyped
<1>4. ImportsAreApart'
  <2>1. ASSUME NEW d \in Callers, d # c
        PROVE  IF Importing(d)'
               THEN /\ imports'[d].secret \in Secrets /\ imports'[d].alias \in BoxAliases \ {NoSecret}
                    /\ \A e \in Callers \ {d} : imports'[e].alias # imports'[d].alias
                    /\ IF imports'[d].stage = "existing" THEN imports'[d].entry = entries'[imports'[d].alias]
                       ELSE imported'[imports'[d].alias] \subseteq {imports'[d].secret}
               ELSE imports'[d].secret = NoSecret /\ imports'[d].alias = NoSecret
    BY <1>1, <2>1 DEF BoxInv, ImportsAreApart, Importing
  <2>2. ASSUME Importing(c)'
        PROVE  /\ call.secret \in Secrets /\ call.alias \in BoxAliases \ {NoSecret}
               /\ \A e \in Callers \ {c} : imports'[e].alias # call.alias
               /\ call.stage # "existing" /\ imported'[call.alias] \subseteq {call.secret}
    BY <1>1, <2>2 DEF BoxInv, ImportsAreApart, Importing
  <2>3. ASSUME ~Importing(c)' PROVE call.secret = NoSecret /\ call.alias = NoSecret
    BY <1>1, <2>3 DEF Importing
  <2>4. QED BY <1>1, <2>1, <2>2, <2>3 DEF ImportsAreApart, Importing
<1>5. Box!ImportedKeysAreKept' /\ Box!EncryptedInMemory'
  BY DEF BoxInv, Box!ImportedKeysAreKept, Box!Got, Box!EncryptedInMemory, Box!Has
<1>6. QED BY <1>2, <1>4, <1>5 DEF BoxInv

LEMMA IdleCall ==
  ASSUME Boxed
  PROVE  Box!Idle \in ImportCalls /\ Box!Idle.secret = NoSecret /\ Box!Idle.alias = NoSecret /\ Box!Idle.stage = "idle"
BY DEF Boxed, Box!PrivateKeysAssumption, Box!Idle, ImportCalls, Box!Stages, Kept, Box!NoEntry, Box!Text

LEMMA KeyImportStep ==
  ASSUME Boxed, BoxInv, NEW c \in Callers, NEW a \in BoxAliases, NEW s \in Secrets, Box!Import(c, a, s)
  PROVE  BoxInv'
<1>0. PICK stage \in {"existing", "compared"} : stage = IF Box!Has(a) THEN "existing" ELSE "compared"
  OBVIOUS
<1> DEFINE call == [Box!Idle EXCEPT !.stage = stage, !.alias = a, !.secret = s, !.entry = entries[a]]
<1>1. /\ imports[c] = Box!Idle /\ \A d \in Callers : imports[d].alias # a
      /\ imports' = [imports EXCEPT ![c] = call]
      /\ UNCHANGED <<entries, writes, imported>>
  BY <1>0 DEF Boxed, Box!Import
<1>2. /\ call \in ImportCalls
      /\ call.stage = stage /\ call.alias = a /\ call.secret = s /\ call.entry = entries[a]
  <2>1. entries[a] \in Kept
    BY DEF BoxInv, BoxTyped
  <2>2. QED BY <2>1, IdleCall DEF ImportCalls, Box!Stages
<1>3. \A d \in Callers : imports'[d] = IF d = c THEN call ELSE imports[d]
  BY <1>1 DEF BoxInv, BoxTyped
<1>4. BoxTyped'
  BY <1>1, <1>2 DEF BoxInv, BoxTyped
<1>6. a # NoSecret /\ imports[c].stage = "idle"
  BY <1>1 DEF Box!Idle
<1>7. stage = "existing" \/ (stage = "compared" /\ imported[a] = {})
  <2>1. ASSUME ~Box!Has(a), NEW t \in imported[a] PROVE FALSE
    <3>1. Box!Got(a) = t /\ t \in Secrets
      BY DEF BoxInv, Box!ImportedKeysAreKept, BoxTyped
    <3>2. Box!Got(a) = NoSecret
      BY <2>1 DEF Box!Has, Box!Got, Box!Decrypt, Box!NoEntry
    <3>3. QED BY <3>1, <3>2 DEF Boxed, Box!PrivateKeysAssumption
  <2>2. QED BY <1>0, <2>1
<1>8. ASSUME NEW d \in Callers, d # c, Importing(d)
      PROVE  /\ \A e \in Callers \ {d} : imports'[e].alias # imports'[d].alias
             /\ imports'[d] = imports[d]
  BY <1>1, <1>3, <1>8 DEF BoxInv, ImportsAreApart
<1>9. ImportsAreApart'
  <2>1. ASSUME NEW d \in Callers, d # c
        PROVE  IF Importing(d)'
               THEN /\ imports'[d].secret \in Secrets /\ imports'[d].alias \in BoxAliases \ {NoSecret}
                    /\ \A e \in Callers \ {d} : imports'[e].alias # imports'[d].alias
                    /\ IF imports'[d].stage = "existing" THEN imports'[d].entry = entries'[imports'[d].alias]
                       ELSE imported'[imports'[d].alias] \subseteq {imports'[d].secret}
               ELSE imports'[d].secret = NoSecret /\ imports'[d].alias = NoSecret
    <3>1. imports'[d] = imports[d] /\ (Importing(d)' <=> Importing(d))
      BY <1>3, <2>1 DEF Importing
    <3>2. CASE Importing(d)
      <4>1. /\ imports[d].secret \in Secrets /\ imports[d].alias \in BoxAliases \ {NoSecret}
            /\ IF imports[d].stage = "existing" THEN imports[d].entry = entries[imports[d].alias]
               ELSE imported[imports[d].alias] \subseteq {imports[d].secret}
        BY <2>1, <3>2 DEF BoxInv, ImportsAreApart
      <4>2. \A e \in Callers \ {d} : imports'[e].alias # imports'[d].alias
        BY <1>8, <2>1, <3>2
      <4>3. /\ imports'[d].secret \in Secrets /\ imports'[d].alias \in BoxAliases \ {NoSecret}
            /\ IF imports'[d].stage = "existing" THEN imports'[d].entry = entries'[imports'[d].alias]
               ELSE imported'[imports'[d].alias] \subseteq {imports'[d].secret}
        <5>1. entries' = entries /\ imported' = imported /\ imports'[d] = imports[d]
          BY <1>1, <3>1
        <5>2. QED BY <4>1, <5>1
      <4>4. QED BY <3>1, <3>2, <4>2, <4>3
    <3>3. CASE ~Importing(d)
      <4>1. imports[d].secret = NoSecret /\ imports[d].alias = NoSecret
        BY <2>1, <3>3 DEF BoxInv, ImportsAreApart
      <4>2. QED BY <3>1, <3>3, <4>1
    <3>4. QED BY <3>2, <3>3
  <2>2. /\ Importing(c)' /\ imports'[c] = call
        /\ \A e \in Callers \ {c} : imports'[e].alias # a
    <3>1. imports'[c] = call
      BY <1>3
    <3>2. Importing(c)'
      BY <1>2, <3>1 DEF Importing
    <3>3. \A e \in Callers \ {c} : imports'[e].alias # a
      BY <1>1, <1>3
    <3>4. QED BY <3>1, <3>2, <3>3
  <2>3. /\ imports'[c].secret \in Secrets /\ imports'[c].alias \in BoxAliases \ {NoSecret}
        /\ \A e \in Callers \ {c} : imports'[e].alias # imports'[c].alias
        /\ IF imports'[c].stage = "existing" THEN imports'[c].entry = entries'[imports'[c].alias]
           ELSE imported'[imports'[c].alias] \subseteq {imports'[c].secret}
    <3>1. imports'[c].stage = stage /\ imports'[c].alias = a /\ imports'[c].secret = s /\ imports'[c].entry = entries[a]
      BY <1>2, <2>2
    <3>2. entries' = entries /\ imported' = imported
      BY <1>1
    <3>3. QED BY <1>6, <1>7, <2>2, <3>1, <3>2
  <2>4. QED BY <2>1, <2>2, <2>3 DEF ImportsAreApart
<1>10. Box!ImportedKeysAreKept' /\ Box!EncryptedInMemory'
  BY <1>1 DEF BoxInv, Box!ImportedKeysAreKept, Box!Got, Box!EncryptedInMemory, Box!Has
<1>11. QED BY <1>4, <1>9, <1>10 DEF BoxInv

LEMMA CompareStep ==
  ASSUME Boxed, BoxInv, NEW c \in Callers, Box!Compare(c)
  PROVE  BoxInv'
<1>1. UNCHANGED <<entries, writes, imported>>
  BY DEF Boxed, Box!Compare, Box!Assign
<1>3. Importing(c) /\ imports[c].entry = entries[imports[c].alias] /\ imports[c].alias \in BoxAliases
  BY DEF BoxInv, ImportsAreApart, Importing, Box!Compare
<1>4. CASE Box!Decrypt(imports[c].entry.text).secret = imports[c].secret
  <2> DEFINE call == [imports[c] EXCEPT !.stage = "compared"]
  <2>1. imports' = [imports EXCEPT ![c] = call]
    BY <1>4 DEF Box!Compare
  <2>2. call \in ImportCalls /\ call.stage = "compared" /\ call.alias = imports[c].alias /\ call.secret = imports[c].secret
    BY DEF BoxInv, BoxTyped, ImportCalls, Box!Stages
  <2>3. imported[call.alias] \subseteq {call.secret}
    BY <1>3, <1>4, <2>2 DEF BoxInv, Box!ImportedKeysAreKept, Box!Got
  <2>4. QED BY <1>1, <1>3, <2>1, <2>2, <2>3, CallStep
<1>5. CASE Box!Decrypt(imports[c].entry.text).secret # imports[c].secret
  BY <1>1, <1>5, IdleCall, CallStep DEF Box!Compare, Box!Return
<1>6. QED BY <1>4, <1>5

LEMMA SealStep ==
  ASSUME Boxed, BoxInv, NEW c \in Callers, Box!Seal(c)
  PROVE  BoxInv'
<1> DEFINE call == [imports[c] EXCEPT !.stage = "encrypted"]
<1>1. UNCHANGED <<entries, writes, imported>> /\ Importing(c)
  BY DEF Box!Seal, Importing
<1>3. call \in ImportCalls /\ call.stage = "encrypted" /\ call.alias = imports[c].alias /\ call.secret = imports[c].secret
  BY DEF BoxInv, BoxTyped, ImportCalls, Box!Stages
<1>4. imported[call.alias] \subseteq {call.secret}
  BY <1>1, <1>3 DEF BoxInv, ImportsAreApart, Box!Seal
<1>5. CASE imports' = [imports EXCEPT ![c] = call]
  BY <1>1, <1>3, <1>4, <1>5, CallStep
<1>6. CASE Box!Return(c)
  BY <1>1, <1>6, IdleCall, CallStep DEF Box!Return
<1>7. QED BY <1>5, <1>6 DEF Box!Seal

LEMMA KeysListStep ==
  ASSUME Boxed, BoxInv, NEW c \in Callers, Box!List(c) \/ Box!ListNext(c)
  PROVE  BoxInv'
<1>1. UNCHANGED <<entries, writes, imported>>
  BY DEF Boxed, Box!List, Box!ListNext, Box!Assign
<1>3. \A a \in BoxAliases : entries[a].object \in Nat
  BY DEF BoxInv, BoxTyped, Kept
<1>4. PICK call \in ImportCalls : /\ imports' = [imports EXCEPT ![c] = call]
                              /\ call.secret = NoSecret /\ call.alias = NoSecret /\ call.stage \in {"idle", "listing"}
  <2>1. CASE Box!List(c)
    <3> DEFINE found == {<<a, entries[a].object>> : a \in {b \in BoxAliases : Box!Has(b)}}
    <3>1. found \subseteq BoxAliases \X Nat
      BY <1>3
    <3>2. [Box!Idle EXCEPT !.stage = "listing", !.left = found] \in ImportCalls
      BY <3>1, IdleCall DEF ImportCalls, Box!Stages, Box!Idle
    <3>3. QED BY <2>1, <3>2 DEF Box!List, Box!Idle
  <2>2. CASE Box!ListNext(c) /\ Box!Return(c)
    BY <2>2, IdleCall DEF Box!Return
  <2>3. CASE Box!ListNext(c) /\ ~Box!Return(c)
    <3>1. PICK found \in imports[c].left : imports' = [imports EXCEPT ![c].left = @ \ {found}]
      BY <2>3 DEF Box!ListNext
    <3>2. imports[c] \in ImportCalls /\ imports[c].stage = "listing"
      BY <2>3 DEF Box!ListNext, BoxInv, BoxTyped
    <3>3. /\ [imports[c] EXCEPT !.left = @ \ {found}] \in ImportCalls
          /\ imports' = [imports EXCEPT ![c] = [imports[c] EXCEPT !.left = @ \ {found}]]
      BY <3>1, <3>2 DEF ImportCalls
    <3>4. imports[c].secret = NoSecret /\ imports[c].alias = NoSecret
      BY <3>2 DEF BoxInv, ImportsAreApart, Importing
    <3>5. QED BY <3>2, <3>3, <3>4 DEF ImportCalls
  <2>4. QED BY <2>1, <2>2, <2>3
<1>5. QED BY <1>1, <1>4, CallStep

\* What is stored under one alias changes while nobody else imports under it.
LEMMA EntryStep ==
  ASSUME Boxed, BoxInv, NEW a \in BoxAliases, NEW entry \in Kept, NEW safe \in SUBSET Secrets,
         entries' = [entries EXCEPT ![a] = entry], imported' = [imported EXCEPT ![a] = safe], writes' \in Nat,
         \A t \in safe : Box!Decrypt(entry.text).secret = t,
         entry # Box!NoEntry => ~entry.text.clear,
         imports' \in [Callers -> ImportCalls],
         \A d \in Callers : \/ imports'[d] = imports[d] /\ (Importing(d) => imports[d].alias # a)
                            \/ imports'[d] = Box!Idle
  PROVE  BoxInv'
<1>1. BoxTyped'
  BY DEF BoxInv, BoxTyped
<1>2. /\ entries'[a] = entry /\ imported'[a] = safe
      /\ \A b \in BoxAliases : b # a => entries'[b] = entries[b] /\ imported'[b] = imported[b]
  BY DEF BoxInv, BoxTyped
<1>3. ImportsAreApart'
  <2>1. ASSUME NEW d \in Callers, imports'[d] = imports[d], Importing(d) => imports[d].alias # a
        PROVE  IF Importing(d)'
               THEN /\ imports'[d].secret \in Secrets /\ imports'[d].alias \in BoxAliases \ {NoSecret}
                    /\ \A e \in Callers \ {d} : imports'[e].alias # imports'[d].alias
                    /\ IF imports'[d].stage = "existing" THEN imports'[d].entry = entries'[imports'[d].alias]
                       ELSE imported'[imports'[d].alias] \subseteq {imports'[d].secret}
               ELSE imports'[d].secret = NoSecret /\ imports'[d].alias = NoSecret
    <3>1. CASE Importing(d)
      <4>1. /\ imports[d].secret \in Secrets /\ imports[d].alias \in BoxAliases \ {NoSecret}
            /\ \A e \in Callers \ {d} : imports'[e].alias # imports[d].alias
        BY <3>1, IdleCall DEF BoxInv, ImportsAreApart
      <4>2. IF imports[d].stage = "existing" THEN imports[d].entry = entries'[imports[d].alias]
            ELSE imported'[imports[d].alias] \subseteq {imports[d].secret}
        BY <1>2, <2>1, <3>1, <4>1 DEF BoxInv, ImportsAreApart
      <4>3. QED BY <2>1, <3>1, <4>1, <4>2 DEF Importing
    <3>2. CASE ~Importing(d)
      BY <2>1, <3>2 DEF BoxInv, ImportsAreApart, Importing
    <3>3. QED BY <3>1, <3>2
  <2>2. ASSUME NEW d \in Callers, imports'[d] = Box!Idle
        PROVE  ~Importing(d)' /\ imports'[d].secret = NoSecret /\ imports'[d].alias = NoSecret
    BY <2>2, IdleCall DEF Importing
  <2>3. QED BY <2>1, <2>2 DEF ImportsAreApart
<1>4. Box!ImportedKeysAreKept'
  BY <1>2 DEF BoxInv, Box!ImportedKeysAreKept, Box!Got
<1>5. Box!EncryptedInMemory'
  BY <1>2 DEF BoxInv, Box!EncryptedInMemory, Box!Has
<1>6. QED BY <1>1, <1>3, <1>4, <1>5 DEF BoxInv

LEMMA StoreStep ==
  ASSUME Boxed, BoxInv, NEW c \in Callers, Box!Store(c)
  PROVE  BoxInv'
<1> DEFINE a == imports[c].alias
           s == imports[c].secret
           entry == [object |-> writes + 1, text |-> Box!Encrypt(s)]
<1>1. /\ s \in Secrets /\ a \in BoxAliases /\ imported[a] \subseteq {s}
      /\ \A d \in Callers \ {c} : imports[d].alias # a
  BY DEF Box!Store, BoxInv, ImportsAreApart, Importing
<1>2. writes' \in Nat /\ writes \in Nat
  BY DEF Box!Store, BoxInv, BoxTyped
<1>3. /\ imports' \in [Callers -> ImportCalls]
      /\ \A d \in Callers : imports'[d] = IF d = c THEN Box!Idle ELSE imports[d]
  BY IdleCall DEF Box!Store, Box!Return, BoxInv, BoxTyped
<1>4. \A d \in Callers : \/ imports'[d] = imports[d] /\ (Importing(d) => imports[d].alias # a)
                         \/ imports'[d] = Box!Idle
  BY <1>1, <1>3
<1>5. CASE /\ entries' = [entries EXCEPT ![a] = entry]
           /\ imported' = [imported EXCEPT ![a] = @ \union {s}]
  <2>1. entry \in Kept /\ Box!Decrypt(entry.text).secret = s /\ ~entry.text.clear
    BY <1>1, <1>2 DEF Kept, Box!Text, Box!Encrypt, Box!Decrypt
  <2>2. imported' = [imported EXCEPT ![a] = {s}]
    BY <1>1, <1>5 DEF BoxInv, BoxTyped
  <2>3. \A t \in {s} : Box!Decrypt(entry.text).secret = t
    BY <2>1
  <2>4. {s} \in SUBSET Secrets
    BY <1>1
  <2>5. entries' = [entries EXCEPT ![a] = entry]
    BY <1>5
  <2> HIDE DEF entry, a, s
  <2>6. QED BY <1>1, <1>2, <1>3, <1>4, <2>1, <2>2, <2>3, <2>4, <2>5, EntryStep
<1>6. CASE UNCHANGED <<entries, imported>>
  <2>1. entries[a] \in Kept /\ imported[a] \in SUBSET Secrets
    BY <1>1 DEF BoxInv, BoxTyped
  <2>2. /\ entries' = [entries EXCEPT ![a] = entries[a]]
        /\ imported' = [imported EXCEPT ![a] = imported[a]]
    BY <1>1, <1>6 DEF BoxInv, BoxTyped
  <2>3. \A t \in imported[a] : Box!Decrypt(entries[a].text).secret = t
    BY <1>1 DEF BoxInv, Box!ImportedKeysAreKept, Box!Got
  <2>4. entries[a] # Box!NoEntry => ~entries[a].text.clear
    BY <1>1 DEF BoxInv, Box!EncryptedInMemory, Box!Has
  <2> HIDE DEF a
  <2>5. QED BY <1>1, <1>2, <1>3, <1>4, <2>1, <2>2, <2>3, <2>4, EntryStep
<1>7. QED BY <1>5, <1>6 DEF Box!Store, Boxed

LEMMA DeleteStep ==
  ASSUME Boxed, BoxInv, NEW c \in Callers, NEW a \in BoxAliases, Box!Delete(c, a)
  PROVE  BoxInv'
<1>1. Box!NoEntry \in Kept
  BY DEF Kept, Box!NoEntry, Box!Text
<1>2. /\ entries' = [entries EXCEPT ![a] = Box!NoEntry] /\ imported' = [imported EXCEPT ![a] = {}]
      /\ imports' = imports /\ writes' = writes /\ \A d \in Callers : imports[d].alias # a
  BY DEF Box!Delete, Boxed
<1>3. writes' \in Nat /\ imports' \in [Callers -> ImportCalls] /\ {} \in SUBSET Secrets
  BY <1>2 DEF BoxInv, BoxTyped
<1>4. QED BY <1>1, <1>2, <1>3, EntryStep

LEMMA BoxStays ==
  ASSUME Boxed
  PROVE  Box!Spec => []BoxInv
<1>1. Box!Init => BoxInv
  BY BoxInit
<1>2. BoxInv /\ [Box!Next]_(Box!vars) => BoxInv'
  <2>1. ASSUME BoxInv, UNCHANGED Box!vars PROVE BoxInv'
    BY <2>1 DEF Box!vars, BoxInv, BoxTyped, ImportsAreApart, Importing, Box!ImportedKeysAreKept, Box!Got,
       Box!EncryptedInMemory, Box!Has
  <2>2. QED
    BY <2>1, KeyImportStep, DeleteStep, CompareStep, SealStep, StoreStep, KeysListStep DEF Box!Next
<1>3. QED BY <1>1, <1>2, PTL DEF Box!Spec

\* A secret whose import under an alias was acknowledged, and that was not deleted
\* since, can be read back, in the SQL store, when the imports under an alias
\* wait for each other and whatever write fails.
THEOREM ImportsAreKept ==
  ASSUME Boxed
  PROVE  Box!Spec => []Box!ImportedKeysAreKept
<1>1. BoxInv => Box!ImportedKeysAreKept
  BY DEF BoxInv
<1>2. QED BY <1>1, BoxStays, PTL

\* Under the same conditions no entry of the store is in clear, between any two
\* steps of imports, reads and listings.
THEOREM KeysStaySealed ==
  ASSUME Boxed
  PROVE  Box!Spec => []Box!EncryptedInMemory
<1>1. BoxInv => Box!EncryptedInMemory
  BY DEF BoxInv
<1>2. QED BY <1>1, BoxStays, PTL

------------------------------------------------------------------------------
(* The did:ethr provider (EthrProvider), for any networks, keys, services, *)
(* callers and bounds.                                                     *)

\* What a key or service is in the registry.
Attribute(x, encoding) == IF x \in KeysToAdd THEN Ethr!AddName(x, encoding) ELSE ServicesToAdd[x]

IsOp(op) ==
    /\ op.what \in {"set", "revoke"} /\ op.of \in Ethr!Subjects
    /\ op.asked \in Encodings \cup {"hex"} /\ op.name = Attribute(op.of, op.asked)

\* The network that a DID was created on is the one that is found by it, if any.
FoundAgain == did.is = "created" => did.on \in DOMAIN Networks /\ Ethr!Network \in {did.on, Ethr!NoNetwork}

\* Nothing is signed for a DID whose network is not found.
SignedWhenControlled ==
    /\ \A c \in Senders : sendings[c].at = "signed" => Ethr!Controlled /\ IsOp(sendings[c].op)
    /\ \A s \in slips : Ethr!Controlled /\ IsOp(s.op)
    /\ added \cup removed # {} => Ethr!Controlled

Attributed ==
    /\ \A n \in DOMAIN Networks : attrs[n] # {} => did.is = "created" /\ did.on = n
    /\ \A n \in DOMAIN Networks : \A x \in removed : Attribute(x, addedAs[x]) \notin attrs[n]
    /\ \A x \in added : Attribute(x, addedAs[x]) \in attrs[did.on]

RegistryTyped ==
    /\ attrs \in [DOMAIN Networks -> SUBSET (Ethr!KeyNames \cup Ethr!ServiceNames)]
    /\ added \cup removed \subseteq Ethr!Subjects
    /\ addedAs \in [Ethr!Subjects -> Encodings \cup {"hex", "none"}]
    /\ \A x \in added \cup removed : addedAs[x] \in Encodings \cup {"hex"}

Signed == [at: {"signed"}, op: Ethr!Ops, nonce: 0 .. MaxNonce]

EthrInv ==
    /\ did.is \in {"none", "created"} /\ nonce \in 0 .. MaxNonce
    /\ sendings \in [Senders -> {Ethr!Idle} \cup Signed]
    /\ FoundAgain
    /\ SignedWhenControlled
    /\ RegistryTyped
    /\ Attributed

\* What the constants are
LEMMA EthrConstants ==
    ASSUME Ethr!EthrAssumption
    PROVE  /\ MaxNonce \in Nat
           /\ KeysToAdd \cap DOMAIN ServicesToAdd = {}
           /\ DOMAIN Networks = 1 .. Len(Networks) /\ Len(Networks) \in Nat /\ DOMAIN Networks \subseteq Nat
<1>1. MaxNonce \in Nat /\ Networks \in Seq(Ethr!NetworkConfig) /\ KeysToAdd \cap DOMAIN ServicesToAdd = {}
    BY Zenon DEF Ethr!EthrAssumption
<1>2. QED BY <1>1

\* No two keys or services are the same attribute, whatever their encodings.
LEMMA AttributesDiffer ==
    ASSUME Ethr!EthrAssumption, NEW x \in Ethr!Subjects, NEW y \in Ethr!Subjects,
           NEW e \in Encodings \cup {"hex"}, NEW f \in Encodings \cup {"hex"},
           Attribute(x, e) = Attribute(y, f)
    PROVE  x = y
<1>1. CASE x \in KeysToAdd /\ y \in KeysToAdd
    <2>1. Ethr!AddName(x, e).key = x /\ Ethr!AddName(y, f).key = y
        BY DEF Ethr!AddName
    <2>2. QED BY <1>1, <2>1 DEF Attribute
<1>2. CASE x \notin KeysToAdd /\ y \notin KeysToAdd
    BY <1>2 DEF Attribute, Ethr!EthrAssumption, Ethr!Subjects
<1>3. ASSUME NEW k \in KeysToAdd, NEW g \in Encodings \cup {"hex"}
      PROVE  Attribute(k, g) \in Ethr!KeyNames
    BY DEF Attribute, Ethr!AddName, Ethr!KeyNames
<1>4. ASSUME NEW id \in Ethr!Subjects \ KeysToAdd, NEW g
      PROVE  Attribute(id, g) \in Ethr!ServiceNames
    BY DEF Attribute, Ethr!ServiceNames, Ethr!Subjects
<1>5. QED BY <1>1, <1>2, <1>3, <1>4 DEF Ethr!EthrAssumption

LEMMA AttributeType ==
    ASSUME NEW op, IsOp(op)
    PROVE  op.name \in Ethr!KeyNames \cup Ethr!ServiceNames
<1>1. CASE op.of \in KeysToAdd
    BY <1>1 DEF IsOp, Attribute, Ethr!AddName, Ethr!KeyNames
<1>2. CASE op.of \notin KeysToAdd
    BY <1>2 DEF IsOp, Attribute, Ethr!ServiceNames, Ethr!Subjects
<1>3. QED BY <1>1, <1>2

\* A key is removed as what it was added as.
LEMMA OpsAreOps ==
    ASSUME Ethr!EthrAssumption, NEW op \in Ethr!Ops
    PROVE  IsOp(op)
<1>1. ASSUME NEW k \in KeysToAdd, NEW e \in Encodings, op = Ethr!AddKey(k, e) \/ op = Ethr!RemoveKey(k, e)
      PROVE  IsOp(op)
    BY <1>1 DEF IsOp, Attribute, Ethr!AddKey, Ethr!RemoveKey, Ethr!Op, Ethr!AddName, Ethr!RemoveName, Ethr!Subjects
<1>2. ASSUME NEW id \in DOMAIN ServicesToAdd, op = Ethr!AddService(id) \/ op = Ethr!RemoveService(id)
      PROVE  IsOp(op)
    BY <1>2, EthrConstants DEF IsOp, Attribute, Ethr!AddService, Ethr!RemoveService, Ethr!Op, Ethr!Subjects
<1>3. QED BY <1>1, <1>2 DEF Ethr!Ops

\* The first of some networks is one of them.
LEMMA FirstNetwork ==
    ASSUME NEW T \in SUBSET Nat, T # {}
    PROVE  Ethr!FirstOf(T) \in T
BY Least DEF Ethr!FirstOf

LEMMA NetworkFound ==
    ASSUME Ethr!EthrAssumption, NEW spec, Ethr!NetworkFor(spec) # Ethr!NoNetwork
    PROVE  Ethr!NetworkFor(spec) \in DOMAIN Networks
<1>1. Ethr!Found(spec) \in SUBSET Nat /\ Ethr!Found(spec) \subseteq DOMAIN Networks
    BY EthrConstants DEF Ethr!Found
<1>2. CASE Ethr!Found(spec) # {}
    BY <1>1, <1>2, FirstNetwork DEF Ethr!NetworkFor
<1>3. CASE Ethr!Found(spec) = {}
    BY <1>3, EthrConstants DEF Ethr!NetworkFor
<1>4. QED BY <1>2, <1>3

\* createIdentifier writes the network into the DID so that it is found again, or
\* none is.
LEMMA RoundTrip ==
    ASSUME Ethr!EthrAssumption, NEW spec, Ethr!NetworkFor(spec) # Ethr!NoNetwork,
           NEW written, written = Ethr!InDid(spec, Ethr!NetworkFor(spec))
    PROVE  Ethr!NetworkFor(IF written = Ethr!Mainnet THEN Ethr!Unspecified ELSE written)
             \in {Ethr!NetworkFor(spec), Ethr!NoNetwork}
<1> DEFINE n == Ethr!NetworkFor(spec)
<1>0. Ethr!Mainnet # Ethr!Unspecified /\ Ethr!Mainnet.is = "name" /\ Ethr!Unspecified.is = "nothing"
    BY DEF Ethr!Mainnet, Ethr!Unspecified
<1>1. n \in DOMAIN Networks
    BY NetworkFound
<1>2. CASE spec.is # "number"
    <2>1. written = spec
        BY <1>2 DEF Ethr!InDid
    <2>2. CASE spec = Ethr!Mainnet
        <3>1. Ethr!Found(Ethr!Unspecified) = Ethr!Found(spec)
            BY <1>0, <2>2 DEF Ethr!Found
        <3>2. QED BY <1>0, <2>1, <2>2, <3>1 DEF Ethr!NetworkFor
    <2>3. QED BY <2>1, <2>2
<1>3. CASE spec.is = "number" /\ Networks[n].name # ""
    <2> DEFINE name == [is |-> "name", of |-> Networks[n].name]
    <2>1. written = name /\ name.is = "name" /\ name.of = Networks[n].name
        BY <1>3 DEF Ethr!InDid
    <2> HIDE DEF n
    <2>2. \A i \in DOMAIN Networks : Ethr!Matches(Networks[i], name) <=> i = n
        BY <1>1, <1>3, <2>1 DEF Ethr!Matches, Ethr!EthrAssumption
    <2>3. name # Ethr!Unspecified
        BY <1>0, <2>1
    <2> HIDE DEF name
    <2>4. Ethr!Found(IF name = Ethr!Mainnet THEN Ethr!Unspecified ELSE name) = {n}
        BY <1>0, <1>1, <2>2, <2>3 DEF Ethr!Found
    <2>5. n \in Nat
        BY <1>1, EthrConstants
    <2>6. Ethr!FirstOf({n}) = n
        BY <2>5, FirstNetwork
    <2>7. Ethr!NetworkFor(IF name = Ethr!Mainnet THEN Ethr!Unspecified ELSE name) = n
        BY <2>4, <2>6 DEF Ethr!NetworkFor
    <2>8. QED BY <2>1, <2>7 DEF n
<1>4. CASE spec.is = "number" /\ Networks[n].name = ""
    <2> DEFINE digits == [is |-> "digits", of |-> spec.of]
    <2>1. written = digits /\ digits.is = "digits"
        BY <1>4 DEF Ethr!InDid
    <2> HIDE DEF digits
    <2>2. digits # Ethr!Unspecified /\ digits # Ethr!Mainnet
        BY <1>0, <2>1
    <2>3. Ethr!Found(digits) = {}
        BY <2>1, <2>2 DEF Ethr!Found, Ethr!Matches
    <2>4. QED BY <2>1, <2>2, <2>3 DEF Ethr!NetworkFor
<1>5. QED BY <1>2, <1>3, <1>4

LEMMA EthrCreates ==
    ASSUME Ethr!EthrAssumption, EthrInv, NEW spec, Ethr!CreateIdentifier(spec)
    PROVE  EthrInv'
<1> USE DEF EthrInv
<1> DEFINE written == Ethr!InDid(spec, Ethr!NetworkFor(spec))
<1>1. /\ did'.is = "created" /\ did'.on = Ethr!NetworkFor(spec)
      /\ did'.spec = IF written = Ethr!Mainnet THEN Ethr!Unspecified ELSE written
      /\ did.is = "none" /\ Ethr!NetworkFor(spec) # Ethr!NoNetwork
      /\ UNCHANGED <<attrs, nonce, sendings, slips, addedAs, added, removed>>
    BY DEF Ethr!CreateIdentifier
<1>2. Ethr!NetworkFor(did'.spec) \in {did'.on, Ethr!NoNetwork}
    <2> HIDE DEF written
    <2>1. written = Ethr!InDid(spec, Ethr!NetworkFor(spec))
        BY DEF written
    <2>2. QED BY <1>1, <2>1, RoundTrip
<1>3. FoundAgain'
    BY <1>1, <1>2, NetworkFound DEF FoundAgain, Ethr!Network
<1>4. SignedWhenControlled' /\ Attributed'
    BY <1>1 DEF SignedWhenControlled, Ethr!Controlled, Attributed
<1>5. QED BY <1>1, <1>3, <1>4 DEF RegistryTyped

\* What the registry does for a DID, and what is noted of it
LEMMA EthrApplies ==
    ASSUME Ethr!EthrAssumption, EthrInv, NEW op, IsOp(op), Ethr!Controlled,
           Ethr!Applied(op), Ethr!Noted(op), UNCHANGED did
    PROVE  RegistryTyped' /\ Attributed'
<1> USE DEF EthrInv
<1>1. /\ Ethr!Network = did.on /\ did.on \in DOMAIN Networks /\ did.is = "created"
    BY DEF Ethr!Controlled, FoundAgain
<1>2. /\ op.what \in {"set", "revoke"} /\ op.of \in Ethr!Subjects
      /\ op.asked \in Encodings \cup {"hex"} /\ op.name = Attribute(op.of, op.asked)
      /\ op.name \in Ethr!KeyNames \cup Ethr!ServiceNames
    BY AttributeType DEF IsOp
<1>3. attrs' = [attrs EXCEPT ![did.on] = IF op.what = "set" THEN attrs[did.on] \cup {op.name} ELSE attrs[did.on] \ {op.name}]
    BY <1>1 DEF Ethr!Applied
<1>4. ASSUME NEW y \in added \cup removed, y # op.of
      PROVE  Attribute(y, addedAs[y]) # op.name
    BY <1>2, <1>4, AttributesDiffer DEF RegistryTyped
<1>5. CASE op.what = "set"
    <2>1. /\ addedAs' = [addedAs EXCEPT ![op.of] = op.asked]
          /\ added' = added \cup {op.of} /\ removed' = removed \ {op.of}
        BY <1>5 DEF Ethr!Noted
    <2>2. attrs' = [attrs EXCEPT ![did.on] = attrs[did.on] \cup {op.name}]
        BY <1>3, <1>5
    <2>3. RegistryTyped'
        BY <1>1, <1>2, <2>1, <2>2 DEF RegistryTyped
    <2>4. \A y \in Ethr!Subjects : addedAs'[y] = IF y = op.of THEN op.asked ELSE addedAs[y]
        BY <2>1 DEF RegistryTyped
    <2>5. \A n \in DOMAIN Networks : attrs'[n] = IF n = did.on THEN attrs[n] \cup {op.name} ELSE attrs[n]
        BY <2>2 DEF RegistryTyped
    <2>6. Attributed'
        <3>1. \A n \in DOMAIN Networks : attrs'[n] # {} => did'.is = "created" /\ did'.on = n
            BY <1>1, <2>5 DEF Attributed
        <3>2. ASSUME NEW n \in DOMAIN Networks, NEW y \in removed'
              PROVE  Attribute(y, addedAs'[y]) \notin attrs'[n]
            <4>1. y \in removed /\ y # op.of /\ y \in Ethr!Subjects
                BY <2>1 DEF RegistryTyped
            <4>2. addedAs'[y] = addedAs[y] /\ Attribute(y, addedAs[y]) # op.name /\ Attribute(y, addedAs[y]) \notin attrs[n]
                BY <1>4, <2>4, <4>1 DEF Attributed
            <4>3. QED BY <2>5, <4>2
        <3>3. ASSUME NEW y \in added'
              PROVE  Attribute(y, addedAs'[y]) \in attrs'[did'.on]
            <4>1. CASE y = op.of
                <5>1. addedAs'[y] = op.asked /\ Attribute(y, op.asked) = op.name
                    BY <1>2, <2>4, <4>1
                <5>2. op.name \in attrs'[did'.on]
                    BY <1>1, <2>5
                <5>3. QED BY <5>1, <5>2
            <4>2. CASE y # op.of
                <5>1. y \in added /\ y \in Ethr!Subjects
                    BY <2>1, <4>2 DEF RegistryTyped
                <5>2. addedAs'[y] = addedAs[y] /\ Attribute(y, addedAs[y]) \in attrs[did.on]
                    BY <2>4, <4>2, <5>1 DEF Attributed
                <5>3. QED BY <1>1, <2>5, <5>2
            <4>3. QED BY <4>1, <4>2
        <3>4. QED BY <3>1, <3>2, <3>3 DEF Attributed
    <2>7. QED BY <2>3, <2>6
<1>6. CASE op.what = "revoke"
    <2>1. /\ addedAs' = addedAs /\ added' = added \ {op.of}
          /\ removed' = IF addedAs[op.of] = op.asked THEN removed \cup {op.of} ELSE removed
        BY <1>6 DEF Ethr!Noted
    <2>2. attrs' = [attrs EXCEPT ![did.on] = attrs[did.on] \ {op.name}]
        BY <1>3, <1>6
    <2>3. RegistryTyped'
        BY <1>1, <1>2, <2>1, <2>2 DEF RegistryTyped
    <2>5. \A n \in DOMAIN Networks : attrs'[n] = IF n = did.on THEN attrs[n] \ {op.name} ELSE attrs[n]
        BY <2>2 DEF RegistryTyped
    <2>6. \A y \in removed' : y \in removed \/ Attribute(y, addedAs[y]) = op.name
        BY <1>2, <2>1
    <2>7. Attributed'
        <3>1. \A n \in DOMAIN Networks : attrs'[n] # {} => did'.is = "created" /\ did'.on = n
            BY <1>1, <2>5 DEF Attributed
        <3>2. ASSUME NEW n \in DOMAIN Networks, NEW y \in removed'
              PROVE  Attribute(y, addedAs'[y]) \notin attrs'[n]
            <4>1. CASE Attribute(y, addedAs[y]) = op.name
                <5>1. op.name \notin attrs'[n]
                    BY <1>1, <2>5 DEF Attributed
                <5>2. QED BY <2>1, <4>1, <5>1
            <4>2. CASE Attribute(y, addedAs[y]) # op.name
                BY <2>1, <2>5, <2>6, <4>2 DEF Attributed
            <4>3. QED BY <4>1, <4>2
        <3>3. ASSUME NEW y \in added'
              PROVE  Attribute(y, addedAs'[y]) \in attrs'[did'.on]
            <4>1. y \in added /\ y # op.of
                BY <2>1
            <4>2. Attribute(y, addedAs[y]) \in attrs[did.on] /\ Attribute(y, addedAs[y]) # op.name
                BY <1>4, <4>1 DEF Attributed
            <4>3. QED BY <1>1, <2>1, <2>5, <4>2
        <3>4. QED BY <3>1, <3>2, <3>3 DEF Attributed
    <2>8. QED BY <2>3, <2>7
<1>7. QED BY <1>2, <1>5, <1>6

LEMMA EthrDirect ==
    ASSUME Ethr!EthrAssumption, EthrInv, NEW op \in Ethr!Ops, Ethr!Direct(op)
    PROVE  EthrInv'
<1>1. RegistryTyped' /\ Attributed'
    BY OpsAreOps, EthrApplies DEF Ethr!Direct
<1>2. QED BY <1>1 DEF Ethr!Direct, EthrInv, FoundAgain, SignedWhenControlled, Ethr!Controlled, Ethr!Network

LEMMA EthrSigns ==
    ASSUME Ethr!EthrAssumption, EthrInv, NEW op \in Ethr!Ops,
           Ethr!SignOnly(op) \/ \E c \in Senders : Ethr!Sign(c, op)
    PROVE  EthrInv'
<1> USE DEF EthrInv
<1>1. CASE Ethr!SignOnly(op)
    <2> DEFINE slip == [op |-> op, nonce |-> nonce]
    <2>1. slips' = slips \cup {slip} /\ slip.op = op /\ IsOp(op) /\ Ethr!Controlled
          /\ UNCHANGED <<did, attrs, nonce, sendings, addedAs, added, removed>>
        BY <1>1, OpsAreOps DEF Ethr!SignOnly
    <2> HIDE DEF slip
    <2>2. SignedWhenControlled'
        BY <2>1 DEF SignedWhenControlled, Ethr!Controlled, Ethr!Network
    <2>3. QED BY <2>1, <2>2 DEF FoundAgain, RegistryTyped, Attributed, Ethr!Network
<1>2. ASSUME NEW c \in Senders, Ethr!Sign(c, op) PROVE EthrInv'
    <2> DEFINE call == [at |-> "signed", op |-> op, nonce |-> nonce]
    <2>1. call \in Signed /\ call.at = "signed" /\ call.op = op
        BY DEF Signed
    <2>2. /\ sendings' = [sendings EXCEPT ![c] = call] /\ Ethr!Controlled
          /\ UNCHANGED <<did, attrs, nonce, slips, addedAs, added, removed>>
        BY <1>2 DEF Ethr!Sign
    <2>3. IsOp(op)
        BY OpsAreOps
    <2> HIDE DEF call
    <2>4. SignedWhenControlled'
        BY <2>1, <2>2, <2>3 DEF SignedWhenControlled, Ethr!Controlled, Ethr!Network
    <2>5. QED BY <2>1, <2>2, <2>4 DEF FoundAgain, RegistryTyped, Attributed, Ethr!Network
<1>3. QED BY <1>1, <1>2

LEMMA EthrSends ==
    ASSUME Ethr!EthrAssumption, EthrInv, NEW c \in Senders, Ethr!Send(c)
    PROVE  EthrInv'
<1> USE DEF EthrInv
<1>1. /\ sendings' = [sendings EXCEPT ![c] = Ethr!Idle] /\ sendings[c].at = "signed"
      /\ UNCHANGED <<did, slips>>
    BY DEF Ethr!Send
<1>2. Ethr!Controlled /\ IsOp(sendings[c].op)
    BY <1>1 DEF SignedWhenControlled
<1>3. /\ nonce' \in 0 .. MaxNonce
      /\ RegistryTyped' /\ Attributed'
    <2>1. CASE sendings[c].nonce = nonce /\ nonce < MaxNonce
        <3>1. RegistryTyped' /\ Attributed'
            BY <1>1, <1>2, <2>1, EthrApplies DEF Ethr!Send
        <3>2. nonce' \in 0 .. MaxNonce
            BY <2>1, EthrConstants DEF Ethr!Send
        <3>3. QED BY <3>1, <3>2
    <2>2. CASE ~ (sendings[c].nonce = nonce /\ nonce < MaxNonce)
        BY <1>1, <2>2 DEF Ethr!Send, RegistryTyped, Attributed
    <2>3. QED BY <2>1, <2>2
<1>4. Ethr!Idle.at = "idle"
    BY DEF Ethr!Idle
<1>5. Ethr!Controlled'
    BY <1>1, <1>2 DEF Ethr!Controlled, Ethr!Network
<1>6. SignedWhenControlled'
    BY <1>1, <1>4, <1>5 DEF SignedWhenControlled
<1>7. QED BY <1>1, <1>3, <1>6 DEF FoundAgain, Ethr!Network

LEMMA EthrSendsSlip ==
    ASSUME Ethr!EthrAssumption, EthrInv, NEW s \in slips, Ethr!SendSlip(s)
    PROVE  EthrInv'
<1> USE DEF EthrInv
<1>1. slips' = slips \ {s} /\ UNCHANGED <<did, sendings>> /\ Ethr!Controlled /\ IsOp(s.op)
    BY DEF Ethr!SendSlip, SignedWhenControlled
<1>2. RegistryTyped' /\ Attributed'
    BY <1>1, EthrApplies DEF Ethr!SendSlip
<1>3. nonce' \in 0 .. MaxNonce
    BY EthrConstants DEF Ethr!SendSlip
<1>4. Ethr!Controlled'
    BY <1>1 DEF Ethr!Controlled, Ethr!Network
<1>5. QED BY <1>1, <1>2, <1>3, <1>4 DEF FoundAgain, SignedWhenControlled, Ethr!Network

LEMMA EthrInductive ==
    ASSUME Ethr!EthrAssumption
    PROVE  Ethr!Spec => []EthrInv
<1>1. Ethr!Init => EthrInv
    <2>1. Ethr!Idle.at = "idle"
        BY DEF Ethr!Idle
    <2>2. QED BY <2>1, EthrConstants DEF Ethr!Init, EthrInv, FoundAgain, SignedWhenControlled, RegistryTyped, Attributed
<1>2. EthrInv /\ [Ethr!Next]_(Ethr!vars) => EthrInv'
    <2>1. ASSUME EthrInv, UNCHANGED Ethr!vars PROVE EthrInv'
        BY <2>1 DEF EthrInv, Ethr!vars, FoundAgain, SignedWhenControlled, RegistryTyped, Attributed,
            Ethr!Controlled, Ethr!Network
    <2>2. QED BY <2>1, EthrCreates, EthrDirect, EthrSigns, EthrSends, EthrSendsSlip DEF Ethr!Next
<1>3. QED BY <1>1, <1>2, PTL DEF Ethr!Spec

(* The registry, the calls under way and what was signed for others stay of their
   type, for any networks and callers. *)
THEOREM EthrTypeCorrect ==
    ASSUME Ethr!EthrAssumption
    PROVE  Ethr!Spec => []Ethr!TypeOK
<1>1. EthrInv => Ethr!TypeOK
    <2>1. EthrInv => \A c \in Senders : sendings[c].at \in {"idle", "signed"}
        BY DEF EthrInv, Ethr!Idle, Signed
    <2>2. QED BY <2>1, AttributeType DEF EthrInv, RegistryTyped, SignedWhenControlled, Ethr!TypeOK
<1>2. QED BY <1>1, EthrInductive, PTL

(* Whatever the order in which transactions and signatures of a did:ethr arrive, and
   whoever sends them: only the network that it was created on has attributes of
   it, what was removed with the encoding it was added with is gone, and what was
   added is there (EthrDIDProvider, and the registry as it uses it). *)
THEOREM EthrHonoured ==
    ASSUME Ethr!EthrAssumption
    PROVE  Ethr!Spec => []EthrIsHonoured
<1>1. EthrInv => EthrIsHonoured
    BY DEF EthrIsHonoured, EthrInv, RegistryTyped, Attributed, Attribute, Ethr!Subjects, Ethr!EthrIsHonoured, Ethr!OwnNetworkOnly,
        Ethr!RemovedIsGone, Ethr!AddedIsThere
<1>2. QED BY <1>1, EthrInductive, PTL

------------------------------------------------------------------------------
(* What keys serve for (KeyManager): a key that is listed is kept, with its *)
(* type, by the KMS that the key store names.                               *)

OfWallet(k) ==
  known[k] = [type |-> "Secp256k1", kms |-> Km!Wallets, algs |-> {"eth_signMessage", "eth_signTypedData"}, private |-> k]
OfStore(k) ==
  \E s \in Systems, type \in Km!Types, p \in Privates :
    /\ known[k] = [type |-> type, kms |-> s, algs |-> Km!Algs[type], private |-> p]
    /\ inKms[s][k] = [type |-> type, private |-> p]

KeysInv ==
  /\ DOMAIN known = KeyAliases \union Accounts
  /\ inKms \in [Systems -> [KeyAliases -> {Km!NoKey} \union [type : Km!Types, private : Privates]]]
  /\ \A k \in DOMAIN known : known[k] = Km!NoKey \/ OfWallet(k) \/ (k \in KeyAliases /\ OfStore(k))

LEMMA KeysInit == ASSUME Km!Init PROVE KeysInv
BY DEF Km!Init, KeysInv

LEMMA KeysImport ==
  ASSUME Km!KeyManagerAssumption, KeysInv, NEW s \in Systems, NEW k \in KeyAliases, NEW type \in Km!Types, NEW p \in Privates,
         NEW claimed, Km!Import(s, k, type, p, claimed)
  PROVE  KeysInv'
<1>1. /\ inKms' = [inKms EXCEPT ![s][k] = [type |-> type, private |-> p]]
      /\ known' = [known EXCEPT ![k] = [type |-> type, kms |-> s, algs |-> Km!Algs[type], private |-> p]]
  BY DEF Km!Import, Km!Record, Km!Recorded
<1>2. inKms' \in [Systems -> [KeyAliases -> {Km!NoKey} \union [type : Km!Types, private : Privates]]]
  <2>1. [type |-> type, private |-> p] \in [type : Km!Types, private : Privates]
    OBVIOUS
  <2>2. QED BY <1>1, <2>1 DEF KeysInv
<1>3. DOMAIN known' = KeyAliases \union Accounts
  BY <1>1 DEF KeysInv
<1>4. k \in KeyAliases /\ OfStore(k)'
  <2>1. known'[k] = [type |-> type, kms |-> s, algs |-> Km!Algs[type], private |-> p]
    BY <1>1 DEF KeysInv
  <2>2. inKms'[s][k] = [type |-> type, private |-> p]
    BY <1>1 DEF KeysInv
  <2>3. QED BY <2>1, <2>2 DEF OfStore
<1>5. ASSUME NEW other \in KeyAliases \union Accounts, other # k
      PROVE  known'[other] = Km!NoKey \/ OfWallet(other)' \/ (other \in KeyAliases /\ OfStore(other)')
  <2>1. known'[other] = known[other] /\ \A t \in Systems : inKms'[t][other] = inKms[t][other]
    BY <1>1, <1>5 DEF KeysInv
  <2>2. OfWallet(other) => OfWallet(other)'
    BY <2>1 DEF OfWallet
  <2>3. OfStore(other) => OfStore(other)'
    BY <2>1 DEF OfStore
  <2>4. QED BY <2>1, <2>2, <2>3 DEF KeysInv
<1>6. QED BY <1>2, <1>3, <1>4, <1>5 DEF KeysInv

LEMMA KeysImportAccount ==
  ASSUME KeysInv, NEW k \in Accounts, Km!ImportAccount(k)
  PROVE  KeysInv'
<1>1. /\ inKms' = inKms
      /\ known' = [known EXCEPT ![k] = [type |-> "Secp256k1", kms |-> Km!Wallets,
                                          algs |-> {"eth_signMessage", "eth_signTypedData"}, private |-> k]]
  BY DEF Km!ImportAccount, Km!Record
<1>2. DOMAIN known' = KeyAliases \union Accounts /\ OfWallet(k)'
  BY <1>1 DEF KeysInv, OfWallet
<1>3. ASSUME NEW other \in KeyAliases \union Accounts, other # k
      PROVE  known'[other] = Km!NoKey \/ OfWallet(other)' \/ (other \in KeyAliases /\ OfStore(other)')
  BY <1>1, <1>3 DEF KeysInv, OfWallet, OfStore
<1>4. QED BY <1>1, <1>2, <1>3 DEF KeysInv

\* Deleting a key leaves what the KMSs hold of the others.
LEMMA KeysDelete ==
  ASSUME KeysInv, NEW k \in KeyAliases \union Accounts, Km!Delete(k)
  PROVE  KeysInv'
<1>1. known' = [known EXCEPT ![k] = Km!NoKey]
  BY DEF Km!Delete
<1>2. /\ inKms' \in [Systems -> [KeyAliases -> {Km!NoKey} \union [type : Km!Types, private : Privates]]]
      /\ \A t \in Systems, other \in KeyAliases : other # k => inKms'[t][other] = inKms[t][other]
  BY DEF Km!Delete, KeysInv
<1>3. DOMAIN known' = KeyAliases \union Accounts /\ known'[k] = Km!NoKey
  BY <1>1 DEF KeysInv
<1>4. ASSUME NEW other \in KeyAliases \union Accounts, other # k
      PROVE  known'[other] = Km!NoKey \/ OfWallet(other)' \/ (other \in KeyAliases /\ OfStore(other)')
  <2>1. known'[other] = known[other]
    BY <1>1, <1>4 DEF KeysInv
  <2>2. OfWallet(other) => OfWallet(other)'
    BY <2>1 DEF OfWallet
  <2>3. other \in KeyAliases /\ OfStore(other) => OfStore(other)'
    BY <1>2, <1>4, <2>1 DEF OfStore
  <2>4. QED BY <2>1, <2>2, <2>3 DEF KeysInv
<1>5. QED BY <1>2, <1>3, <1>4 DEF KeysInv

LEMMA KeysStep ==
  ASSUME Km!KeyManagerAssumption, KeysInv, [Km!Next]_(Km!vars)
  PROVE  KeysInv'
<1>1. ASSUME UNCHANGED Km!vars PROVE KeysInv'
  <2>1. known' = known /\ inKms' = inKms
    BY <1>1 DEF Km!vars
  <2>2. \A k : (OfWallet(k) => OfWallet(k)') /\ (OfStore(k) => OfStore(k)')
    BY <2>1 DEF OfWallet, OfStore
  <2>3. QED BY <2>1, <2>2 DEF KeysInv
<1>2. QED BY <1>1, KeysImport, KeysImportAccount, KeysDelete DEF Km!Next

\* What each kind of key does when it is asked to sign, and with whose key it agrees.
LEMMA StoreKeysServe ==
  ASSUME Km!KeyManagerAssumption, NEW k, NEW s \in Systems, NEW type \in Km!Types, NEW p,
         known[k] = [type |-> type, kms |-> s, algs |-> Km!Algs[type], private |-> p],
         inKms[s][k] = [type |-> type, private |-> p]
  PROVE  /\ \A alg \in Km!Algs[type] : alg \notin Km!Agreeing => Km!Sign(k, alg) = p
         /\ \A their : Km!Shared(k, their) = IF type \in Km!Agree /\ their.type \in Km!Agree
                                             THEN {<<type, p>>, <<their.type, their.private>>} ELSE {}
<1>1. s # Km!Wallets /\ inKms[s][k] # Km!NoKey /\ inKms[s][k].type = type /\ inKms[s][k].private = p
      /\ known[k].kms = s /\ known[k].type = type
  BY DEF Km!KeyManagerAssumption, Km!NoKey
<1>2. ASSUME NEW alg \in Km!Algs[type], alg \notin Km!Agreeing PROVE Km!Sign(k, alg) = p
  <2>1. alg \in Km!SignsJwt[type] \/ (type = "Secp256k1" /\ alg \in Km!SignsEthereum)
    BY <1>2 DEF Km!Algs, Km!Agreeing, Km!SignsJwt, Km!SignsEthereum, Km!Ethereum, Km!Types
  <2>2. QED BY <1>1, <2>1 DEF Km!Sign, Km!LocalSigns
<1>3. ASSUME NEW their
      PROVE  Km!Shared(k, their) = IF type \in Km!Agree /\ their.type \in Km!Agree
                                   THEN {<<type, p>>, <<their.type, their.private>>} ELSE {}
  BY <1>1 DEF Km!Shared, Km!Agree
<1>4. QED BY <1>2, <1>3

\* What a key and another put into a secret, or nothing where one of them agrees on none.
Secret(key, other) ==
  IF key.type \in Km!Agree /\ other.type \in Km!Agree
  THEN {<<key.type, key.private>>, <<other.type, other.private>>} ELSE {}

LEMMA ListedServe ==
  ASSUME Km!KeyManagerAssumption, KeysInv, NEW k \in Km!Listed
  PROVE  /\ \A alg \in known[k].algs :
              IF alg \in Km!Agreeing THEN known[k].type \in Km!Agree ELSE Km!Sign(k, alg) = known[k].private
         /\ \A their : Km!Shared(k, their) = Secret(known[k], their)
<1>1. CASE OfWallet(k)
  <2>1. /\ known[k].type = "Secp256k1" /\ known[k].kms = Km!Wallets /\ known[k].private = k
        /\ known[k].algs = {"eth_signMessage", "eth_signTypedData"}
    BY <1>1 DEF OfWallet
  <2>2. \A alg \in known[k].algs : alg \notin Km!Agreeing /\ Km!Sign(k, alg) = known[k].private
    BY <2>1 DEF Km!Agreeing, Km!Sign, Km!WalletSigns
  <2>3. \A their : Km!Shared(k, their) = {} /\ Secret(known[k], their) = {}
    BY <2>1 DEF Km!Shared, Secret, Km!Agree
  <2>4. QED BY <2>2, <2>3
<1>2. CASE OfStore(k)
  <2>1. PICK s \in Systems, type \in Km!Types, p \in Privates :
           /\ known[k] = [type |-> type, kms |-> s, algs |-> Km!Algs[type], private |-> p]
           /\ inKms[s][k] = [type |-> type, private |-> p]
    BY <1>2 DEF OfStore
  <2>2. /\ \A alg \in Km!Algs[type] : alg \notin Km!Agreeing => Km!Sign(k, alg) = p
        /\ \A their : Km!Shared(k, their) = IF type \in Km!Agree /\ their.type \in Km!Agree
                                            THEN {<<type, p>>, <<their.type, their.private>>} ELSE {}
    BY <2>1, StoreKeysServe
  <2>3. \A alg \in Km!Algs[type] : alg \in Km!Agreeing => type \in Km!Agree
    BY DEF Km!Algs, Km!Agreeing, Km!Agree, Km!Types, Km!Ethereum
  <2>4. known[k].type = type /\ known[k].private = p /\ known[k].algs = Km!Algs[type]
    BY <2>1
  <2>5. QED BY <2>2, <2>3, <2>4 DEF Secret
<1>3. QED BY <1>1, <1>2 DEF KeysInv, Km!Listed

LEMMA ListedKeysDo ==
  ASSUME Km!KeyManagerAssumption, KeysInv
  PROVE  Km!ListedKeysServe
<1>1. Km!Ephemeral.type = "X25519" /\ "X25519" \in Km!Agree /\ Km!Ephemeral.private = "ephemeral"
  BY DEF Km!Ephemeral, Km!Agree
<1>2. ASSUME NEW k \in Km!Listed, NEW alg \in known[k].algs
      PROVE  IF alg \in Km!Agreeing THEN Km!Shared(k, Km!Ephemeral) # {} ELSE Km!Sign(k, alg) = known[k].private
  BY <1>1, ListedServe DEF Secret
<1>3. ASSUME NEW k \in Km!Listed, known[k].type \in Km!Agree PROVE Km!Decrypts(k)
  <2>1. Km!Shared(k, Km!Ephemeral) = Secret(known[k], Km!Ephemeral)
    BY ListedServe
  <2>2. QED BY <1>1, <1>3, <2>1 DEF Secret, Km!Decrypts, Km!Encrypted
<1>4. ASSUME NEW k \in Km!Listed, NEW other \in Km!Listed
      PROVE  Km!Shared(k, known[other]) = Km!Shared(other, known[k])
  <2>1. Secret(known[k], known[other]) = Secret(known[other], known[k])
    BY DEF Secret
  <2>2. QED BY <2>1, ListedServe
<1>5. QED BY <1>2, <1>3, <1>4 DEF Km!ListedKeysServe

(* The key store lists keys of the known KMSs, and a KMS holds keys of the known
   types: for any KMSs and wallets. *)
THEOREM KeysTypeCorrect ==
  ASSUME Km!KeyManagerAssumption
  PROVE  Km!Spec => []Km!TypeOK
<1>1. ASSUME KeysInv PROVE Km!TypeOK
  <2>1. \A k : OfWallet(k) => known[k].kms = Km!Wallets
    BY DEF OfWallet
  <2>2. \A k : OfStore(k) => known[k].kms \in Systems
    BY DEF OfStore
  <2>3. \A s \in Systems, k \in KeyAliases : inKms[s][k] = Km!NoKey \/ inKms[s][k].type \in Km!Types
    BY <1>1 DEF KeysInv
  <2>4. QED BY <1>1, <2>1, <2>2, <2>3 DEF KeysInv, Km!TypeOK
<1>2. KeysInv /\ [Km!Next]_(Km!vars) => KeysInv'
  BY KeysStep
<1>3. QED BY <1>1, <1>2, KeysInit, PTL DEF Km!Spec

(* A listed key does what its algorithms say, opens what was encrypted to it and
   agrees on one secret with any other, under whichever names, in whichever KMSs
   and with whatever claims keys were imported before (asManagedKeyInfo, sign and
   sharedSecret of the KMSs). *)
THEOREM ListedKeysServe ==
  ASSUME Km!KeyManagerAssumption
  PROVE  Km!Spec => []Km!ListedKeysServe
<1>1. KeysInv => Km!ListedKeysServe
  BY ListedKeysDo
<1>2. KeysInv /\ [Km!Next]_(Km!vars) => KeysInv'
  BY KeysStep
<1>3. QED BY <1>1, <1>2, KeysInit, PTL DEF Km!Spec

(* A key that an agent imported can be read back until it is deleted, whatever
   fails, and does what the algorithms listed for it say, whichever KMS has it
   (PrivateKeyStore of the data stores; asManagedKeyInfo, sign and sharedSecret of
   the KMSs). *)
THEOREM ImportedKeysServe ==
  ASSUME Boxed, Km!KeyManagerAssumption
  PROVE  Box!Spec /\ Km!Spec => []KeysStayUsable
BY ImportsAreKept, ListedKeysServe, PTL DEF KeysStayUsable

==============================================================================
