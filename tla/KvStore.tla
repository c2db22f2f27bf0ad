------------------------------ MODULE KvStore ------------------------------
(***************************************************************************)
(* The key-value store (kv-store): a KeyValueStore over a Keyv, which puts *)
(* the expiry inside the stored value, over the tiered adapter, which      *)
(* keeps every entry in a local and in a remote store.  The local store is *)
(* the in-memory map; an operation on the remote one (the TypeORM adapter) *)
(* is under way until it lands, in any order with the others, or fails.    *)
(***************************************************************************)
EXTENDS Naturals, FiniteSets

CONSTANTS
  Keys,         \* the keys, numbers in the order the database lists them
  Callers,      \* the tasks that use the store
  Nobody,       \* the caller of an operation that nobody awaits
  LocalOnly,    \* option: deletions leave the remote store alone
  Exclusive,    \* whether callers take turns on a key
  Ttls,         \* times to live of set; 0 for none
  PageSize,     \* entries in a page of the iterator
  MaxSets,      \* bound: calls of set
  MaxTime,      \* bound: the clock
  MaxFaults     \* bound: remote operations that fail

KvAssumption ==
  /\ Keys \subseteq Nat /\ Ttls \subseteq Nat
  /\ Nobody \notin Callers
  /\ LocalOnly \in BOOLEAN /\ Exclusive \in BOOLEAN
  /\ PageSize \in Nat \ {0}
  /\ MaxSets \in Nat /\ MaxTime \in Nat /\ MaxFaults \in Nat

VARIABLES
  local, remote,  \* the two tiers
  flight,         \* operations of the remote store that are under way
  calls,          \* what each caller awaits
  now,
  sets, faults,   \* history: calls of set, operations that failed
  may             \* history: what each key may hold, by what was acknowledged

vars == <<local, remote, flight, calls, now, sets, faults, may>>

\* `id` is the number of the call that set the value; 0 is no entry.
Entry == [id : 1 .. MaxSets, expires : Nat]
NoEntry == [id |-> 0, expires |-> 0]
Expired(e) == e.expires # 0 /\ now > e.expires

Operation == [do : {"set", "delete", "read", "reply"}, keys : SUBSET Keys, entry : Entry \union {NoEntry},
              by : Callers \union {Nobody}]
Idle == [op |-> "idle", keys |-> {}, offset |-> 0, due |-> {}, seen |-> {}]

TypeOK ==
  /\ local \in [Keys -> Entry \union {NoEntry}]
  /\ remote \in [Keys -> Entry \union {NoEntry}]
  /\ flight \subseteq Operation
  /\ \A c \in Callers :
       /\ calls[c].op \in {"idle", "set", "read", "get", "getMany", "delete", "iterate", "done"}
       /\ calls[c].keys \subseteq Keys
  /\ now \in 0 .. MaxTime /\ sets \in 0 .. MaxSets /\ faults \in 0 .. MaxFaults
  /\ may \in [Keys -> SUBSET (Entry \union {NoEntry})]

Init ==
  /\ local = [k \in Keys |-> NoEntry]
  /\ remote = [k \in Keys |-> NoEntry]
  /\ flight = {}
  /\ calls = [c \in Callers |-> Idle]
  /\ now = 0 /\ sets = 0 /\ faults = 0
  /\ may = [k \in Keys |-> {NoEntry}]

Operate(do, keys, entry, by) == [do |-> do, keys |-> keys, entry |-> entry, by |-> by]
On(op, keys) == [Idle EXCEPT !.op = op, !.keys = keys]

\* A caller that awaits nothing starts a call on some keys.
Free(c, keys) ==
  /\ calls[c] = Idle
  /\ Exclusive => \A d \in Callers : calls[d].op = "iterate" \/ calls[d].keys \intersect keys = {}

------------------------------------------------------------------------------
(* Set and delete go to both tiers at once                                 *)

Expires(ttl) == IF ttl = 0 THEN 0 ELSE now + ttl

\* The tiered set without its local half.
SetRemoteOnly(c, k, ttl) ==
  LET e == [id |-> sets + 1, expires |-> Expires(ttl)] IN
  /\ Free(c, {k})
  /\ sets < MaxSets /\ sets' = sets + 1
  /\ flight' = flight \union {Operate("set", {k}, e, c)}
  /\ calls' = [calls EXCEPT ![c] = On("set", {k})]
  /\ may' = [may EXCEPT ![k] = @ \union {e}]
  /\ UNCHANGED <<local, remote, now, faults>>

Set(c, k, ttl) ==
  LET e == [id |-> sets + 1, expires |-> Expires(ttl)] IN
  /\ Free(c, {k})
  /\ sets < MaxSets /\ sets' = sets + 1
  /\ local' = [local EXCEPT ![k] = e]
  /\ flight' = flight \union {Operate("set", {k}, e, c)}
  /\ calls' = [calls EXCEPT ![c] = On("set", {k})]
  /\ may' = [may EXCEPT ![k] = @ \union {e}]
  /\ UNCHANGED <<remote, now, faults>>

Without(tier, keys) == [k \in Keys |-> IF k \in keys THEN NoEntry ELSE tier[k]]

\* delete and clear
Delete(c, keys) ==
  /\ Free(c, keys)
  /\ local' = Without(local, keys)
  /\ IF LocalOnly
     THEN UNCHANGED <<flight, calls>>
     ELSE /\ flight' = flight \union {Operate("delete", keys, NoEntry, c)}
          /\ calls' = [calls EXCEPT ![c] = On("delete", keys)]
  /\ may' = [k \in Keys |-> may[k] \union (IF k \in keys THEN {NoEntry} ELSE {})]
  /\ UNCHANGED <<remote, now, sets, faults>>

------------------------------------------------------------------------------
(* Get reads through the local tier, and deletes what has expired          *)

\* The entry e was read: it is removed when it has expired, and a read of one
\* key awaits that while a read of many does not.
Finish(e, k, c, done) ==
  LET by == IF calls[c].op = "getMany" THEN Nobody ELSE c IN
  IF Expired(e)
  THEN /\ local' = [local EXCEPT ![k] = NoEntry]
       /\ flight' = (flight \ done) \union (IF LocalOnly THEN {} ELSE {Operate("delete", {k}, NoEntry, by)})
       /\ calls' = [calls EXCEPT ![c] = IF LocalOnly \/ by = Nobody THEN Idle ELSE On("delete", {k})]
       /\ may' = [may EXCEPT ![k] = @ \union {NoEntry}]
  ELSE /\ local' = [local EXCEPT ![k] = e]
       /\ flight' = flight \ done
       /\ calls' = [calls EXCEPT ![c] = Idle]
       /\ UNCHANGED may

Get(c, k, op) ==
  /\ Free(c, {k})
  /\ calls' = [calls EXCEPT ![c] = On(op, {k})]
  /\ UNCHANGED <<local, remote, flight, now, sets, faults, may>>

\* A read of one key, one of many, and the read that ends a set.
ReadLocal(c, k) ==
  /\ calls[c].op \in {"get", "getMany", "read"} /\ calls[c].keys = {k}
  /\ ~\E o \in flight : o.by = c
  /\ IF local[k] # NoEntry
     THEN Finish(local[k], k, c, {})
     ELSE /\ flight' = flight \union {Operate("read", {k}, NoEntry, c)}
          /\ UNCHANGED <<local, calls, may>>
  /\ UNCHANGED <<remote, now, sets, faults>>

------------------------------------------------------------------------------
(* Operations of the remote store, and the iterator over its pages         *)

LandRead(o) ==
  /\ o.do = "read"
  /\ \E k \in o.keys :
       flight' = (flight \ {o}) \union {[o EXCEPT !.do = "reply", !.entry = remote[k]]}
  /\ UNCHANGED <<local, remote, calls, now, sets, faults, may>>

\* What was read is copied to the local tier.
CopyLocal(o) ==
  /\ o.do = "reply"
  /\ IF o.entry = NoEntry
     THEN /\ flight' = flight \ {o}
          /\ calls' = [calls EXCEPT ![o.by] = Idle]
          /\ UNCHANGED <<local, may>>
     ELSE \E k \in o.keys : Finish(o.entry, k, o.by, {o})
  /\ UNCHANGED <<remote, now, sets, faults>>

\* A deletion that nobody awaits may still take away what is set by now.
BeingPurged(k) == \E o \in flight : o.do = "delete" /\ o.by = Nobody /\ k \in o.keys

LandSet(o) ==
  /\ o.do = "set"
  /\ remote' = [k \in Keys |-> IF k \in o.keys THEN o.entry ELSE remote[k]]
  /\ flight' = flight \ {o}
  /\ calls' = [calls EXCEPT ![o.by] = On("read", o.keys)]
  /\ may' = [k \in Keys |-> IF k \notin o.keys THEN may[k]
                            ELSE {o.entry} \union (IF BeingPurged(k) THEN {NoEntry} ELSE {})]
  /\ UNCHANGED <<local, now, sets, faults>>

\* A deletion leaves nothing due to the iterations under way.
LandDelete(o) ==
  /\ o.do = "delete"
  /\ remote' = Without(remote, o.keys)
  /\ flight' = flight \ {o}
  /\ calls' = [c \in Callers |-> IF c = o.by THEN Idle ELSE [calls[c] EXCEPT !.due = {}]]
  /\ may' = IF o.by = Nobody THEN may ELSE [k \in Keys |-> IF k \in o.keys THEN {NoEntry} ELSE may[k]]
  /\ UNCHANGED <<local, now, sets, faults>>

\* The caller gets the error.
Fails(o) ==
  /\ faults < MaxFaults /\ faults' = faults + 1
  /\ o.do # "reply"
  /\ flight' = flight \ {o}
  /\ calls' = IF o.by = Nobody THEN calls ELSE [calls EXCEPT ![o.by] = Idle]
  /\ UNCHANGED <<local, remote, now, sets, may>>

Stored == {k \in Keys : remote[k] # NoEntry}

Iterate(c) ==
  /\ calls[c] = Idle
  /\ calls' = [calls EXCEPT ![c] = [Idle EXCEPT !.op = "iterate", !.due = Stored]]
  /\ UNCHANGED <<local, remote, flight, now, sets, faults, may>>

\* The keys of the page at an offset.
Page(offset) == {k \in Stored : Cardinality({j \in Stored : j < k}) \in offset .. offset + PageSize - 1}

\* What has expired is deleted under its prefixed key, which delete prefixes
\* once more: that names no entry.
Purged(keys) == Without(remote, keys)
AfterPage(keys) == remote

NextPage(c) ==
  LET page == Page(calls[c].offset) IN
  /\ calls[c].op = "iterate"
  /\ remote' = AfterPage({k \in page : Expired(remote[k])})
  /\ calls' = [calls EXCEPT ![c].seen = @ \union page, ![c].offset = @ + PageSize,
                            ![c].op = IF Cardinality(page) = PageSize THEN "iterate" ELSE "done"]
  /\ UNCHANGED <<local, flight, now, sets, faults, may>>

Iterated(c) ==
  /\ calls[c].op = "done"
  /\ calls' = [calls EXCEPT ![c] = Idle]
  /\ UNCHANGED <<local, remote, flight, now, sets, faults, may>>

------------------------------------------------------------------------------

Tick ==
  /\ now < MaxTime /\ now' = now + 1
  /\ UNCHANGED <<local, remote, flight, calls, sets, faults, may>>

Next ==
  \/ \E c \in Callers, k \in Keys, ttl \in Ttls : Set(c, k, ttl)
  \/ \E c \in Callers, k \in Keys : Delete(c, {k}) \/ ReadLocal(c, k)
  \/ \E c \in Callers, k \in Keys, op \in {"get", "getMany"} : Get(c, k, op)
  \/ \E c \in Callers : Delete(c, Keys) \/ Iterate(c) \/ NextPage(c) \/ Iterated(c)
  \/ \E o \in flight : LandRead(o) \/ CopyLocal(o) \/ LandSet(o) \/ LandDelete(o) \/ Fails(o)
  \/ Tick

Spec == Init /\ [][Next]_vars

------------------------------------------------------------------------------
(* Properties                                                              *)

Quiet(k) == /\ \A c \in Callers : k \notin calls[c].keys
            /\ \A o \in flight : k \notin o.keys

(***************************************************************************)
(* When callers take turns on a key, each tier holds what an acknowledged  *)
(* call left there: the last value set, nothing after a deletion, and one  *)
(* of both only where a call has failed or a purge that nobody awaits was  *)
(* on its way; what has expired may be gone.  The local tier never keeps   *)
(* what the remote one has lost.                                           *)
(***************************************************************************)
HoldsWhatWasStored ==
  Exclusive => \A k \in Keys : Quiet(k) =>
    /\ \/ remote[k] \in may[k]
       \/ remote[k] = NoEntry /\ \E e \in may[k] : Expired(e)
    /\ local[k] \in may[k] \union {NoEntry}

(***************************************************************************)
(* An iteration visits every entry that was there when it began, unless a  *)
(* caller deletes meanwhile: what the iterator itself purges does not make *)
(* it skip an entry of the next page.                                      *)
(***************************************************************************)
IterationIsComplete == \A c \in Callers : calls[c].op = "done" => calls[c].due \subseteq calls[c].seen

=============================================================================
