----------------------------- MODULE RedisCache -----------------------------
(* cacheAside() and cacheAsideAll(): readers that serve from Redis, fall    *)
(* through to the database and fill the cache, while rows come, change and  *)
(* go beside them. Nothing invalidates or expires a key; Redis may evict.   *)
EXTENDS Naturals, Sequences, Functions

CONSTANTS
    Ids,         \* row ids; keyOf() gives each its own key
    Readers,     \* calls of cacheAside()
    AllReaders,  \* calls of cacheAsideAll()
    MaxVersion,  \* bound: versions of a row
    Mutable,     \* ids of rows that are updated and deleted, not only inserted
    MaxScan      \* bound: keys one SCAN loop returns, repetitions included

ASSUME CacheAssumption ==
    /\ Readers \cap AllReaders = {}
    /\ MaxVersion \in Nat \ {0}
    /\ Mutable \subseteq Ids
    /\ MaxScan \in Nat

Versions == 1 .. MaxVersion
Absent == 0

VARIABLES
    db,        \* the version of each row
    cache,     \* the version under each key
    ever,      \* history: the newest version each row has had
    lasting,   \* history: the rows that have existed since each call began
    pc,        \* where each call stands
    id,        \* the id a cacheAside() call asks for
    value,     \* what a cacheAside() call holds
    keys,      \* the keys a SCAN loop has returned
    steady,    \* the keys present since a SCAN loop began
    cached,    \* the items in hand, each with the place of its key among `keys`, 0 for a row
    missing    \* the items a cacheAsideAll() call still has to set

data == <<db, cache, ever>>
one == <<id, value>>
all == <<keys, steady, cached, missing>>
vars == <<data, lasting, pc, one, all>>

Items == Ids \X Versions
Rows == {i \in Ids : db[i] # Absent}
Hits == {i \in Ids : cache[i] # Absent}

TypeOK ==
    /\ db \in [Ids -> Versions \cup {Absent}] /\ cache \in [Ids -> Versions \cup {Absent}]
    /\ ever \in [Ids -> Versions \cup {Absent}]
    /\ lasting \in [Readers \cup AllReaders -> SUBSET Ids]
    /\ pc \in [Readers \cup AllReaders ->
               {"idle", "get", "scan", "mget", "fallback", "set", "done", "threw"}]
    /\ \A r \in Readers : pc[r] \notin {"scan", "mget"}
    /\ \A r \in AllReaders : pc[r] # "get"
    /\ id \in [Readers -> Ids] /\ value \in [Readers -> Versions \cup {Absent}]
    /\ keys \in [AllReaders -> Seq(Ids)] /\ steady \in [AllReaders -> SUBSET Ids]
    /\ cached \in [AllReaders -> SUBSET (Nat \X Ids \X Versions)] /\ missing \in [AllReaders -> SUBSET Items]

Init ==
    /\ db = [i \in Ids |-> Absent] /\ cache = [i \in Ids |-> Absent]
    /\ ever = [i \in Ids |-> Absent]
    /\ lasting = [r \in Readers \cup AllReaders |-> {}]
    /\ pc = [r \in Readers \cup AllReaders |-> "idle"]
    /\ id \in [Readers -> Ids]
    /\ value = [r \in Readers |-> Absent]
    /\ keys = [r \in AllReaders |-> <<>>] /\ steady = [r \in AllReaders |-> {}]
    /\ cached = [r \in AllReaders |-> {}] /\ missing = [r \in AllReaders |-> {}]

-----------------------------------------------------------------------------
(* The world beside the readers                                             *)

(* A row is inserted, updated or deleted; no version comes back.            *)
Write(i) ==
    /\ \E v \in Versions \cup {Absent} :
         /\ v = Absent => i \in Mutable /\ db[i] # Absent
         /\ v # Absent => v > ever[i]
         /\ i \in Mutable \/ ever[i] = Absent
         /\ db' = [db EXCEPT ![i] = v]
         /\ ever' = [ever EXCEPT ![i] = IF v = Absent THEN @ ELSE v]
         /\ lasting' = [r \in DOMAIN lasting |-> IF v = Absent THEN lasting[r] \ {i} ELSE lasting[r]]
    /\ UNCHANGED <<cache, pc, one, all>>

(* A key that goes is no longer one a SCAN is bound to return.              *)
Evict(i) ==
    /\ cache[i] # Absent
    /\ cache' = [cache EXCEPT ![i] = Absent]
    /\ steady' = [r \in AllReaders |-> steady[r] \ {i}]
    /\ UNCHANGED <<db, ever, lasting, pc, one, keys, cached, missing>>

-----------------------------------------------------------------------------

Goes(r, to) == pc' = [pc EXCEPT ![r] = to]

(* Mutant: cacheAsideAll() starts like cacheAside().                        *)
BeginsWithGet(r) ==
    /\ pc[r] = "idle"
    /\ Goes(r, "get")
    /\ lasting' = [lasting EXCEPT ![r] = Rows]
    /\ UNCHANGED <<data, one, all>>

(* A call begins; the first command is on its way to Redis.                 *)
Begin(r) ==
    /\ pc[r] = "idle"
    /\ Goes(r, IF r \in Readers THEN "get" ELSE "scan")
    /\ lasting' = [lasting EXCEPT ![r] = Rows]
    /\ steady' = IF r \in Readers THEN steady ELSE [steady EXCEPT ![r] = Hits]
    /\ UNCHANGED <<data, one, keys, cached, missing>>

(* Redis or the database rejects: so does the call, cached or not. The sets *)
(* that a collection read has under way may land for all that (Backfill).   *)
Throws(r) ==
    /\ pc[r] \notin {"idle", "done", "threw"}
    /\ Goes(r, "threw")
    /\ UNCHANGED <<data, lasting, one, all>>

(* cacheAside: a hit is the answer.                                         *)
Get(r) ==
    /\ pc[r] = "get"
    /\ value' = [value EXCEPT ![r] = cache[id[r]]]
    /\ Goes(r, IF cache[id[r]] # Absent THEN "done" ELSE "fallback")
    /\ UNCHANGED <<data, lasting, id, all>>

(* A null is returned without being cached.                                 *)
Fallback(r) ==
    /\ r \in Readers /\ pc[r] = "fallback"
    /\ value' = [value EXCEPT ![r] = db[id[r]]]
    /\ Goes(r, IF db[id[r]] # Absent THEN "set" ELSE "done")
    /\ UNCHANGED <<data, lasting, id, all>>

(* The set may take effect and its answer be lost.                          *)
Set(r) ==
    /\ r \in Readers /\ pc[r] = "set"
    /\ cache' = [cache EXCEPT ![id[r]] = value[r]]
    /\ Goes(r, "done") \/ Goes(r, "threw")
    /\ UNCHANGED <<db, ever, lasting, one, all>>

(* cacheAsideAll: SCAN returns keys it comes across, some more than once.   *)
ScanBatch(r) ==
    /\ pc[r] = "scan" /\ Len(keys[r]) < MaxScan
    /\ \E i \in Hits : keys' = [keys EXCEPT ![r] = Append(@, i)]
    /\ UNCHANGED <<data, lasting, pc, one, steady, cached, missing>>

(* Cursor 0: every key that was there all along has been returned.          *)
ScanEnds(r) ==
    /\ pc[r] = "scan" /\ steady[r] \subseteq Range(keys[r])
    /\ Goes(r, IF keys[r] = <<>> THEN "fallback" ELSE "mget")
    /\ UNCHANGED <<data, lasting, one, all>>

(* MGET answers key by key; the nulls of keys that have gone meanwhile are    *)
(* filtered out. In what order the items come is left out.                   *)
Found(r) == {<<k, keys[r][k], cache[keys[r][k]]>> :
               k \in {n \in DOMAIN keys[r] : cache[keys[r][n]] # Absent}}

(* Mutant: what MGET returned is taken for the whole collection.            *)
MgetSuffices(r) ==
    /\ pc[r] = "mget"
    /\ cached' = [cached EXCEPT ![r] = Found(r)]
    /\ Goes(r, "done")
    /\ UNCHANGED <<data, lasting, one, keys, steady, missing>>

Mget(r) ==
    /\ pc[r] = "mget"
    /\ cached' = [cached EXCEPT ![r] = Found(r)]
    /\ Goes(r, "fallback")
    /\ UNCHANGED <<data, lasting, one, keys, steady, missing>>

CachedIds(r) == {item[2] : item \in cached[r]}

(* The rows whose ids the cache did not have.                               *)
Uncached(r) == {<<i, db[i]>> : i \in Rows \ CachedIds(r)}

FallbackAll(r) ==
    /\ r \in AllReaders /\ pc[r] = "fallback"
    /\ missing' = [missing EXCEPT ![r] = Uncached(r)]
    /\ cached' = [cached EXCEPT ![r] = @ \cup {<<0, row[1], row[2]>> : row \in Uncached(r)}]
    /\ Goes(r, IF Uncached(r) = {} THEN "done" ELSE "set")
    /\ UNCHANGED <<data, lasting, one, keys, steady>>

(* Mutant: a result of Promise.all is set under another item's key.         *)
BackfillMixedUp(r) ==
    /\ r \in AllReaders /\ pc[r] = "set"
    /\ \E item, other \in missing[r] :
         /\ cache' = [cache EXCEPT ![item[1]] = other[2]]
         /\ missing' = [missing EXCEPT ![r] = @ \ {item}]
         /\ Goes(r, IF missing[r] = {item} THEN "done" ELSE "set")
    /\ UNCHANGED <<db, ever, lasting, one, keys, steady, cached>>

(* The sets run in parallel; the last one ends the call, unless one rejected *)
(* before: those under way, it among them, may land when the call has thrown. *)
Backfill(r) ==
    /\ r \in AllReaders /\ pc[r] \in {"set", "threw"}
    /\ \E item \in missing[r] :
         /\ cache' = [cache EXCEPT ![item[1]] = item[2]]
         /\ missing' = [missing EXCEPT ![r] = @ \ {item}]
         /\ Goes(r, IF pc[r] = "set" /\ missing[r] = {item} THEN "done" ELSE pc[r])
    /\ UNCHANGED <<db, ever, lasting, one, keys, steady, cached>>

AllStep(r) == ScanBatch(r) \/ ScanEnds(r) \/ Mget(r) \/ FallbackAll(r) \/ Backfill(r)

Next ==
    \/ \E i \in Ids : Write(i) \/ Evict(i)
    \/ \E r \in Readers \cup AllReaders : Begin(r) \/ Throws(r)
    \/ \E r \in Readers : Get(r) \/ Fallback(r) \/ Set(r)
    \/ \E r \in AllReaders : AllStep(r)

Spec == Init /\ [][Next]_vars

-----------------------------------------------------------------------------
(* Properties                                                               *)

(* A read misses no row that was there all the time it took, whatever is    *)
(* cached, evicted or written beside it, and a collection read has a row    *)
(* twice only if SCAN returned its key twice: one the hits have is not added *)
(* again, though another call may fill the cache or Redis evict it between  *)
(* MGET and the filter (RedisCache.ts:9-14, 27-39).                         *)
LastingRowsAreRead ==
    /\ \A r \in Readers : pc[r] = "done" /\ value[r] = Absent => id[r] \notin lasting[r]
    /\ \A r \in AllReaders :
         /\ pc[r] = "done" => lasting[r] \subseteq CachedIds(r)
         /\ IsInjective(keys[r]) =>
              \A item, other \in cached[r] : item[2] = other[2] => item = other

(* Rows that are only ever inserted are cached as they are: the cache is    *)
(* coherent where nothing updates or deletes (RedisCache.ts:13, 34).        *)
CoherentIfImmutable ==
    \A i \in Ids \ Mutable : cache[i] \in {Absent, db[i]}

=============================================================================
