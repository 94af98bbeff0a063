--------------------------- MODULE StateBackend ---------------------------
(***************************************************************************)
(* The RocksDB backend of the state database: the objects column, its      *)
(* metadata, the bounded cache of recently used objects in front of it     *)
(* (least recently used goes first; a cached NoValue records that a key is *)
(* absent) and the write batch a commit collects.  A backend is a record,  *)
(* its methods are operators on it; a read returns the backend as well,    *)
(* because it moves the key to the front of the cache.                     *)
(*                                                                         *)
(* Keys are naturals in the order of their encoding, values are tuples.    *)
(***************************************************************************)
EXTENDS Integers, Sequences

LOCAL INSTANCE SequencesExt
LOCAL INSTANCE FiniteSetsExt

CONSTANTS
    Keys,        \* the encoded object keys, a range 1..n
    Size(_),     \* the length of a value in bytes
    CacheSize    \* _cache_max_size

\* The result of looking up a key that has no object.
NoValue == <<>>

\* A map without objects.
EmptyMap == [k \in Keys |-> NoValue]

\* The keys that have an object in a map.
Stored(map) == { k \in Keys : map[k] # NoValue }

\* The size of every key.
KeySize == 1

\* The position of an iterator past the last object.
End == Max(Keys) + 1

\* The first stored key at or after k.
LowerBound(map, k) ==
    LET after == { j \in Stored(map) : j >= k }
    IN  IF after = {} THEN End ELSE Min(after)

\* The last stored key before k (End stands after every key); 0 when none is.
Before(map, k) ==
    LET before == { j \in Stored(map) : j < k }
    IN  IF before = {} THEN 0 ELSE Max(before)

---------------------------------------------------------------------------
(* object_cache: a sequence of entries, the most recently used first *)

EntrySize(v) == Max({KeySize + Size(v), 2})

Cached(cache, k) == \E i \in DOMAIN cache : cache[i].key = k

CacheValue(cache, k) == cache[CHOOSE i \in DOMAIN cache : cache[i].key = k].val

CacheRemove(cache, k) == SelectSeq(cache, LAMBDA e : e.key # k)

\* get: a hit moves the entry to the front.
CacheTouch(cache, k) ==
    IF Cached(cache, k)
    THEN <<[key |-> k, val |-> CacheValue(cache, k)]>> \o CacheRemove(cache, k)
    ELSE cache

\* The bytes the first i entries take.
Weight(cache, i) ==
    LET weight[j \in 0 .. i] == IF j = 0 THEN 0 ELSE weight[j - 1] + EntrySize(cache[j].val)
    IN  weight[i]

\* A new first entry, before those of the rest that still fit.
CacheFit(rest, k, v) ==
    LET kept == { i \in 0 .. Len(rest) : Weight(rest, i) + EntrySize(v) <= CacheSize }
    IN  <<[key |-> k, val |-> v]>> \o SubSeq(rest, 1, Max(kept \cup {0}))

\* put: the entry of k is replaced, entries leave from the back until the new
\* one fits, and the new one goes to the front.
CachePut(cache, k, v) == CacheFit(CacheRemove(cache, k), k, v)

---------------------------------------------------------------------------
(* rocksdb_backend *)

NoBatch == [open |-> FALSE, writes |-> <<>>]

\* A backend just opened on what the database holds: load_metadata reads the
\* size and the revision, the cache is empty.
Open(disk) ==
    [disk |-> disk, size |-> disk.size, revision |-> disk.revision,
     cache |-> <<>>, batch |-> NoBatch]

\* The backend after a lookup of k: the entry is the most recently used.
Looked(db, k) ==
    IF Cached(db.cache, k) THEN [db EXCEPT !.cache = CacheTouch(@, k)]
    ELSE [db EXCEPT !.cache = CachePut(@, k, db.disk.objects[k])]

\* get: the cache answers if it can, absent keys included; otherwise the
\* database does, and the answer is cached.  A pending batch is not consulted.
Get(db, k) ==
    [db  |-> Looked(db, k),
     val |-> IF Cached(db.cache, k) THEN CacheValue(db.cache, k) ELSE db.disk.objects[k]]

\* The write goes to the open batch, _size follows what get said before it, and
\* the cache takes the new value at once.
Written(got, k, v) ==
    LET existed == got.val # NoValue
        exists  == v # NoValue
    IN  [got.db EXCEPT !.batch.writes = Append(@, [key |-> k, val |-> v]),
                       !.size  = @ + (CASE exists /\ ~existed -> 1
                                        [] existed /\ ~exists -> -1
                                        [] OTHER -> 0),
                       !.cache = CachePut(@, k, v)]

\* put and erase (v = NoValue).
Write(db, k, v) == Written(Get(db, k), k, v)

\* start_write_batch; no batch is open when it is called.
StartWriteBatch(db) == [db EXCEPT !.batch = [open |-> TRUE, writes |-> <<>>]]

\* store_metadata inside a batch, then end_write_batch: one synced write makes
\* objects, size and revision durable together, and closes the batch.
EndWriteBatch(db, revision) ==
    LET objects == FoldLeft(LAMBDA m, w : [m EXCEPT ![w.key] = w.val],
                            db.disk.objects, db.batch.writes)
    IN  [db EXCEPT !.disk = [objects |-> objects, size |-> db.size, revision |-> revision],
                   !.revision = revision,
                   !.batch = NoBatch]

\* update_cache_value of an iterator standing on k: the value comes from the
\* cache, which must not say that the key is absent, or else goes into it.
IteratorAt(db, k) == IF k \in Keys THEN Looked(db, k) ELSE db

===========================================================================
