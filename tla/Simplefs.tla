------------------------------ MODULE Simplefs ------------------------------
(***************************************************************************)
(* The Simplefs storage provider (src/unnamed/part_000): a ttlcache index  *)
(* of cache keys, one file per blob-backed key under the storage           *)
(* directory, the byte counter actualSize kept by the index's insertion    *)
(* and eviction callbacks, and the recursive quota reclamation run before  *)
(* every SetMultiLevel write.                                              *)
(*                                                                         *)
(* Data is abstracted to what the properties tell apart: a payload is its  *)
(* compressed size, a file is its size, the value of a blob-backed entry   *)
(* is the path of its key's file and the value of a Set entry is raw bytes *)
(* that name no file and no key.                                           *)
(*                                                                         *)
(* Concurrency follows the code's locks.  Every ttlcache operation runs    *)
(* under the cache mutex together with the callbacks it fires; the         *)
(* batch evictions (expiry sweep, DeleteAll, DeleteMany) hold it across    *)
(* their callbacks, modelled by the set pending.  File writes and the     *)
(* unlocked read of actualSize in recoverEnoughSpaceIfNeeded take no cache *)
(* lock, so they interleave with everything.                               *)
(***************************************************************************)
EXTENDS Integers, FiniteSets

CONSTANTS
    Keys,               \* variedKeys of SetMultiLevel: entries backed by a file
    SimpleKeys,         \* keys of Set: entries whose value is the raw payload
    BaseKeys,           \* mapping keys core.MappingKeyPrefix + baseKey of SetMultiLevel
    Sizes,              \* lengths of compressed payloads
    Budget,             \* directorySize; -1 means no limit
    Capacity,           \* ttlcache capacity (the "size" option); 0 means none
    Callers,            \* goroutines that may run SetMultiLevel concurrently
    MaxDepth,           \* recursion depth at which the goroutine stack is exhausted
    WriteFailures,      \* whether os.WriteFile may fail
    InsertHookOnUpdate, \* whether cache.Set of a present key fires OnInsertion
    LapsedOnNonPositive \* whether cache.Set with ttl <= 0 stores an already expired item

NoFile == -1

AllKeys == Keys \cup SimpleKeys \cup BaseKeys

ASSUME KeysAssumption ==
    /\ Keys \cap SimpleKeys = {} /\ Keys \cap BaseKeys = {} /\ SimpleKeys \cap BaseKeys = {}
    /\ Keys # {} /\ BaseKeys # {}
ASSUME SizesAssumption == Sizes \subseteq Nat \ {0} /\ Sizes # {}
ASSUME BudgetAssumption == Budget \in Int /\ Budget >= -1
ASSUME CapacityAssumption == Capacity \in Nat
ASSUME DepthAssumption == MaxDepth \in Nat
ASSUME FiniteKeysAssumption == IsFiniteSet(AllKeys)
ASSUME FlagsAssumption ==
    {WriteFailures, InsertHookOnUpdate, LapsedOnNonPositive} \subseteq BOOLEAN

VARIABLES
    idx,        \* keys held by the ttlcache
    newer,      \* recency order of the ttlcache LRU list: <<a, b>> when a is nearer the front
    expired,    \* held keys whose TTL has lapsed and that the sweep has not evicted yet
    pending,    \* keys an eviction batch holding the cache lock has still to evict
    fsize,      \* size of the file of each variedKey in the storage directory, NoFile if none
    diskSize,   \* total size of the files in the storage directory
    actualSize, \* provider.actualSize
    frame,      \* each caller's SetMultiLevel activation
    leftover,   \* files found by the last Init scan that no entry has indexed since
    mval        \* variedKeys recorded in the value of each mapping entry

vars == <<idx, newer, expired, pending, fsize, diskSize, actualSize, frame, leftover, mval>>

PCs == {"idle", "reclaim", "write", "index", "mapget", "mapset"}

\* A SetMultiLevel activation: where it is, its variedKey, baseKey and
\* compressed size, its recursion depth, and the mapping it has read.
Frame == [pc : PCs, key : Keys, base : BaseKeys, size : Sizes,
          depth : 0..MaxDepth, snap : SUBSET Keys]

IdleFrame == [pc |-> "idle", key |-> CHOOSE k \in Keys : TRUE,
              base |-> CHOOSE b \in BaseKeys : TRUE,
              size |-> CHOOSE s \in Sizes : TRUE, depth |-> 0, snap |-> {}]

TypeOK ==
    /\ idx \subseteq AllKeys
    /\ newer \subseteq AllKeys \X AllKeys
    /\ expired \subseteq idx
    /\ pending \subseteq idx
    /\ fsize \in [Keys -> Nat \cup {NoFile}]
    /\ diskSize \in Int
    /\ actualSize \in Int
    /\ frame \in [Callers -> Frame]
    /\ leftover \subseteq Keys
    /\ mval \in [BaseKeys -> SUBSET Keys]

-----------------------------------------------------------------------------
(***************************************************************************)
(* The ttlcache index.                                                     *)
(***************************************************************************)

\* lru.Back(): the least recently used held key.
Oldest == CHOOSE j \in idx : \A x \in idx \ {j} : <<x, j>> \in newer

\* A new item cannot be added without evicting lru.Back().
Full == Capacity > 0 /\ Cardinality(idx) >= Capacity

\* MoveToFront / PushFront of k among the held keys live.
Promote(rel, live, k) ==
    {q \in rel : k \notin {q[1], q[2]}} \cup {<<k, j>> : j \in live \ {k}}

\* Removal of k from the LRU list.
Forget(rel, k) == {q \in rel : k \notin {q[1], q[2]}}

\* What os.Stat reports for the value of k: the size of the file its path
\* names; a raw Set payload names no file, so Stat fails and counts nothing.
StatSize(k) == IF k \in Keys /\ fsize[k] # NoFile THEN fsize[k] ELSE 0

\* os.Remove of the value of k.
Unlink(k) == IF k \in Keys THEN [fsize EXCEPT ![k] = NoFile] ELSE fsize

\* Mutants: the OnEviction callback without its onEvict call, and an
\* eviction that leaves the item in the expiration queue.
MutEvictKeepsFile(k) ==
    /\ idx' = idx \ {k}
    /\ newer' = Forget(newer, k)
    /\ expired' = expired \ {k}
    /\ actualSize' = actualSize - StatSize(k)
    /\ UNCHANGED <<diskSize, fsize>>

MutEvictKeepsExpiry(k) ==
    /\ idx' = idx \ {k}
    /\ newer' = Forget(newer, k)
    /\ UNCHANGED expired
    /\ actualSize' = actualSize - StatSize(k)
    /\ diskSize' = diskSize - StatSize(k)
    /\ fsize' = Unlink(k)

\* Removal of k from the index with the OnEviction callback it fires:
\* actualSize drops by the file's size and onEvict removes the file.
Evict(k) ==
    /\ idx' = idx \ {k}
    /\ newer' = Forget(newer, k)
    /\ expired' = expired \ {k}
    /\ actualSize' = actualSize - StatSize(k)
    /\ diskSize' = diskSize - StatSize(k)
    /\ fsize' = Unlink(k)

\* The OnInsertion callback: actualSize grows by the size of the file.
InsertHook(k) == actualSize' = actualSize + StatSize(k)

\* The keys a cache.Set makes expired at once: k itself when its ttl is
\* not positive.
Lapse(k, dead) == IF dead THEN {k} ELSE {}

\* cache.Set(k, value, ttl), with dead when ttl <= 0: a held key is
\* updated and moved to the front; a new key first evicts lru.Back() when
\* the cache is full, then is pushed to the front and fires OnInsertion.
CacheSet(k, dead) ==
    \/ /\ k \in idx
       /\ idx' = idx
       /\ newer' = Promote(newer, idx, k)
       /\ expired' = (expired \ {k}) \cup Lapse(k, dead)
       /\ IF InsertHookOnUpdate THEN InsertHook(k) ELSE UNCHANGED actualSize
       /\ UNCHANGED <<fsize, diskSize>>
    \/ /\ k \notin idx
       /\ ~Full
       /\ idx' = idx \cup {k}
       /\ newer' = Promote(newer, idx', k)
       /\ expired' = expired \cup Lapse(k, dead)
       /\ InsertHook(k)
       /\ UNCHANGED <<fsize, diskSize>>
    \/ /\ k \notin idx
       /\ Full
       /\ LET v == Oldest IN
            /\ idx' = (idx \ {v}) \cup {k}
            /\ newer' = Promote(Forget(newer, v), idx', k)
            /\ expired' = (expired \ {v}) \cup Lapse(k, dead)
            /\ actualSize' = actualSize - StatSize(v) + StatSize(k)
            /\ diskSize' = diskSize - StatSize(v)
            /\ fsize' = Unlink(v)

-----------------------------------------------------------------------------
(***************************************************************************)
(* Start of the process: Factory and Init on an empty storage directory.   *)
(***************************************************************************)

Init ==
    /\ idx = {}
    /\ newer = {}
    /\ expired = {}
    /\ pending = {}
    /\ fsize = [k \in Keys |-> NoFile]
    /\ diskSize = 0
    /\ actualSize = 0
    /\ frame = [p \in Callers |-> IdleFrame]
    /\ leftover = {}
    /\ mval = [b \in BaseKeys |-> {}]

\* The process stops and is started again: the index and every activation
\* are lost, the files stay, and Init's directory scan seeds actualSize
\* with the size of every file it finds.
Restart ==
    /\ idx' = {}
    /\ newer' = {}
    /\ expired' = {}
    /\ pending' = {}
    /\ actualSize' = diskSize
    /\ frame' = [p \in Callers |-> IdleFrame]
    /\ leftover' = {k \in Keys : fsize[k] # NoFile}
    /\ mval' = [b \in BaseKeys |-> {}]
    /\ UNCHANGED <<fsize, diskSize>>

-----------------------------------------------------------------------------
(***************************************************************************)
(* SetMultiLevel and recoverEnoughSpaceIfNeeded, one step per stretch of   *)
(* code between two points where another goroutine can interleave.        *)
(***************************************************************************)

\* The payload is compressed to s bytes and space is reclaimed for it.
Begin(p, k, b, s) ==
    /\ frame[p].pc = "idle"
    /\ frame' = [frame EXCEPT ![p] = [pc |-> "reclaim", key |-> k, base |-> b, size |-> s,
                                       depth |-> 0, snap |-> {}]]
    /\ UNCHANGED <<idx, newer, expired, pending, fsize, diskSize, actualSize, leftover, mval>>

\* The unlocked test of recoverEnoughSpaceIfNeeded.
OverBudget(p) == Budget > -1 /\ actualSize + frame[p].size > Budget

\* One level of the recursion: RangeBackwards visits the oldest unexpired
\* item and calls cache.Delete(string(item.Value())).  That string is a
\* file path (or a raw payload), never a cache key, so nothing is deleted;
\* the function then calls itself again.
ReclaimIter(p) ==
    /\ frame[p].pc = "reclaim"
    /\ OverBudget(p)
    /\ frame[p].depth < MaxDepth
    /\ pending = {}
    /\ frame' = [frame EXCEPT ![p].depth = @ + 1]
    /\ UNCHANGED <<idx, newer, expired, pending, fsize, diskSize, actualSize, leftover, mval>>

\* The recursion has exhausted the goroutine stack: the Go runtime aborts
\* the whole process, which is then started again.
StackOverflow(p) ==
    /\ frame[p].pc = "reclaim"
    /\ OverBudget(p)
    /\ frame[p].depth = MaxDepth
    /\ Restart

\* The test fails: recoverEnoughSpaceIfNeeded returns.
ReclaimDone(p) ==
    /\ frame[p].pc = "reclaim"
    /\ ~OverBudget(p)
    /\ frame' = [frame EXCEPT ![p].pc = "write"]
    /\ UNCHANGED <<idx, newer, expired, pending, fsize, diskSize, actualSize, leftover, mval>>

\* os.WriteFile(joinedFP, compressed) succeeds.
WriteFile(p) ==
    LET k == frame[p].key IN
    /\ frame[p].pc = "write"
    /\ fsize' = [fsize EXCEPT ![k] = frame[p].size]
    /\ diskSize' = diskSize - StatSize(k) + frame[p].size
    /\ frame' = [frame EXCEPT ![p].pc = "index"]
    /\ UNCHANGED <<idx, newer, expired, pending, actualSize, leftover, mval>>

\* os.WriteFile fails: the open failed and the file is as it was, or the
\* file was truncated and only n bytes were written; SetMultiLevel logs
\* the error and returns nil without indexing the key.
WriteFail(p) ==
    LET k == frame[p].key IN
    /\ WriteFailures
    /\ frame[p].pc = "write"
    /\ \E n \in {fsize[k]} \cup 0..frame[p].size :
          /\ fsize' = [fsize EXCEPT ![k] = n]
          /\ diskSize' = diskSize - StatSize(k) + (IF n = NoFile THEN 0 ELSE n)
    /\ frame' = [frame EXCEPT ![p] = IdleFrame]
    /\ UNCHANGED <<idx, newer, expired, pending, actualSize, leftover, mval>>

\* cache.Set(variedKey, joinedFP, duration) with a positive duration.
Index(p) ==
    LET k == frame[p].key IN
    /\ frame[p].pc = "index"
    /\ pending = {}
    /\ CacheSet(k, FALSE)
    /\ frame' = [frame EXCEPT ![p].pc = "mapget"]
    /\ leftover' = leftover \ {k}
    /\ UNCHANGED <<pending, mval>>

\* cache.Get(mappingKey): a held, unexpired mapping is moved to the front
\* and its variants read; a miss starts from an empty item.
MapGet(p) ==
    LET b == frame[p].base IN
    /\ frame[p].pc = "mapget"
    /\ pending = {}
    /\ \/ /\ b \in idx \ expired
          /\ newer' = Promote(newer, idx, b)
          /\ frame' = [frame EXCEPT ![p].pc = "mapset", ![p].snap = mval[b]]
       \/ /\ b \notin idx \ expired
          /\ UNCHANGED newer
          /\ frame' = [frame EXCEPT ![p].pc = "mapset", ![p].snap = {}]
    /\ UNCHANGED <<idx, expired, pending, fsize, diskSize, actualSize, leftover, mval>>

\* core.MappingUpdater merges the variedKey into what was read, and
\* cache.Set(mappingKey, val, negativeNow) stores the result with the
\* ttl -(2 * now.Nanosecond()) seconds, which is never positive: the
\* record is stored already expired (spec section 4.4) or, where ttlcache
\* reads a ttl <= 0 as no expiry, never expires.
MapSet(p) ==
    LET b == frame[p].base IN
    /\ frame[p].pc = "mapset"
    /\ pending = {}
    /\ CacheSet(b, LapsedOnNonPositive)
    /\ mval' = [mval EXCEPT ![b] = frame[p].snap \cup {frame[p].key}]
    /\ frame' = [frame EXCEPT ![p] = IdleFrame]
    /\ UNCHANGED <<pending, leftover>>

-----------------------------------------------------------------------------
(***************************************************************************)
(* The other provider operations and the ttlcache background sweep.        *)
(***************************************************************************)

\* Set(key, value, duration).
Set(k) ==
    /\ pending = {}
    /\ CacheSet(k, FALSE)
    /\ UNCHANGED <<pending, frame, leftover, mval>>

\* Get(key): cache.Get of an unexpired key moves it to the front.
Get(k) ==
    /\ pending = {}
    /\ k \in idx \ expired
    /\ newer' = Promote(newer, idx, k)
    /\ UNCHANGED <<idx, expired, pending, fsize, diskSize, actualSize, frame, leftover, mval>>

\* GetMultiLevel(key): cache.Get of the mapping key; core.MappingElection
\* only reads what it returns.
GetMultiLevel(b) == Get(b)

\* Delete(key).
Delete(k) ==
    /\ pending = {}
    /\ k \in idx
    /\ Evict(k)
    /\ UNCHANGED <<pending, frame, leftover, mval>>

\* DeleteMany(regex): cache.Range visits the held keys that have not
\* expired, and those the pattern matches are deleted; an invalid pattern
\* matches nothing.
DeleteMany(S) ==
    /\ pending = {}
    /\ (idx \ expired) \cap S # {}
    /\ pending' = (idx \ expired) \cap S
    /\ UNCHANGED <<idx, newer, expired, fsize, diskSize, actualSize, frame, leftover, mval>>

\* Reset(): cache.DeleteAll evicts every held key.
Reset ==
    /\ pending = {}
    /\ idx # {}
    /\ pending' = idx
    /\ UNCHANGED <<idx, newer, expired, fsize, diskSize, actualSize, frame, leftover, mval>>

\* The TTL of a held key lapses.  A mapping record is always stored with a
\* ttl that is not positive: it is lapsed from the start or never lapses.
Expire(k) ==
    /\ k \in idx \ (expired \cup BaseKeys)
    /\ expired' = expired \cup {k}
    /\ UNCHANGED <<idx, newer, pending, fsize, diskSize, actualSize, frame, leftover, mval>>

\* Mutant: Factory never starts the goroutine (no go cache.Start()).
MutNoSweep ==
    /\ FALSE
    /\ UNCHANGED vars

\* The goroutine started by cache.Start() wakes and evicts the expired keys.
Sweep ==
    /\ pending = {}
    /\ expired # {}
    /\ pending' = expired
    /\ UNCHANGED <<idx, newer, expired, fsize, diskSize, actualSize, frame, leftover, mval>>

\* One eviction of a batch, with its OnEviction callback.
EvictPending(k) ==
    /\ k \in pending
    /\ Evict(k)
    /\ pending' = pending \ {k}
    /\ UNCHANGED <<frame, leftover, mval>>

-----------------------------------------------------------------------------

Next ==
    \/ \E p \in Callers :
          \/ \E k \in Keys, b \in BaseKeys, s \in Sizes : Begin(p, k, b, s)
          \/ ReclaimIter(p)
          \/ StackOverflow(p)
          \/ ReclaimDone(p)
          \/ WriteFile(p)
          \/ WriteFail(p)
          \/ Index(p)
          \/ MapGet(p)
          \/ MapSet(p)
    \/ \E k \in SimpleKeys : Set(k)
    \/ \E k \in AllKeys : Get(k) \/ Delete(k) \/ Expire(k) \/ EvictPending(k)
    \/ \E b \in BaseKeys : GetMultiLevel(b)
    \/ \E S \in SUBSET AllKeys : DeleteMany(S)
    \/ Reset
    \/ Sweep
    \/ Restart

Spec == Init /\ [][Next]_vars

\* The goroutine of cache.Start() runs for the life of the process and
\* waits on the cache mutex, which Go hands to a waiter starved for more
\* than a millisecond: the sweep is strongly fair, and a batch that holds
\* the lock finishes its evictions.
FairSpec ==
    /\ Spec
    /\ SF_vars(Sweep)
    /\ \A k \in AllKeys : WF_vars(EvictPending(k))

-----------------------------------------------------------------------------
(***************************************************************************)
(* Properties.                                                             *)
(***************************************************************************)

\* Files are owned by the index (spec section 3): every file in the storage
\* directory belongs to a held key, to a SetMultiLevel that has written it
\* and not yet called cache.Set, or was found by the last Init scan.  It
\* fails if an eviction path (expiry sweep, Delete, DeleteMany, Reset,
\* capacity eviction in cache.Set) forgets to remove the file.
FilesOwned ==
    \A k \in Keys :
        fsize[k] # NoFile =>
            \/ k \in idx
            \/ k \in leftover
            \/ \E p \in Callers : frame[p].pc = "index" /\ frame[p].key = k

\* The TTL is enforced (spec section 4.4): an entry whose TTL has lapsed is
\* eventually evicted by the sweep, with its file, unless a new cache.Set
\* refreshes it first.  It fails if a batch of evictions can stall
\* while holding the cache lock, or the sweep can miss expired entries.
ExpiredEventuallyEvicted ==
    \A k \in AllKeys : k \in expired ~> k \notin expired

\* No SetMultiLevel is between its os.WriteFile and its cache.Set.
Quiescent ==
    /\ pending = {}
    /\ \A p \in Callers : frame[p].pc # "index"

\* Byte accounting is exact (spec sections 4.3 and 8): whenever no write
\* or eviction is half done, actualSize is the total size of the files
\* in the storage directory, so every file is counted once and every
\* removal takes back exactly what its insertion added.
CounterMatchesDisk == Quiescent => actualSize = diskSize

\* The quota holds (spec section 8): with a finite directory_size, the
\* files in the storage directory never take more than directory_size
\* bytes, as recoverEnoughSpaceIfNeeded runs before every write.
DiskWithinBudget == Budget > -1 => diskSize <= Budget

\* A held variedKey references a blob on disk (spec section 4.6: the
\* index is updated strictly after a successful write) unless a
\* SetMultiLevel for that key is rewriting it.
IndexedHasFile ==
    \A k \in idx \cap Keys :
        \/ fsize[k] # NoFile
        \/ \E p \in Callers : frame[p].pc \in {"write", "index"} /\ frame[p].key = k

\* The mapping record is merged, never blindly overwritten (spec sections
\* 3 and 8): when a SetMultiLevel stores its mapping, every variant the
\* held record names is in what it read, so a second SetMultiLevel for the
\* same baseKey keeps the first one's variant.
MappingMerged ==
    \A p \in Callers :
        frame[p].pc = "mapset" /\ frame[p].base \in idx =>
            mval[frame[p].base] \subseteq frame[p].snap

\* recoverEnoughSpaceIfNeeded terminates (spec section 4.5): every level
\* of the recursion evicts the oldest entry, so it never recurses more
\* often than there are keys to evict.
ReclaimBounded ==
    \A p \in Callers : frame[p].depth <= Cardinality(AllKeys)

=============================================================================
