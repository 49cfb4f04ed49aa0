# Formal model of the Simplefs storage provider

This directory holds TLA+ models of the Simplefs cache storage provider, which lives in
`src/unnamed/part_000` (package `simplefs`). The directory also holds TLC configurations that
model-check the models, and TLAPS proofs about them. `src/simplefs/caddy/simplefs.go` is
the Caddy module that provisions the provider on every configuration load and registers it.

## The system

Simplefs stores each cached response in one file under a storage directory. It keeps an
in-memory index of those files in a `ttlcache` (jellydator/ttlcache v3):

* **Index.** A `ttlcache.Cache[string, []byte]` with an optional capacity. For a variant
  written by `SetMultiLevel`, the value is the path of the variant's file. For a key written by
  `Set`, it is the raw payload. For a mapping key (`core.MappingKeyPrefix + baseKey`), it is a
  serialized mapping record. The cache evicts entries on capacity pressure, when their TTL
  lapses (through the goroutine started by `go cache.Start()`), and on `Delete`/`DeleteAll`.
* **Byte accountant.** `Init` registers two hooks:
  * `OnInsertion` stats the value's file and adds its size to `actualSize`.
  * `OnEviction` stats the file, subtracts its size and removes the file (`onEvict`).

  `Init` also seeds `actualSize` by summing the sizes of the files already in the directory.
* **Quota reclaimer.** Before every write, `recoverEnoughSpaceIfNeeded` checks
  `actualSize + size > directorySize`. When the check holds, it deletes "the oldest entry"
  through `RangeBackwards` and calls itself again.
* **Mapping engine.** `SetMultiLevel` compresses the payload, reclaims space, writes the file
  and indexes it. It then reads the mapping record of the base key, merges in the variant and
  writes the record back with the ttl `negativeNow`. `GetMultiLevel` reads the record.
* **Codec.** lz4, zstd or no compression.

How the parts interact: every index operation runs under the cache mutex together with the
hooks it fires. The batch evictions (expiry sweep, `DeleteAll`) hold that mutex across all of
their hooks. File writes and the reclaimer's read of `actualSize` take no lock, so they
interleave with everything else.

## Modules

| module | what it is |
|---|---|
| `Simplefs.tla` | The whole engine: the index, the files, the byte counter, the SetMultiLevel activations of concurrent callers, the mapping records, restarts. It also defines the properties. |
| `MC_Simplefs.tla` | Model-checking wrapper. It adds the state constraint `StateBound`, which bounds the drift of `actualSize` to `-CounterBound..CounterBound`. |
| `SimplefsProofs.tla` | TLAPS proofs: type correctness, and ownership of every file on disk. |
| `SimplefsCaddy.tla` | The Caddy module across configuration loads: providers of several loads, the storer registry, the expiry goroutines, requests in flight across a reload, and a shared directory. |
| `SimplefsCaddyProofs.tla` | TLAPS proof of the Caddy model's type correctness. |

### State (`Simplefs.tla`)

| variable | code |
|---|---|
| `idx` | keys held by the ttlcache |
| `newer` | the ttlcache LRU list, as the relation "nearer the front than" |
| `expired` | held items whose TTL has lapsed and that the sweep has not evicted yet |
| `pending` | keys that a batch holding the cache lock (sweep, `DeleteAll`, `DeleteMany`) still has to evict |
| `fsize` | the file of each variedKey in the storage directory: its size, or `NoFile` |
| `diskSize` | the total size of the files (the quantity `actualSize` is meant to track) |
| `actualSize` | `provider.actualSize` |
| `frame` | each caller's SetMultiLevel activation: pc, variedKey, baseKey, compressed size, recursion depth, the mapping it read |
| `leftover` | files found by the last `Init` scan that no entry has indexed since |
| `mval` | the variedKeys named by each mapping record |

Data is abstracted to what the properties distinguish:

* a payload is its compressed size;
* a file is its size;
* a mapping record is the set of variants it names;
* `core.MappingUpdater` is set union.

### Actions

* **`SetMultiLevel`** is split at the points where another goroutine can run:
  * `Begin`: compression (286-316).
  * `ReclaimIter`, `StackOverflow`, `ReclaimDone`: one level of `recoverEnoughSpaceIfNeeded`
    each (268-283).
  * `WriteFile` and `WriteFail`: the `os.WriteFile` call at 322, succeeding or failing.
  * `Index`: the `cache.Set` at 328.
  * `MapGet`: the `cache.Get` of the mapping key at 332.
  * `MapSet`: the merge and `cache.Set` at 340-352.
* **`Set`, `Get`, `GetMultiLevel`, `Delete`, `DeleteMany`, `Reset`** model the provider methods.
  * `DeleteMany` and `Reset` start a batch. `DeleteMany`'s batch is the unexpired held keys
    the pattern matches, since ttlcache's `Range` skips expired items.
  * `EvictPending` evicts one key of a batch, together with its hook.
* **`Expire`** lets the TTL of a held variedKey or `Set` key lapse. A mapping record is stored
  with a ttl that is never positive: it is lapsed from the start (when `LapsedOnNonPositive`)
  or never lapses, so `Expire` never applies to a mapping key.
* **`Sweep`** is the expiry goroutine taking the lock and starting a batch of the expired keys.
* **`Restart`** models the process stopping and starting again. The index and all activations
  are lost, the files stay, and `Init`'s scan sets `actualSize` to the size of the files.
  `StackOverflow` ends in a `Restart`: a Go stack overflow is fatal.
* **`CacheSet(k, dead)`** is `ttlcache`'s `Set` with its hooks. It is modelled from spec §4.4
  because the library is not part of this repository:
  * a held key is updated and moved to the front;
  * otherwise, if the cache is full, the LRU entry is evicted (firing `OnEviction`) before the
    new key is pushed to the front and `OnInsertion` fires;
  * `dead` makes the item already expired (a ttl `<= 0`).
* **Reclamation never frees space.** `ReclaimIter` evicts nothing: the code passes
  `string(item.Value())`, a file path, to `cache.Delete`, and no key is ever a path.

Constants that choose between two readings of the library:

* `InsertHookOnUpdate`: whether `OnInsertion` fires when a held key is updated. The spec says
  "after every successful set".
* `LapsedOnNonPositive`: whether a ttl `<= 0` stores an already expired item (spec §4.4) or one
  that never expires.

### The Caddy module (`SimplefsCaddy.tla`)

Each Caddy configuration load makes a fresh module value (`New`, caddy:29) and calls `Provision`
(caddy:34-47). `Provision` runs `simplefs.Factory`, which either fails (the error is returned at
caddy:39, and Caddy keeps the previous configuration) or builds the cache and starts
`go cache.Start()` (part_000:150). It then calls `core.RegisterStorage`. The module implements
only `Provisioner` and `MiddlewareHandler` (caddy:54-57), not `CleanerUpper`, so nothing ever
stops the expiry goroutine of a provider whose configuration was replaced.

| variable | code |
|---|---|
| `loads`, `conf`, `phase` | the configuration loads so far, their `<<path, size>>`, and each provider's lifecycle (`unloaded`, `failed`, `provisioned`, `initialized`) |
| `started` | whether the provider's `cache.Start` goroutine runs |
| `registry`, `active` | the storers registered by `Uuid` (`path-size`), and the load Caddy runs |
| `held`, `lapsed` | each provider's index: held keys and lapsed keys |
| `files` | the files, as `<<directory, key>>` |
| `inflight` | requests that have written their file and not yet called `cache.Set`, with the provider that served them |

The actions:

* **Startup.** The directories may already hold files of an earlier run. `Init`'s scan
  (part_000:435-444) only counts them, and this module does not follow the counter, so they
  stay unindexed.
* **`SetMultiLevel` on the served provider** is two steps, as in the code:
  * `ServeWrite`: the `os.WriteFile` at 322. A failure (with `WriteFailures`) leaves the
    directory as it was, or leaves a partial file, and returns without indexing.
  * `ServeIndex`: the `cache.Set` at 328. It runs on the provider that served the request,
    even when a reload has replaced that provider in between.

  The quota, mapping and counter steps in between are left to `Simplefs.tla`.
* **`Delete` and `Reset`** are one step each on the served provider.
* **`InitServed`** is the host calling `Init` on the storer it uses.
* **`Sweep(c)`** is the expiry goroutine of load `c`. It runs whether or not its configuration
  is still active.

`RegistryReplaces` chooses whether `RegisterStorage` replaces a storer already registered under
the same `Uuid`, since the registry is not part of this repository.

## Runs

All Simplefs runs use `Keys = {k1, k2}` (variedKeys), `BaseKeys = {b1}` (one mapping key),
`Capacity = 2` and `CounterBound = 6`.

| run | cfg | expect | checks | what it shows |
|---|---|---|---|---|
| ownership | `MC_ownership.cfg` | pass | `TypeOK`, `FilesOwned` | Two concurrent SetMultiLevel callers, with capacity and quota pressure, batches, restarts and non-expiring mapping records, never leave a file without an owner (2.1 million states). |
| expiry | `MC_expiry.cfg` | pass | `ExpiredEventuallyEvicted` | Every expired entry is eventually evicted, under the fairness below, with failing writes and `Set` enabled (0.67 million states). |
| overflow | `MC_overflow.cfg` | violation | `ReclaimBounded` | The reclaimer recurses more often than there are entries to evict. |
| counter | `MC_counter.cfg` | violation | `CounterMatchesDisk` | Write, restart, rewrite: the file is counted by the scan and again by `OnInsertion`. |
| budget | `MC_budget.cfg` | violation | `DiskWithinBudget` | Two callers both pass the unlocked quota test, then both write. |
| dangling | `MC_dangling.cfg` | violation | `IndexedHasFile` | A capacity eviction of the old entry of k1, between k1's rewrite and its `cache.Set`, deletes the new file. |
| orphan | `MC_orphan.cfg` | violation | `FilesOwned` | A failed write leaves a file no entry owns. |
| mapping | `MC_mapping.cfg` | violation | `MappingMerged` | With one caller, the record written already expired is missed by the next SetMultiLevel and blindly overwritten. |
| lostupdate | `MC_lostupdate.cfg` | violation | `MappingMerged` | With records that never expire, two concurrent SetMultiLevel calls for `b1` lose a variant. |
| caddy_reload | `MC_caddy_reload.cfg` (module `SimplefsCaddy`) | pass | `TypeOK`, `RetiredDrains` | Three loads of one directory, some failing, with failing writes and requests that finish after a reload. The state keeps its type, and a replaced provider eventually holds nothing (8 thousand states). |
| caddy_shared | `MC_caddy_shared.cfg` (module `SimplefsCaddy`) | violation | `ServedFilesStay` | A request on the first provider is in flight when a reload keeps the directory and changes the size (so the `Uuid` changes). The request indexes `k1` on the old provider. The new provider writes and holds `k1`. The old provider's goroutine then expires `k1` and removes the file the new provider holds. |

Why these bounds are enough:

* **Keys.** Two variedKeys let a rewrite of one key meet an eviction of the other, and fill a
  capacity of 2. The one `Set` key (in expiry) and the one mapping key compete for the same
  capacity.
* **Sizes and budgets.**
  * In the ownership run, `Sizes = {1}` with `Budget = 2`: three files already exceed the
    budget, so the reclaimer and `StackOverflow` are exercised.
  * In the other runs, `Sizes = {1, 2}` with `Budget = 3`: a single write can exceed the budget.
* **Depth.** `MaxDepth = 1` lets the recursion reach its limit. The overflow run uses
  `MaxDepth = 5`, one more than the four keys.
* **Counter.** `CounterBound` only cuts off the unbounded drift of `actualSize`, which the
  counter run shows already within two steps.
* **Caddy runs.** One directory and two sizes give two `Uuid`s over one directory: the smallest
  case where two live providers share files. Three loads allow a failed load between two
  successful ones. caddy_reload needs only one key, since a retired provider holding one key is
  the case `RetiredDrains` is about; with two keys the run takes 12 minutes. caddy_shared uses
  two keys.

### Fairness

`FairSpec` assumes:

* `SF_vars(Sweep)`. The sweep goroutine runs for the life of the process and waits for the cache
  mutex. Go's `sync.Mutex` switches to starvation mode and hands the lock to a waiter that has
  waited more than 1 ms, so a sweep that is enabled infinitely often gets the lock.
* `WF_vars(EvictPending(k))`. A batch holds the lock and runs its hooks to completion.

No fairness is assumed for callers, since a caller may stop calling.

`SimplefsCaddy`'s `FairSpec` assumes:

* `WF_vars(Sweep(c))` and `WF_vars(Expire(c, k))` for every load `c` and key `k`. The TTLs are
  finite, so time makes every entry lapse. Each expiry goroutine runs until the process exits,
  because no `Cleanup` stops it.
* `WF_vars(ServeIndex(c, k))`. A request that has written its file runs on to its `cache.Set`.

The Caddy run does not check deadlock: when every load fails, nothing more can happen.

## Properties

Each one is stated with a comment in its module:

* `FilesOwned` (spec §3). Every file belongs to one of:
  * a held key;
  * a SetMultiLevel between its write and its `cache.Set`;
  * the last `Init` scan.
* `ExpiredEventuallyEvicted` (spec §4.4). A lapsed entry is eventually evicted, or refreshed.
* `CounterMatchesDisk` (spec §4.3, §8). When no write or batch is half done,
  `actualSize = diskSize`.
* `DiskWithinBudget` (spec §8). The files never exceed `directory_size`.
* `IndexedHasFile` (spec §4.6). A held variedKey has its blob, unless it is being rewritten.
* `ReclaimBounded` (spec §4.5). The recursion depth never exceeds the number of keys.
* `MappingMerged` (spec §3, §8). When SetMultiLevel writes a mapping, every variant the held
  record names is in what it read.
* `ServedFilesStay` (`SimplefsCaddy`, action property, spec §4.6). A file of a key the served
  provider holds leaves its directory only in a step that also drops the key from that
  provider's index.
* `RetiredDrains` (`SimplefsCaddy`). A provider whose configuration was replaced eventually
  holds nothing.

The properties are about what `simplefs.go` and `part_000` do with the ttlcache. The library's
own guarantees (a strict LRU order, the capacity) come from the spec's description (§4.4) in
`CacheSet` and `Evict`. They are not checked here, since they hold by the form of that
description whatever the provider does.

Mutants (PROJECT.json), each broken by its run:

* `MutEvictKeepsFile` (the eviction hook without `onEvict`) breaks `FilesOwned`.
* `MutEvictKeepsExpiry` (an eviction that leaves the item queued for expiry) breaks `TypeOK`.
* `MutNoSweep` (no `go cache.Start()`) breaks the liveness property.
* `MutFactoryNoStart` (Factory without `go cache.Start()`) breaks `RetiredDrains`.
* `MutDeleteKeepsLapsed` breaks `SimplefsCaddy`'s `TypeOK`.

## What is proved

`SimplefsProofs.tla` proves, for every value of the constants allowed by the `ASSUME`s in
`Simplefs.tla`:

* **`TypeCorrect`: `Spec => []TypeOK`.** `TypeOK` is inductive by itself. The lemmas
  `EvictFacts` and `CacheSetFacts` state what an eviction and a `cache.Set` do to the index, the
  LRU relation, the expiry set and the files. `TypeStep` has one step per action.
* **`FilesOwnedHolds`: `~WriteFailures => (Spec => []FilesOwned)`.** `FilesOwned` alone is not
  inductive. A step must know that the caller it moves is not the one at `"index"` that owns a
  file, and that an eviction unlinks only the evicted key's file; both need the types of `frame`
  and `fsize`. The inductive invariant is `OwnInv == TypeOK /\ FilesOwned`:
  * `Init => OwnInv`;
  * `OwnStep` proves `OwnInv /\ [Next]_vars => OwnInv'`, action by action;
  * `CacheSetFacts` supplies the key fact: a file that exists after a `cache.Set` existed
    before, and its key stays held if it was held.

  The hypothesis `~WriteFailures` is needed: the orphan run shows the property false without it.

`SimplefsCaddyProofs.tla` proves **`CaddyTypeCorrect`: `Spec => []TypeOK`** for every number of
loads, directories, sizes and keys. `TypeOK` is not inductive alone. A `Provision` writes the
configuration of load `loads + 1`, and `Served` looks up `conf[active]`, so the proof carries
`Loaded` with it:

* a load has left `"unloaded"` exactly when it has happened;
* a load that has happened has a configuration;
* the active load is one of these.

Only model-checked:

* the liveness properties `ExpiredEventuallyEvicted` and `RetiredDrains`, since TLAPS does not
  handle fairness or `ENABLED` here;
* every violation.

## Not modelled

* The payload bytes:
  * the codec's round trip (a pure function, for unit tests);
  * `Get`'s read and decode path beyond its `cache.Get`;
  * the failure of `core.MappingUpdater`, which only fails on a record this code never writes.
* `Name`, `Uuid`, `MapKeys`, `ListKeys`, which change no state.
* The build files. `ServeHTTP`, which only forwards the request.
* In `SimplefsCaddy`, each provider's capacity, byte counter, quota and mapping records.
  `Simplefs` models these for one provider.
* `DeleteMany` is taken as one uninterrupted batch. In the code, each `Delete` in the `Range`
  visitor takes the cache lock by itself. How ttlcache's `Range` cursor behaves when the visitor
  deletes is library code outside this repository, and the spec does not describe it.
* A negative configured size, which `uint64(size)` turns into a huge capacity. `Capacity` is the
  value `WithCapacity` receives.
* Physical writes of the same key by two callers are taken as atomic replacements: last write
  wins.
* `Evict`'s hook is one step: the `os.Stat` and the `os.Remove` of `onEvict` (part_000:58-61) run
  together under the cache lock. A file can change between them only through a concurrent write
  of the same key, which the last-write-wins assumption above already covers.
* An expiry sweep evicts the batch of keys that had lapsed when it started. Keys that lapse
  during the sweep wait for the next sweep.
