# Verification of edge-cdn-store

TLA+ modules, TLC configurations and TLAPS proofs for the caching proxy in this
repository. Paths and line numbers are those of the repository (`src/...`,
`docs/README.md`). `PROJECT.json` lists, machine-readably, which definition models
which lines, which run checks what, the mutant that each property catches, the
hazards and the findings.

## 1. The system

A proxy built on the Pingora framework. It answers a request out of its cache or
fetches the response upstream and stores it. The framework drives everything: it
calls the proxy's callbacks for each request and the storage's methods from within
its caching state machine. Requests run concurrently on a multi-threaded tokio
runtime; a task may be suspended, or dropped, at every `await`.

| Component | State | Operations | Talks to |
|---|---|---|---|
| Proxy callbacks (`src/proxy.rs`, `src/utils.rs`) | per request: cache enabled, key, peer, response | `request_cache_filter`, `cache_key_callback`, `upstream_peer`, `upstream_response_filter`, `response_cache_filter`, `response_filter` | calls the storage through the framework |
| Tiered storage (`src/tiered/mod.rs`) | primary, optional secondary, write policy | `lookup`, `get_miss_handler`, `purge`, `update_meta` | calls one or two tiers, one after the other |
| Disk cache (`src/disk_cache/mod.rs`, `handle_miss.rs`) | a directory per key with `body`, `meta`, `hdr` and temporary files; counters | the same four, and `write_body`, `finish`, `drop` of the miss handler | the file system, tokio's blocking pool |
| Hit handler (`handle_hit.rs`) | open file, range, cursor, pending seek | `read_body`, `seek`, `finish`, `drop` | reads the inode `lookup` opened |
| Persisted state (`cache_statistics.rs`, `DiskCache::new`) | `_cache_state.json`, the gauge `size_bytes` | save on shutdown, restore on start | shutdown watch of the server |
| Metrics (`src/metrics.rs`) | eight counters and gauges | increments | all of the above |
| Eviction manager (framework's, configured in `disk_cache/mod.rs`) | LRU list of this process, with weights | admit, access, evict | is told by finish and hits, calls `purge` |
| Inspector (`src/inspector/`, started in `src/main.rs`) | HTTP server on a thread of its own, the handle to stop it | five pages, `/cache`, start, shutdown | reads the directories the others write; shutdown watch |
| Configuration, start-up (`src/main.rs`, `statics.rs`) | - | reads the environment, starts the services | all of the above |
| Logging (`src/logger.rs`) | - | - | - |
| `src/tiered/fan_out.rs` | - | not declared as a module, not compiled | - |

### What is hard here, and what makes each component correct

* **Disk cache.** A storage call is a sequence of file-system operations with awaits between
  them. Nothing locks a key: the proxy passes no cache lock (`src/proxy.rs:113`), evictions
  run beside lookups, and an entry is three files that no operation replaces at once.
  Correct means: files that belong together stay together (`NoMixture`), a hit pairs a body
  with its own metadata (`HitMatches`), a commit is visible (`CommitVisible`), a purge is
  complete (`PurgeComplete`), a failed handler leaves no temporary file unless it was
  dropped while the file was being created (`TmpOwned`), and the size is what is on the disk
  (`SizeExplained`); in one formula, the three files behave as one entry that is replaced
  and read at once (`ImplementsEntry`).
* **A body.** `write_body` leaves chunks to tokio's blocking pool, a temporary file is named
  after the clock, and the copy fallback writes into the inode of the old body. Correct
  means: a body holds its own chunks (`OneBody`), once each, and in order if the handler
  never had two under way (`InOrder`), all of them in the end (`LateBytesLand`), and a
  handler finds its file (`FindsItsFile`).
* **Hit handler.** Seeks are deferred to the next read, and the file may grow or be
  overwritten while it is read. Correct means: the client receives the range it asked
  for and nothing else (`InRange`, `WholeRange`), `None` is final (`NoneIsFinal`), and
  reading ends (`ReadingEnds`).
* **Persisted state.** Two wrapping casts, a file truncated before it is written, a write
  whose error is dropped, a snapshot taken while calls still run, a clock that may be set
  back. Correct means: the gauge is restored exactly (`RestoresGauge`), an orderly shutdown
  saves it unless the write fails (`StateSaved`), and it and the warning derived from it are
  wrong for known reasons only, and in a known direction for some of them (`SizeExplained`,
  `WarnsRightly`).
* **Tiered storage.** Two tiers are asked one after the other, and the disk tier answers
  `None` where it cannot read. Correct means: what is invalidated stays gone (`StaysGone`), a
  lookup overlooks nothing because of the order of its questions (`NoneIsNone`; what a tier
  fails to answer is excepted), and refreshed metadata go to the object they belong to, or
  the reason is known (`MixedExplained`).
* **Eviction.** The manager hears of a body after it is on the disk, and forgets one
  before it is removed; it is empty after a restart. Correct means: no body escapes it
  (`Tracked`), so that the capacity bounds the disk (`Bounded`).
* **Inspector.** `/cache` walks directories that change under it, on a thread that must
  be stopped from another one, once. Correct means: a 404 has one of two reasons, that the
  path was not there at some moment or that an operation failed, which the code does not
  tell apart (`NotFoundMeansAbsent`), a listing is complete and in its order
  (`ListingOrder`), and a shutdown ends the thread (`StopEnds`).
* **Proxy.** Two callbacks derive scheme, host and port from the same headers in two
  ways, on two listeners, and the request that stored an object is not the one that
  is served it; an entry that has gone stale is kept and revalidated. Correct means: what is
  served out of the cache comes from the server the request would have been sent to
  (`HitFromOwnOrigin`), and the label says whether an upstream server was asked
  (`LabelRight`) -- not where the body came from, as the documentation has it.

## 2. The modules

| Module | Models | Extended by |
|---|---|---|
| `DiskCache` | storage calls on the disk as interleaved file-system operations | `DiskCacheInv`, `DiskCacheClaims`, `DiskCacheProofs`, `MCDiskCache` |
| `CacheEntry` | abstract: what an entry of the disk cache promises, without its files | instantiated by `DiskCacheEntry` |
| `DiskCacheEntry` | the refinement mapping from `DiskCache` to `CacheEntry` | `DiskCacheProofs`, `MCDiskCacheEntry` |
| `BodyStream` | the chunks of one body, inodes and temporary names | `BodyStreamInv`, `BodyStreamProofs`, `MCBodyStream` |
| `HitHandler` | streaming of a cached body | `HitHandlerInv`, `HitHandlerProofs`, `MCHitHandler` |
| `CacheState` | the size gauge across shutdowns, kills and restarts | `CacheStateProofs`, `MCCacheState` |
| `Eviction` | the LRU manager's bookkeeping against the disk | `EvictionProofs`, `MCEviction` |
| `TieredStorage` | storage calls over the tiers | `TieredStorageInv`, `TieredStorageProofs`, `MCTieredStorage` |
| `EdgeCdnProxy` | the callbacks of a request | `EdgeCdnProxyInv`, `EdgeCdnProxyClaims`, `EdgeCdnProxyProofs`, `MCEdgeCdnProxy` |
| `Inspector` | the inspector's requests, start and shutdown | `InspectorProofs`, `MCInspector` |

`XInv` holds the inductive invariant of `X` (where there is none, `X` itself does, at its
end), `XProofs` its proofs, `MCX` what TLC needs
(symmetry, the values of constants), and `XClaims` what docs and comments say and the
code does not do. A
definition commented `a mistake` is a plausible wrong version of the definition it is
named after; no action uses it. Replacing the right one by it must break the property
named in `PROJECT.json` under "mutants".

### DiskCache

An action is one file-system operation and the synchronous code that follows it up to
the next one; `pc[c]` is the operation call `c` performs next.

* `lookup`: `LookupStart`, then `LookupRead` for `meta`, `hdr` and `body` in any order
  (the `join!`), then `LookupEnd`. Opening the body and asking its length is one step.
  A file that cannot be read counts as absent, as in the code.
* `get_miss_handler` and `create_tmp`: `MissStart`, `CreateParent`, `CreateTmp`.
* `write_body`: `WriteBody`. A `write_all` on a tokio `File` returns when the bytes are
  in the buffer of the `File`; `pend[c]` counts them and `Land` writes them, later and
  wherever the file has been moved. The flush of the last chunk waits for that chunk's
  bytes only, each chunk having a `File` of its own. This is the library's behaviour
  and is marked external.
* `finish`: `FinishStart`, `Rename`, or `RenameFails` and the fallback `CopyOpen`,
  `Copy`; then `OpenPart` and `WritePart` for `meta` and `hdr` (`fs::write` truncates,
  then writes); then `FinishEnd` with the counters.
* `drop` of an unfinished handler: `Abandon`, and within every action that fails.
* `update_meta`: `UpdateStart`, `UpdateExists`, then the same two parts. It is started
  by a lookup that was a hit, as the framework does after a revalidation, and carries
  that hit's metadata, however old by then.
* `purge`: `PurgeStart` (counter, length), `PurgeBody`, `PurgePart` twice, `PurgeDir`.
* I/O errors: `...Fails`, each with what the code does next. `Crash`: the process dies and a
  new one opens the same root. `Cancel`, `CancelPurge`, `CancelCreate`: the future of a call
  is dropped at an await; the file-system operation that was handed to the blocking pool
  happens nevertheless and no counter hears of it. `Cancel` is a finish or an `update_meta`,
  whose handler's `drop` runs. `CancelCreate` is `get_miss_handler` at `File::create`
  (`handle_miss.rs:47`): no handler exists yet whose `drop` could remove the file (`pc` is
  `"orphan"`), and nothing ever does. Dropping a lookup, a `get_miss_handler` before that,
  or a purge after the body is a call that takes no further step; dropping a handler between
  its calls is `Abandon`. The removal in `drop`, which ignores its error, is taken to
  succeed.

Contents are names: an object is named after the call that stores it, `Old` is one
that an earlier process left. A `meta` or `hdr` file holds a stamp (whose metadata,
serialised by which call) or `Torn`, and knows its inode, so that a write after the
removal of the file goes nowhere, and two writers of one inode may leave `Torn`.

The history variables are read by no guard except the bound of `faults`: `metWriter`,
`metPurge` (calls that were overlapped), `raced` (keys whose files an overlap, failure
or stale update may have mixed), `skew` (why the size may be wrong). They make the
properties precise: a property says what holds when nothing overlapped, and the runs
of the claims show what happens when something does.

Abstractions: metadata serialisation cannot fail; only the process crashes, not the machine
(no fsync is modelled, and the code calls none); a body that is being copied counts as empty
until the copy is complete; temporary files have distinct names and bytes are counted, not
told apart (`BodyStream` drops both); the gauge a new process starts from is the size of
some set of the entries, as an earlier orderly shutdown may have saved it; a failing
`create_dir_all` that the code ignores is subsumed by the failure of the operation that
follows it.

### CacheEntry and DiskCacheEntry

`CacheEntry` has one variable where the disk has three files: under a key there is
nothing, a version of an object, or `Unsettled`. A writer (`finish`, `update_meta`)
leaves the entry `Unsettled` from its first change to its end, when it becomes the
writer's version, or nothing if purges ran meanwhile; writers that overlap, fail, die or
bring stale metadata may leave it `Unsettled`, until a later writer has run alone.
A purge empties the entry in one step. A lookup answers with something the entry has
been while it ran. Of an unsettled entry nothing is promised, which is all the code can
do without a lock.

`DiskCacheEntry` maps the files to the entry (`EntryOf`: a version if all three files are
there, nothing otherwise, `Unsettled` if the key is `raced` or a writer has begun to
change it), the program points to the abstract operations (`OpOf`) and what a lookup got
to its answer (`AnswerOf`: `Garbled` if the three parts do not belong together). The
history variable `seen` collects what the entry has been during each lookup.
`ImplementsEntry` is then a statement about every step: the purge of `body` (or of
`meta`, if a writer put that back) is the step that empties the entry, `FinishEnd` the
one that settles it, and everything between them changes nothing that can be seen.

### BodyStream

Inodes hold sequences of chunks; a name leads to an inode. `CreateTmp` truncates what has
the handler's temporary name (`File::create`), `WriteBody` opens the name again and
leaves its chunk in `flight` for the inode it found, `Land` appends it, whenever and
wherever that inode is by then. `Rename`, `CopyFrom`, `CopyOpen` and `Copy` are `finish`:
`CopyFrom` opens the temporary file and keeps its inode in `src` (`handle_miss.rs:96`),
`CopyOpen` truncates the body (`handle_miss.rs:103`), `Copy` moves what `src` holds by then. If
another handler of the same name has renamed or removed that file meanwhile, the copy goes
on reading it, and `strayed` records the inode it writes. `DropOnly` is what `drop` does: it
removes what has the name, whoever made it. `name` is what the clock read, so that two
handlers may share one. A chunk lands whole; `DiskCache` lets parts of one land.

### HitHandler

`offset[r]` is the position of the file descriptor and `hit[r]` the struct
`DiskHitHandler`. `Grow` and `Truncate` are what other calls do to the inode: late
bytes, and the copy fallback, which truncates in place (`handle_miss.rs:103`); `gen`
counts the truncations. `read_body` is `ReadSeek` (the deferred seek), `ReadNone`,
`ReadSome` (any number of bytes up to the chunk) or `ReadEof`.

### CacheState

`Start` is `DiskCache::new`, and `StartUnread` the same with a state file that cannot be
opened or read. `Collect`, `OpenState` and `WriteState` are `PersistCacheOnShutdown::start`;
`SaveFails` is an error of the serialisation, of the open or of the write, all of which
`cache_statistics.rs:58-62` drops, so that the file is as it was, truncated, or torn. An
`i64` is `-Half..Half-1`, a `u64` goes up to `2 * Half - 1`, and the casts wrap as `as` does.
`SetClock` sets the system's clock back behind `start_time` or forth again; `Collect` becomes
`CollectPanics` then (`elapsed().unwrap()`, `cache_statistics.rs:53`), and nothing is saved.
`Exit` and `Kill` are the ways a process goes, and `Gone` what goes with it.

`Insert`, `Purge`, `Replace`, `PurgeLate`, `CopyLate`, `PurgeOverlap` and `Fail` are the net
effects that calls have on the gauge and on the disk. They are written after `DiskCache` and
carry the reasons that its `SizeExplained` allows: `"replaced"` (a body is never
subtracted), `"late"` (bytes land after a purge has measured or a copy has read),
`"overlap"` (a purge met a finish), `"failed"` (an error, a cancellation or the end of the
process between a change of the disk and that of the gauge); `"after"` is theirs alone: the
call ended when the snapshot had been taken. That the list is that of `DiskCache` is read off
the two modules and not proved.

### Eviction

`Finish` stands for a whole `finish` (its steps are those of `DiskCache`), `Admit` for what
the framework does with its result: the manager takes the key to the recent end and
evicts from the other one until the weights fit into `max_bytes`, each eviction being a
task of its own that calls `purge` later. `Hit` and `Access` are a lookup and the
framework's report of it, with the length that the lookup saw; an access to a key that is
not listed lists it and evicts nothing. `Restart` empties the manager. `Admit` is
external: modelled from how the code uses the framework (`MissFinishType::Created`,
`get_eviction_weight`, `purge`). The manager's shards are one, as
`simple_lru::Manager` has it.

### TieredStorage

One key, for calls on different keys share nothing in this layer. The deployed configuration
has no secondary tier; `has_secondary` covers both. The primary is the disk cache at a
coarser grain: an entry is a body and its metadata (`meta` and `hdr` as one), and a finish
(`FinishBody`, `FinishMeta`), a purge (`PurgeBody`, `PurgeMeta`) and an `update_meta`
(`UpdateAsk`, `UpdateWrite`) take two steps, between which anything may happen and of which
either may fail (`MetaFails`, and a disjunct of each purge). Two writers at a time may leave
`Garbled` metadata, and so may one that fails. A call to the secondary, of which the
repository has no implementation, is one step (`PurgeSecondary`, `UpdateSecondary`);
`Populate` is another server that stores an object there. A lookup asks a tier in one step;
one that fails (`LookupFails`) says so, which ends the lookup, or answers `None`, as the
disk cache does when it cannot open or read a file (`mod.rs:141-146`, `180`), and the next
tier is asked.

### EdgeCdnProxy

One action per callback, in the framework's order. A `Host` header is what
`parse_host_authority` makes of it: a name, a port that is absent, unreadable or a number,
and whether a slash trails it, or `Malformed`. The storage is one map, and `Evict` is an
eviction or a purge. `Expire` makes an entry `stale`: it passes its `fresh_until` at any
moment (the hour itself is left out). `Lookup` keeps a stale entry in hand and goes
upstream; an answer of 304 (`NotModified`) merges its headers into it, and `Revalidate` asks
`response_cache_filter` about the result and gives it to `update_meta`. A stale entry is
never served because of an error (the two zeroes at `proxy.rs:196`). `UpstreamPeer` may
panic: `HttpPeer::new` resolves the name and unwraps. What the framework does with an error
of `cache_key_callback` is left open (it ends the request or goes on without the cache).

### Inspector

`fs` is the set of files and directories; `MakeDir`, `PutFile`, `RemoveFile`, `RemoveDir`
are what the storage and the persisting service do to them. A request to `/cache` is one
action per file-system operation: `CacheStart` (canonicalise the root), `Metadata` and
`Canonicalize` (`resolve_under_root`), `IsDir`, then `Read`, or `ReadDir`, `NextEntry` and
`EndOfDir`, which sorts with the comparator of the code: any order that the comparator
allows, since `Rank` may call two names equal. As POSIX has it, a directory scan finds every
entry that is there throughout and may or may not find others. Every operation may also fail
where it need not (`Fails`, `NextEntryFails`); the code turns all errors into a 404, save
that of `file_type`, after which an entry counts as a file (`plain`). The other pages are
`Page`. `Bind` to `Join` are the thread's life: `main` starts it, `run_forever` forks if a
daemon is asked for (and the thread is `lost`), the stop service sends once and joins from a
blocking task, and the process does not wait for it (`Exit`).

A remark on ports: `docs/README.md` and `src/consts.rs:3` differ in which listener has
6188 and which 6143; the model follows the constants.

## 3. The runs

Each run is a `.cfg` of the same name. `CHECK_DEADLOCK FALSE` everywhere: calls,
requests and processes are bounded, so the models stop when all are used up, as the
system does when nobody calls it. Nothing in the storage waits for another call; what
does wait, the stop of the inspector for its thread, has a liveness property of its own
(`StopEnds`).

`IInv` is the component's inductive invariant, a different formula in every module, with
the type invariant `TypeOK` as first conjunct.

| Run | Checks | Instance |
|---|---|---|
| `DiskCacheInterleavings` | `NoMixture`, `SizeExplained`, `PurgeComplete`, `ImplementsEntry` | 1 key, 3 calls, no faults |
| `DiskCacheFaults` | `IInv`, `SizeInv`, `TmpOwned`, `CommitVisible`, `HitMatches` | 1 key, 2 calls, 2 faults, cancellations (that of a creation too) or crashes, chunks of 1 and 2 |
| `BodyStreamChunks` | `IInv`, `OneBody`, `InOrder`, `FindsItsFile`, `LateBytesLand` | 2 handlers, 2 names, 2 chunks, 1 failing rename, `FairSpec` |
| `HitHandlerRanges` | `IInv`, `InRange`, `WholeRange`, `NoneIsFinal`, `ReadingEnds` | length 4, chunk 2, 2 seeks, 1 copy, `FairSpec` |
| `CacheStateRestarts` | `IInv`, `SizeExplained`, `RestoresGauge`, `WarnsRightly`, `StateSaved` | 3 bits, 3 processes, 2 bytes, capacity 1, `FairSpec` |
| `EvictionBound` | `IInv`, `Tracked`, `Bounded` | 3 keys, 4 calls, capacity 2, bodies up to 2, 2 faults or restarts |
| `TieredStorageTiers` | `IInv`, `StaysGone`, `NoneIsNone`, `MixedExplained` | 4 calls, 2 stored objects, 1 fault, the disk cache's calls in two steps |
| `EdgeCdnProxyRequests` | `IInv`, `HitFromOwnOrigin`, `LabelRight` | 2 requests, 12 kinds of Host, 3 of proto, 2 listeners; entries that go stale, 304s |
| `InspectorPages` | `IInv`, `NotFoundMeansAbsent`, `ListingOrder`, `StopEnds` | 1 request, 2 directories, 3 files, `FairSpec` |

**Bounds, and why they are enough.** Calls on different keys touch different files and meet
only in the counters, so one key shows the interleavings. Three calls are a writer, a second
writer or a purge, and a third that observes both; a hit, the `update_meta` it leads to and
a purge also are three. Two faults are a failed rename and a failed copy, or a failure and a
crash. Bodies of one or two chunks show an empty, a partly landed and a complete body;
`OldLen = 2` differs from a body of one chunk, so an overwritten body changes the size. In
`BodyStream` two handlers with two names share a name or do not, at the same time or one
after the other, and two chunks can be out of order. In `Eviction` two bodies of three keys
exceed the capacity, four calls are two insertions and two hits or overlapping insertions,
and two faults are a failure after a restart. In `Inspector` requests meet nothing but the
storage, so one shows what can happen to it; two files and two directories are enough to see
an order. In `HitHandler`, length 4 with chunk 2 has ranges of no, part of one, one and two
chunks, and files shorter than the range. In `CacheState`, 3 bits hold every size and let a
negative gauge wrap in the cast, and three processes are one that saves, one that is killed
and one that restores. In `TieredStorage`, four calls are an invalidation and three others
between its steps, or a hit, the update it leads to and two writers that the update meets.
In `EdgeCdnProxy` one request stores and one is served; the hosts cover every branch of
parsing. The invariants that are proved (section 5) hold for all values of the constants,
and the runs show that the proved formulas are not vacuous.

**Fairness.** `BodyStream!FairSpec`: weak fairness of `Land`, since the blocking pool
runs what it was given; no storage call has fairness, for any of them may be dropped at
an await. `HitHandler!FairSpec`: weak fairness of `ReadBody`, because a
client that wants the body calls `read_body` until it returns `None`; a client that
does not has gone away, which is `Drop`. `CacheState!FairSpec`: weak fairness of
`Persist`, because the framework polls the background service when the shutdown watch
changes, and the grace period is far longer than one small write; `Kill` stays
possible throughout. `Inspector!FairSpec`: weak fairness of each request's next operation,
of `Bind`, `Graceful`, `RunEnds`, which the thread's runtime polls when they are ready, and
of `Stop` and `Join`, which the framework's runtimes do; `Exit` stays possible throughout,
and nothing makes a client come, a signal arrive or the storage work.

**Negative results.** Runs named `...Claim...` check one sentence of the documentation
or of a comment, and TLC finds it violated; see section 4.

## 4. Findings

All are divergences between the code and what is written about it. Three have a run:

| Run | Written | The code |
|---|---|---|
| `DiskCacheClaimHitOrNone` | `lookup` returns a hit or `None` (`docs/README.md:305`) | it counts a hit and returns an error if it meets metadata that is being written |
| `EdgeCdnProxyClaimFirst` | a first request finds nothing (`docs/README.md:248`) | the cache key leaves out the port, so the ports of a host share entries |
| `EdgeCdnProxyClaimLabel` | the label says whether the object was served from the cache (`docs/README.md:297`) | it says whether an upstream server was asked: a stored body that a 304 confirmed is a `MISS` |

Others are visible in the definitions and keep no run of their own:

| Written | The code | Where in the model |
|---|---|---|
| `misses` counts lookup failures (`docs/README.md:134`) | `lookup` and then `get_miss_handler` count one request twice | `LookupEnd`, `MissStart` |
| `get_miss_handler` writes the metadata (`docs/README.md:309`) | `finish` writes it | `MissStart`, `OpenPart` |
| the buffer is flushed at eof (`src/disk_cache/handle_miss.rs:76`) | only that of the last chunk | `WriteBody` |
| served hits were delivered (`docs/README.md:133`) | also counts files that were short or overwritten | `ReadEof`, `Finish` |
| the warning that the cache exceeds the capacity (`src/disk_cache/mod.rs:86`) | is also given when the persisted size is negative | `Start`, `AsU64` |
| metrics are lost at shutdown (`docs/README.md:343`) | `size_bytes` survives an orderly one | `RestoresGauge` |
| `size_bytes` is the current size (`docs/README.md:139`) | a body that is replaced is never subtracted (`src/disk_cache/handle_miss.rs:128`) | `FinishEnd`, `"replaced"` in `SizeExplained` |
| the body must exist (`src/disk_cache/mod.rs:277`) | a purge may remove it after the check, and metadata is written for a body that is gone | `UpdateExists`, `OpenPart` |
| directories first, then by name (`src/inspector/display_disk_cache.rs:63`) | files first, the last name first | `Precedes`, `ListingOrder` |
| the inspector "must run as a Pingora background service rather than spinning up a separate Tokio runtime" (`README.md:146`) | it spins one up on a thread that the fork of a daemon loses, and only its stop is a background service | `RunForever`, `StopEnds` |
| the statistics are at `/statss` (`README.md:31`) | at `/stats` | - |
| `no-store` is honoured (`docs/README.md:288`) | in the first `cache-control` header only (`src/proxy.rs:187`) | `Cacheable` |
| an invalidation is synchronised (`src/tiered/mod.rs:149`) | a tier that fails keeps its entry, and the caller hears nothing | `PurgeBody`, `PurgeSecondary` |
| `update_meta` is for a body that has not changed (`docs/README.md:315`) | it writes to whatever body each tier holds | `UpdateWrite`, `UpdateSecondary` |
| a failing primary leads to the secondary (`docs/README.md:218`) | its error is returned at once; only where the disk cache turns an error into `None` is the secondary asked | `LookupFails` |
| without a scheme it drops back to http (`docs/README.md:271`) | the listener decides | `Scheme` |
| self-references are not cached (`src/proxy.rs:111`) | other spellings of the proxy's address are | `IsSelf` |
| malformed hosts give a 400 (`src/utils.rs:51`) | both callers replace it by an InternalError | `UpstreamPeer`, `CacheKeyCallback` |

## 5. The proofs

Eight modules prove, for every value of the constants that satisfies the assumption
named in the component's module (`DiskCacheAssumption` and so on: distinct names,
natural bounds, finite sets of keys), that the inductive invariant holds, and derive
the properties from it. With them every safety invariant and every action property of
the runs is a theorem, and so is the refinement. Each proof has the same shape:
`Init => IInv`, one lemma per action (or per group of actions that change the same
things), `IInv /\ [Next]_vars => IInv'`, and a temporal theorem by PTL.

* **`DiskCacheProofs`, files** (`NoMixtureHolds`, `TmpOwnedHolds`, `HitMatchesHolds`,
  `CommitVisibleHolds`, `PurgeCompleteHolds`). `NoMixture` speaks of keys without a
  writer; to keep it one has
  to know what the files are while there is one. `OverlapSeen` says that the history
  misses no overlap, `MetMeansRaced` that a key keeps its mark until a finish without
  overlap has rewritten all three files, and `WriterState` that a sole writer finds at
  each of its steps its own files or none: a purge may remove any of them at any time.
  `ReaderState` says the like of a lookup: what it has read agrees with itself and with
  what is still there. `UpdateStart` is the step that needs most: the metadata a hit
  carries agrees with the body only if that is still the body the hit found.
  `CommitVisible` and `PurgeComplete` are the two sides of one matter: `PurgeSeen` says
  that a writer and a purge that overlap have both noticed, `AloneState` that without
  that nothing a finish has put in place is missing, and `PurgedState` that without that
  nothing a purge has removed is back.
* **`DiskCacheProofs`, size** (`SizeInvariance`, `SizeExplainedHolds`). `SizeExplained`
  speaks of moments at which nothing is committed or purged; in between the gauge is off
  by what is under way. `SizeInv` is the account: the gauge and what is `Owed` (the
  bodies in place that their finish has still to count) are what all bodies hold, bytes
  on their way included. `PlacedOK` says whose a body is, `OverlapOK` that no purge runs
  beside a finish of its key (else `skew` says so), `StatOK` that what a purge has
  measured is still what it will remove, `WroteOK` that what a finish will count is what
  its body has. `QuietStep` shows that all but nine actions leave the accounts alone or put them
  out, which `skew` records.
  A sum is the number of elements of a set of bytes (`Total`), so that the library's
  theorems on finite sets are all that is needed to add to it.
* **`DiskCacheProofs`, refinement** (`Refinement`, of `EntrySpec`). `EInv` relates what a
  lookup has read to `seen`: it has seen what its entry is now or that it was unsettled,
  and if it never was, what it has read is one version it has seen, or a file was
  missing. Every action is then mapped by what it does to the entry of its key: it leaves
  it alone, unsettles it, ends a writer or empties it (`StepMaps` puts them together).
* **`BodyStreamProofs`** (`OneBodyHolds`, `InOrderHolds`, `FindsItsFileHolds`). The
  invariant follows a chunk from the moment it is accepted: `Gets(i)` is what inode `i`
  has and will get. `TmpOK` keeps the inodes handlers read apart from those that copies
  write over, `OwnFileOK` is behind `FindsItsFile`, `WritersOK` and `OneBodyOK` behind
  `OneBody`, `SourceOK` says what a copy's open file is: its handler's own, or one that
  `strayed`; `SentOK` numbers the chunks, and `ApartOK` and `OnceOK` say that none is
  under way twice.
* **`HitHandlerProofs`** (`InRangeHolds`, `WholeRangeHolds`, `NoneIsFinalHolds`). `Cursor`
  ties the cursor to the descriptor, `Ranges` the range to the length lookup saw, and
  `Sound` says that a file that was not overwritten is never short.
* **`CacheStateProofs`** (`SizeExplainedHolds`, `RestoresGaugeHolds`, `WarnsRightlyHolds`).
  `RoundTrip`: the cast to `u64` and back is the identity on every `i64`, for every
  width. `SnapshotOK`, `WrittenOK` and `SavedOK` carry the gauge from the snapshot to the
  file and into the next process. `DriftOK` adds what is on the disk: what is `Known` of the
  gauge (its value, or what the next process will restore) is never less than the bodies as
  long as nothing happened but what makes it too large, and is equal to them if nothing did.
* **`EvictionProofs`** (`TrackedHolds`, `BoundedHolds`). `StoredOK` makes `Tracked`
  inductive: a call that is about to be admitted brings the length that is on the disk.
  `FitsOK` is behind `Bounded`: unless something is owed, the weights of the listed keys
  that are not in motion fit into `max_bytes`, after every step and not only when the
  system is idle.
* **`TieredStorageProofs`** (`StaysGoneHolds`, `NoneIsNoneHolds`, `MixedExplainedHolds`).
  `Halfway`: between its steps an invalidation has left no body in the primary that was there
  when it began, because a hit in the secondary is not promoted and a call stores only once
  (`StoredOnce`). `NoneIsNone` is an action property, about the step that answers `None`; it
  rests on `PrimaryEmpty`: a lookup that has gone past the primary, which did not fail and
  met no entry, has left none behind. `MixedExplained` rests on `CrossSeen`, that no two
  writers overlap without being recorded, and on `OnlyGo`, that while an update runs that has
  met nothing the tiers can only lose objects, so that among its own object's copies it finds
  nothing else. `PutFacts` says once what a change of a tier does to `met`.
* **`EdgeCdnProxyProofs`** (`HitFromOwnOriginHolds`, `LabelRightHolds`).
  `Fetched`, `StoredUnderKey` and `InHand`: what is stored, and what a request holds, was
  fetched by a request with the same key, also if another request has given it new
  headers since; `Borrowed` says so of the stale entry that is being revalidated. The
  lemma `KeyDeterminesOrigin` then says that equal keys mean equal upstream servers if
  neither request names a port.
* **`InspectorProofs`** (`NotFoundMeansAbsentHolds`, `ListingOrderHolds`). `AbsentOK`
  accounts for each step of a request: a path that is not there any more is recorded as
  `gone`, and what is read was a file, or is gone, or an operation has failed. `PageOK`:
  a listing is a permutation of what was read that the comparator accepts;
  `ListingOrder` follows from what the comparator says of two names (`PrecedesMeans`).

**What the proofs have taught.** Two properties held on the instances that TLC can
finish and not in general. `InOrder` claimed the order of the chunks of every
handler that never had two under way: when four handlers have one temporary name and two
renames fail, two copies into one inode bring them out of order, so the claim is now for
handlers that shared no name or inodes that no copy reused, and only that no chunk is
there twice for the others. `ListingOrder` assumed that no two names compare as equal.
And the operations that `DiskCacheEntry` reads off a program point (`OpOf`) were cases
that overlapped.

**Only model-checked**: liveness (`LateBytesLand`, `ReadingEnds`, `StateSaved`,
`StopEnds`), which is out of the prover's reach, and the negative results.

## 6. Not modelled

`src/tiered/fan_out.rs` (not declared as a module, so not compiled); logging (output only;
its service waits for ever and keeps no state); the environment and the paths that start-up
reads once; the inside of the framework's LRU manager beyond what the code tells it. Within
the modelled components: serialisation of metadata, how long an entry is fresh, the HTML of
the inspector and its refusal of paths outside the root.

## 7. Plan

Written first, because the rest depends on it: `DiskCache`, then `HitHandler`, which
reads what it writes, `CacheState`, `TieredStorage`, `EdgeCdnProxy`; then `CacheEntry` with
the refinement, `BodyStream`, `Eviction` and `Inspector`; then the proofs, component by
component. No safety property of a run is left without a theorem. What could still be
added:

1. The tiers of `TieredStorage` are maps; that `DiskCache` implements such a tier where
   calls do not overlap is a refinement of its own, by way of `CacheEntry`.
2. The whole calls of `CacheState` and `Eviction` and the two-step ones of `TieredStorage` are
   written after `DiskCache`; that it has no other effects is stated in prose only.
