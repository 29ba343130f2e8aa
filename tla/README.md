# TLA+ models of pg_strom's shared-memory core

This directory holds TLA+ models of the shared-memory machinery of pg_strom.
The machinery consists of:
- the arena allocator, synchronisation wrappers and message queue of the `shmem.c` part of `src/main.c`;
- the columnar cache (T-tree, column and row stores, vacuum hooks, columnizers) of `src/tcache.c`.

Every definition is translated from those sources; the map in `PROJECT.json` gives the lines of each one.

## 1. The system

| Part | Code | State | Operations |
|---|---|---|---|
| Arena allocator | `main.c` 543–1378 | one segment; blocks chained in address order (`addr_head`); free blocks on `free_head`; `free_size`; every block has `magic` and `size` | `pgstrom_shmem_alloc` (first fit, split unless the remainder is under 4096 bytes), `pgstrom_shmem_free` (coalesce with both neighbours), `pgstrom_shmem_startup` |
| Sync primitives | `main.c` 617–707 | process-shared pthread mutex, rwlock, condvar | `pgstrom_cond_wait` with a timeout in ms |
| Message queue | `main.c` 996–1116 | dlist, `is_shutdown`, mutex, condvar | enqueue (signals), dequeue (one wait, optional timeout), try_dequeue, shutdown |
| Tracked buffers, cleanup | `main.c` 902–994, 1122–1296 | per-process tracking list of blocks | alloc/free of kernel params, varlena and chunk buffers; cleanup at resource-owner release |
| Toast buffer | `tcache.c` 470–531, 1064–1102 | refcounted growable byte area | create, duplicate, get, put, copy of varlena values |
| Column store | `tcache.c` 294–464 | item pointers, tuple headers, column arrays; `nrows`, `njunks`, `blkno_min/max`, `is_sorted`, refcount | create, duplicate, get, put, sort, compaction |
| Row store | `tcache.c` 546–641, 1638–1796 | tuples in row format, block range, refcount | insert (rotate when full), hint updates |
| T-tree | `tcache.c` 654–1630, 1807–1986 | nodes with `left/right`, `l_depth/r_depth`, a column store each; node pool | insert, split, rebalance, merge, find next/prev node and record |
| Cache head and scans | `tcache.c` 2019–2670 | hash table of heads, refcounts, state NOT_BUILT/NOW_BUILD/READY, lwlock | get/put/unlink head; begin/next/prev/end/rescan |
| Synchronizer triggers | `tcache.c` 2680–3020 | — | per-row insert/update/delete and truncate into the cache |
| Vacuum hooks | `tcache.c` 3030–3288 | — | freeze pruned rows in column and row stores; unlink the head on DDL |
| Columnizers | `tcache.c` 3297–3493 | worker latch, `tc_common->pending_list` | move full row stores into the T-tree; compaction and merge of pending nodes |
| Data store, codegen | `src/unnamed/part_000`, `part_001` | none shared | build parameter buffers and row stores; generate OpenCL source |

How the parts interact:
- Every shared object is a block of the arena.
- Queues hand work between backends and the (absent) OpenCL server.
- A scan that finds no cache for a relation creates a head and builds the T-tree from a heap scan under the head's exclusive lwlock.
- Later, triggers append changed rows to row stores. Columnizers are meant to fold those rows into the tree.
- Page pruning marks cached rows dead, through a hook that runs under the shared lwlock.

What is hard:
- Operations by many processes interleave on the arena and the queue.
- Blocking waits with timeouts and spurious wakeups.
- A recursive tree whose bookkeeping (ranges, depths, sort flags) must stay consistent through splits and rotations.
- Reference counts on objects shared between scanners and writers.
- Lock upgrades that release and reacquire.
- Errors raised in the middle of a structural change.

The properties that make each part correct:
- **Arena:** the blocks tile the segment, free blocks are coalesced and listed once, `free_size` is exact, and no two callers own the same bytes.
- **Queue:** no accepted message is lost, shutdown releases waiters, and timed waits wait.
- **T-tree:**
  - every cached row appears exactly once;
  - chunks are in block order;
  - lookups find the right chunk;
  - `is_sorted` is sound;
  - depths are true;
  - capacity is respected.
- **Cache head:** refcounts never drop to zero while the head is in use, and a scan never reads a half-built tree.
- **Columnizer:** full row stores are eventually columnized.

## 2. Conventions

- **Production build.** Asserts are compiled out, as in a default PostgreSQL build.
  - A step that would corrupt memory or read memory the code never wrote is recorded in a flag: `panicked` in ShmemArena, `err` in TTree and TCacheHead.
  - Such a step leaves the modelled structure as it was.
  - A restart action then re-initialises, as the postmaster's crash-restart would after the corruption brings a backend down.
- **Atomicity.** A function that holds a lock for its whole body is one step. A function that gives up the lock inside (a condition wait) is split at that point.
- **`memset(&tc_node, 0, sizeof(tcache_node))` in `tcache_alloc_tcnode` (tcache.c:678).** This clears the local pointer, so `SpinLockInit(&tc_node->lock)` dereferences NULL, and every cache build crashes on its first node. The models use the evidently intended `memset(tc_node, ...)` so that the tree logic behind it can be checked. The divergence is listed as a hazard.
- **Fixed-length columns.** `tcache.c` references `pgstrom_shmem_alloc(size)` with one argument, while `main.c` defines it with two, so the two files are from different revisions. The T-tree model therefore does not compose with the arena model. It also caches fixed-length columns only: the toast path has bugs of its own, which are planned for the toast buffer module.

## 3. Modules and runs

### ShmemArena (`ShmemArena.tla`, `MCShmemArena.tla`)

State:
- `addrList`, `freeList` and `size`/`magic`, indexed by block offset;
- `freeSize`;
- `owned`: the block and request size each caller (Site) holds;
- `panicked`.

Actions:
- `Alloc(s, tag, sz)`: the whole of `pgstrom_shmem_alloc`, both branches and the no-fit fall-through.
- `ShmemFree(s)`: coalescing through `MergePrev`/`MergeNext`.
- `Restart`.

Bounds: segment of 8 units; header 1; slack 2; request sizes 1–3; three callers.
- These make every branch happen: split, whole block, no fit, merge with prev, merge with next, and both.
- `free_size` drifts upward (see below), so the state space is cut by `FreeSizeBound` (`freeSize <= 2 * Total`), a named CONSTRAINT.

| Run | Checks | Result |
|---|---|---|
| `arena_pass` | TypeOK, SegmentTiled, Coalesced, FreeListExact | holds (613k states) |
| `arena_double_owner` | OwnedSpansExclusive | violated after three allocations: with no block large enough, the loop variable — the last free block, too small and still free — is returned (main.c:817) |

### TTree (`TTree.tla`, `MCTTree.tla`)

One cache head's T-tree.
- The tree is a record `tc`: per-node rows (item pointer plus a "frozen by vacuum" flag), `bmin/bmax`, `sorted`, `left/right`, `ld/rd`, the root and the free pool.
- Also: `scanned` (the rows the build scan returned), the scan position and start block, `phase` (NOW_BUILD or READY), the node spinlocks left held, and `err`.

Actions:
- `BuildInsert(c)`: one iteration of `tcache_build_main`. It is `tcache_insert_tuple` from the root, including any split (with its compaction) and the child rebalance, followed by the root rebalance.
  - The heap scan returns item pointers in physical order from a start block that a synchronized scan may choose. It wraps to block 0, so below-min inserts happen.
- `FinishBuild`: `tcache_end_scan` marks the head READY.
- `Vacuum(b, gone)`: `tcache_vacuum_column_store` for a pruned page.
- `Rebuild`: DDL or crash-restart, then a new build.

Pure operators:
- `FindNext`, `FindPrev` and `FindNextRecord` (the binary and linear search).
- They are checked against reference definitions over the in-order node sequence for every block and every item pointer.

What the code never reaches, and so no action models:
- `tcache_insert_tuple` is called only at the root. After the root's one split the right child takes rows without a capacity check until it overruns, so no other node splits.
- Rotations need a depth difference of 2, which never arises; they are modelled but do not fire.
- Merge and columnizer inserts need `pending_list` entries that no code creates.

Bounds: capacity 3; 4 blocks of 2 line pointers; 4 nodes.
- A heap page holds fewer tuples than a column store: the ASSUME `NOffsets < Capacity`.
- Under these bounds the tree reaches the left child, the root split, unsorted stores, overrun and vacuum.

| Run | Checks | Result |
|---|---|---|
| `ttree_pass` | TypeOK, RowsConserved, RangeOrdered, FindAgrees, SortedFlagSound | holds (34k states) |
| `ttree_overrun` | NoOverrun | violated: an existing child is filled past NUM_ROWS_PER_COLSTORE (tcache.c:1966) |

`SpinlocksReleased` (every node spinlock is free between steps) is still defined. Vacuum of a found record returns holding `tc_node->lock` (tcache.c:3045), and TLC finds it violated with `INVARIANT SpinlocksReleased`. No run keeps it, because one prune and one lookup already show the hang in a unit test; the hazard list records it.

### StromQueue (`StromQueue.tla`, `MCStromQueue.tla`)

State:
- `queue` and `isShutdown`;
- per consumer: `pc` ∈ idle/blocked/woken, and the timeout of its current call;
- `got` (messages received) and `sent` per producer.

Actions:
- `Enqueue`, with `Signal` waking one blocked waiter;
- `Shutdown`, `TryDequeue`;
- `Dequeue(c, t, u)`: up to the wait, where `u` is the `tv_usec` at the call;
- `Spurious`, `TimeOut`, and `Resume` (the rest of dequeue after the wait).

Fairness:
- producers finish;
- consumers keep calling dequeue;
- a woken waiter reacquires the mutex;
- an armed timer fires.

Spurious wakeups and shutdown get no fairness: the code cannot rely on them.

Bounds: two producers with two messages each, two consumers, and timeouts {0, 500} ms. `tv_usec` is in {0, 600000}. With 600000 µs and 500 ms the sum crosses one second, and the timed wait is rejected with EINVAL (main.c:697). `Dequeue` models that rejection: the call returns NULL at once and changes nothing, so it is a stuttering step, and no property can tell it from a call that was not made (see the hazards).

| Run | Checks | Result |
|---|---|---|
| `queue_pass` | TypeOK, EveryMessageDelivered | holds (4k states) |
| `queue_shutdown` | ShutdownReleasesWaiters | violated: shutdown only sets the flag; the spec says it broadcasts and releases all waiters (main.c:1114) |

### ShmemTrack (`ShmemTrack.tla`, `MCShmemTrack.tla`)

The typed buffers built on the arena, and `pgstrom_shmem_cleanup`, the resource-release callback that frees what a resource owner leaves behind (main.c 902–1289).

Abstraction: the arena is a pool of blocks, each free or carrying `magic`, `pid` and `owner`. ShmemArena checks splitting and coalescing; here only which block belongs to whom matters. The OpenCL server, which clears `is_running` and signals `chunk->cond`, is not in this repository. It is the environment action `Finish`. The backend that owns a chunk sets `is_running` when it hands the chunk over (`Submit`).

State:
- `blk[a]`: the block header (`magic`, `pid`, `owner`);
- `vl[c]` and `running[c]`: a chunk's `vlbuf_list` and `is_running`;
- `track[p]`: `shmem_private_track` of process p, in list order;
- `stack[p]`: p's resource owners (the transaction, and at most one subtransaction), `CurrentResourceOwner` last;
- `cpc[p]`, `cur[p]`: where p's cleanup is (step 1, waiting on a chunk, woken) and the chunk it waits for.

Actions:
- `QueueAlloc`, `ChunkBufferAlloc`: these include the path where `pgstrom_cond_init` fails and the block is freed untracked;
- `KernelParamsAlloc`, `VarlenaBufferAlloc`: a varlena buffer is untracked and goes on a chunk's list, possibly allocated by another process;
- `TrackedFree` (queue and params free), `ChunkFree` (`pgstrom_chunk_buffer_free`, which frees the chunk's varlena buffers too);
- `BeginXact`, `BeginSub`, `ReleaseOwner`: commit and abort take the same path in a release build;
- `CleanupStep`: step 1 picks the next chunk of the owner, or steps 2 and 3 free its params and the rest, and the owner is popped;
- `Spurious`, `TimeOut` (30 s), and `CleanupCheck`: retry while `is_running`, else free the chunk.

Fairness: weak fairness on the cleanup's own steps, on the 30 s timeout (the wait always has one), and on `Finish`. `Finish` assumes the server ends every kernel it was given. Allocation, submission and transaction steps are never forced.

Bounds: two processes and three blocks. That is enough for a chunk with a varlena buffer from the other process plus a block of a subtransaction, or for two chunks waited on in turn. Four blocks did not finish in 20 minutes. No symmetry is used, because the run checks liveness.

| Run | Checks | Result |
|---|---|---|
| `track_pass` | TypeOK, TrackExact, NothingOutlivesOwner, CleanupScoped, CleanupTerminates | holds (266k states, about 2 min) |

The calls to `pgstrom_cond_wait` without `chunk->lock` held (main.c:944) are undefined behaviour and are not modelled. A signal they lose costs at most the 30 s timeout, after which `is_running` is tested again.

### TCacheHead (`TCacheHead.tla`, `MCTCacheHead.tla`)

Models the life of a `tcache_head` for one relation, so every entry of its hash slot belongs to that relation.

State:
- per head address (`HeadIds`): `refcnt`, `hstate` (NOT_BUILT/NOW_BUILD/READY), the attributes in `i_cached` (`cached`), `ncols`, and the lwlock holders (`lwEx`, and `lwSh` per backend);
- `slot`, the hash chain; `alive`, the heads whose block is allocated;
- per head, `tree`: whether `tcs_root` is the empty root of a new head, a tree loaded from the heap, or a root whose nodes `tcache_free_node_recurse` put back on the free list (`FreeTree`);
- per backend: `pc`, the head its current call holds (`hold`), the columns its scan required (`need`), whether its heap scan is open, and its trigger event;
- `err`, undefined behaviour.

Actions:
- `BeginScan(b, R)`: `tcache_get_tchead(R, create)`. The lookup is `GetTchead`, with the column check as `MatchedPrefix`/`LookupHit` and creation as `CreateHead`, which also unlinks and puts the old head.
- `BeginScanOOM`: creation fails for want of a free address. The ERROR aborts the transaction, and `LWLockReleaseAll` drops the backend's lwlocks.
- `AcqShared`, `AcqExclusive`: the retry loop of `tcache_begin_scan`. Each action is the acquisition of the lock it waits for, followed by the state test under `tc_head->lock`.
- `ScanNext`: the builder's first `tcache_scan_next` (or `tcache_scan_prev`, whose first lines are the same) loads the heap and closes the heap scan. Loading the tree itself is the TTree module. Loading into a freed root reads `tcs->nrows` with `tcs` NULL.
- `EndScan`: `tcache_end_scan`; with the heap scan still open it frees the tree.
- `Rescan`: `tcache_rescan`; a head still NOW_BUILD has its tree freed, whoever rescans.
- `TrigGet`, `TrigRun`, `TrigEnd`: `pgstrom_tcache_synchronizer`. TRUNCATE goes through `UnlinkTchead`.
- `PruneGet`, `PruneRun`: `tcache_on_page_prune`.
- `ObjectAccess`: DROP or ALTER via `tcache_on_object_access`.
- `Disconnect`: a backend exits, releasing its lwlocks.
- `Restart`: the crash restart after `err`.

Modelling choices:
- An lwlock is owned by a backend, as PostgreSQL's `held_lwlocks` records.
  - A shared acquisition waits only for an exclusive holder.
  - An exclusive one waits for every holder, the requesting backend included.
- Undefined behaviour sets `err` and stops the backends until `Restart`. It covers:
  - reading a freed head, through the hash chain or a held pointer;
  - deleting a NULL dlist node;
  - loading into a freed root;
  - spinning for ever under `tc_common->lock` ("stuck spinlock": `s_lock_stuck` PANICs).
- `tcache_get_tchead` takes `tc_common->lock` (tcache.c:2556) and returns with it held (2662); only its PG_CATCH releases it (2657). The variable `common` is the backend holding it, and the constant `KeepCommonLock` chooses what a normal return does:
  - `TRUE` is the code as written: the lock stays held, and any later section that takes it (a second lookup, `tcache_end_scan` at 2246, put, unlink, the prune and object-access hooks) spins until PANIC;
  - `FALSE` releases it on return, which is what every caller assumes, since none of them releases it. The pass run uses this repaired variant so that the lookups, builds and teardowns behind the lock can be explored at all.
- A new head never takes an address still on the hash chain. The arena could reuse one, but that would only make a dangling pointer look valid again.

Bounds:
- Two backends, a relation of two attributes, and two head addresses (an old and a new cache).
- Scans ask for {1}, {2} or, in the pass run, {0} (the whole row), which makes the lookup spin.
- A backend accumulates at most `MaxShared` = 1 retained shared hold before a new scan.
- `MaxRefcnt` = 3.

The pass run uses backend symmetry, which is sound because no property names a backend.

Deadlock is not checked (`CHECK_DEADLOCK FALSE`): the system really can stop, with a backend waiting for an lwlock held by an idle backend or by itself. `ScanStarts`, with `FairSpec`, states that a scan eventually starts. TLC finds it violated (tcache.c:2033, 2238), but the deadlock is the first thing a test of two scans meets, so it has no run of its own.

Fairness (`FairSpec`, for `ScanStarts`):
- weak fairness on each acquisition of a free lock, since `LWLockRelease` wakes the waiters;
- weak fairness on the steps that finish a call already under way.

Starting a call, DDL and exiting are never forced.

| Run | Checks | Result |
|---|---|---|
| `head_pass` | TypeOK, SingleLinked, BuilderExclusive | holds with `KeepCommonLock = FALSE` (about 1.5M states, 2 min) |
| `head_spinlock` | NoStuckSpinlock | violated with `KeepCommonLock = TRUE`: one backend's `tcache_begin_scan` returns holding `tc_common->lock`, and the next lookup of the other backend spins (tcache.c:2662) |

Bugs the model keeps but no run isolates, because each needs a second take of `tc_common->lock` after a lookup and so is latent behind `head_spinlock` (see the hazards):
- a new head has refcnt 1 but is both linked and returned, so the creator's put frees it under the hash chain (tcache.c:2369); the prune hook never puts its reference (3193), and TRUNCATE's unlink test is inverted (2539);
- the column check takes a head when `j < ncols` (tcache.c:2612);
- `tcache_end_scan` before the first fetch, and `tcache_rescan` of a head still NOW_BUILD, free the tree but leave the head pointing at it (tcache.c:2253, 2294).

### RowStore (`RowStore.tla`, `MCRowStore.tla`)

The row stores of one READY `tcache_head`: the rows the synchronizer trigger caches after the build, the scans that read them and the page prunes that remove them.

State:
- `trsCurr`, `trsList` (head first): `tc_head->trs_curr` and `trs_list`;
- per store address (`StoreIds`): `refcnt` and `rows`, each row a record of its ctid, whether a hint update copied a deleting xmax onto it, and whether vacuum set its offset to 0 (`gone`);
- the heap: `used`, `live` and `pruned` ctids;
- per backend: `pc`, the two ctids of an UPDATE between its two calls, and the store a scan holds (`scanPos`);
- the root column store built before the triggers ran: `Loaded` (its ctids, a constant), and per loaded row `cols` (whether a hint update copied an xmax into its header, whether vacuum froze it); `nodeLocked`, the root's spinlock left held;
- histories: `cachedRows`, `hinted` (the ctids whose UPDATE or DELETE updated hints), and `listed`/`visited` of each scan;
- `err`, the wild pointer or NULL dereference of a scan, or a stuck spinlock.

Actions:
- `TrigInsert`, `TrigUpdate` + `TrigUpdateInsert`, `TrigDelete`: the three row branches of `pgstrom_tcache_synchronizer`.
  - An UPDATE is two steps: `UpdateHints` of the old version, then `InsertTupleRow` of the new one.
  - `UpdateHints` is the whole of `tcache_update_tuple_hints`: the root's spinlock (stuck if vacuum left it held), then `FindNextRecord`, the least loaded ctid at or after the target, as `tcache_find_next_record` computes it. Any such ctid counts as a hit, its header gets the xmax, and the row stores are skipped; only without one does the row-store branch run.
  - `InsertTupleRow` is the whole of `tcache_insert_tuple_row`. It appends to `trs_curr` and leaks one reference, as the code does (`GetRowStore` without a put), or pushes a full store and creates a new one.
  - `InsertTupleRowOOM` is the same call when `tcache_create_row_store` raises "out of shared memory": the push survives, trs_curr is NULL, and an UPDATE's old version is live again.
- `BeginScan`, `ScanNext`, `EndScan`: the row-store walk of `tcache_scan_next` with `dnode_is_linked` as written (`DnodeIsLinked`), and the put in `tcache_end_scan`.
- `ScanPrev`: the row-store part of `tcache_scan_prev`, as written:
  - it starts at `trs_curr`, else at the tail of `trs_list`;
  - from a store on the list it takes the tail again;
  - from `trs_curr`, the inverted `dlist_has_prev` test yields NULL;
  - whenever the result is NULL, the column-store part dereferences `tcs_prev`, which is NULL.
- `Rescan`: `tcache_rescan` puts the store the scan holds and restarts the walk. A scan may mix directions and restart at any point, as an executor cursor can.
- `PagePrune(b, k)`: `tcache_vacuum_row_store` over every reachable store, with the range test of `do_vacuum_row_store` as written, then `VacuumColumnStore`: `tcache_vacuum_column_store` freezes the dead loaded rows of the block and, when the block is at or below the loaded rows, returns with the root's spinlock held (tcache.c:3069).
- `Restart`: the crash restart after undefined behaviour.

Modelling choices:
- Each trigger, scan and prune starts with a `tcache_get_tchead` that returns, so RowStore, like `head_pass`, takes `tc_common->lock` to be released after a lookup (see TCacheHead); with the code as written the second of them would spin.
- Triggers, scans and prunes all hold the head's lwlock shared. The only exclusive holder, the columnizer, never gets a head, so the lwlock is left out. Each section under `tc_head->lock` is one step.
- Store capacity is counted in units: `Capacity` for a new store, `Width` per tuple, one per offset slot. `Fits` is `usage_head < usage_tail`.
- A new tuple takes the first unused line pointer of a block, as `PageAddItem` does.
- `Restart` returns to Init, the heap included. After the restart a scan builds a new head whose column stores hold every heap row, so the old heap rows never reach a row store again. What follows is a behaviour from Init over fewer free ctids.

Bounds:
- one writer and one scanner;
- 2 blocks, 6 ctids (3 on each), with `<<2, 1>>` loaded into the column store, so a row inserted on block 1 has a loaded ctid after it;
- 2 store addresses of 2 rows each (Capacity 8, Width 2), so the fifth insert finds no free address and takes the ERROR path.

`MCView` leaves the histories `listed` and `visited` out of the state fingerprint; they are only read by `ScanCoversRowStores`, which the pass run does not check. There is no symmetry: the writer and the scanner have different roles, and the blocks are ordered.

| Run | Checks | Result |
|---|---|---|
| `rowstore_pass` | TypeOK, RowsConserved, RefcntAccounted | holds (about 840k states, 2 min) |
| `rowstore_scan` | ScanCoversRowStores | violated: after the first store of `trs_list` the walk jumps to `trs_curr` (or ends), skipping the others, because `dnode_is_linked` is inverted (tcache.c:133, 2117) |
| `rowstore_hints` | HintsApplied | violated in two steps: a row inserted at (1,1) is updated, `tcache_find_next_record` returns the loaded (2,1), and the live row (2,1) gets the deleting xmax while (1,1) in the row store keeps none (tcache.c:1759) |

What the pass run shows:
- No push, creation, ERROR after a push or vacuum loses, duplicates or wrongly drops a cached row.
- Every store's `refcnt` equals the references that exist (`RefcntAccounted`): the head's, one left by each stored tuple, and one per scan on it. Every get and put of scan_next, scan_prev, rescan and end_scan balances, including the crash paths and a backward step that returns the same store again.

Bugs the model keeps but no run isolates (see the hazards):
- every successful insert leaks a reference, so no row store is ever freed (tcache.c:1683);
- `do_vacuum_row_store` tests `blkno_max > blknum` (tcache.c:3116), so dead rows below a store's highest block are never removed;
- a prune at or below the loaded block leaves the root spinlock held, and the next hint update, column walk or prune spins (tcache.c:3069);
- after `trs_curr` the walk dereferences NULL; `err` records it;
- a backward walk never ends without a NULL dereference, and it returns the tail of `trs_list` again and again (tcache.c:2198, 2220).

### Mutants

Every property of a passing run is also checked against a faulty variant of one mapped definition, written just before it in the module (`PROJECT.json` "mutants"). Examples: a merge that leaves the previous block on the free list; a binary search stopping at the first item pointer above the probe; an enqueue that does not signal. TLC finds each property violated under the run's own configuration.

## 4. Plan for the remaining parts

In order of importance:

1. **TCacheHead, continued.** The head lifecycle is modelled (above). Still to do:
   - compose it with TTree, so that the nodes `end_scan`/`rescan` free are those of the tree being built (TCacheHead now records only that the tree was freed);
   - an ERROR inside `tcache_build_main` (tcache.c:2007);
   - scanners holding column-store references while vacuum replaces stores.
2. **RowStore, continued**: compose it with TCacheHead, so that DDL can unlink the head while triggers and scans hold it; HOT redirects in `do_vacuum_row_store`.
3. **ToastBuffer**: refcounts with copy-on-write sharing and `tcache_copy_cs_varlena`'s inverted growth test.
4. **T-tree merge**: `do_try_merge_tcnode` and the merge recursion, checked as operators over small trees against range union. This would expose the `Max` used for `blkno_min` and `try_merge_right_recurse` calling the left recursion, even though no caller reaches them today.
5. **Tracked buffers over the real arena**: ShmemTrack uses a pool; composing it with ShmemArena would check that cleanup's frees coalesce correctly while other processes allocate.
6. **Refinement**: abstract "set of disjoint owned intervals" specification of the arena, with ShmemArena shown to implement it on the states where its known bugs do not fire.

## 5. Not modelled

- Code generation and EXPLAIN/GUC code: text production with no state to explore.
- The data-store loaders: data formatting.
- Catalog manipulation in `pgstrom_assign_synchronizer`: DDL against PostgreSQL catalogs.
- The OpenCL server that consumes queues: not in this repository.
- The columnizer loop (tcache.c:3297–3493): its only input, `tc_common->pending_list`, is never pushed by any code, so the worker never gets a head and changes no shared state. Its latch is never reset, so after the first `pgstrom_wakeup_columnizer` (a row store pushed on `trs_list`) it spins instead of sleeping. RowStore shows the consequence: `trs_list` only grows.
- The toast buffer: `tcs->cdata[i].toast` starts NULL (tcache.c:359) and nothing creates it, so the first varlena insert dereferences NULL (tcache.c:1850) before any of the buffer logic runs.
- Torn reads of a row store's tuple headers: the readers of a row store returned by a scan (the OpenCL server) are not in this repository.
