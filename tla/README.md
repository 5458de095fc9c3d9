# TLA+ models of chronos-db

This directory holds TLA+ models of the chronos-db storage engine (`src/src/lib.rs`,
`src/src/storage.rs`), of the threads that use it concurrently, of the HNSW index, and
and of the Raft store and snapshot admin route (`src/src/cluster/`). It also holds the TLC
configurations that check them. `PROJECT.json` lists the following:
- every component and whether it is modelled;
- every TLC run and what it shows;
- the mutants that show each passing property can fail;
- the source lines each definition translates;
- the findings and the hazards of the code.

## The system

A node runs one `ChronosDb` (lib.rs) shared by several actors:

- **The Raft state machine** (`cluster/store.rs`). `apply_to_state_machine` runs
  Insert, Update and Delete one entry at a time. `install_snapshot` runs `restore`. Both
  go through `spawn_blocking` and are awaited, so the store has one writer at a time.
- **Client connections** (`server.rs`). GET, GET_AS_OF and HISTORY call `get_latest`,
  `get_as_of` and `get_history` directly, concurrently with everything else. COMPACT
  runs `compact(limit)` on the blocking pool.
  The write opcodes (INSERT, UPDATE, DELETE) build a `ChronosRequest` and await
  `raft.client_write`, answering "OK" on `Ok` and "ER" on `Err`; a connection handles
  one request at a time, and the CLI waits for each reply.
- **Snapshot building** (`build_snapshot`). openraft runs it beside apply; it calls
  `ChronosDb::snapshot`.
- **The GC thread** (`manager.rs`). It calls `compact(10)` every 600 s (`GcRetention` in `ChronosDb`), whatever the last call returned.
- **The Raft log store** (`cluster/store.rs`). An in-memory `BTreeMap` from index to
  entry, with the vote, the last purged log id, the stored membership and the cached
  snapshot beside it. openraft calls `append_to_log`, `delete_conflict_logs_since` and
  `purge_logs_upto` on it.
- **The admin API** (`cluster/api.rs`). `POST /build-snapshot` reads
  `metrics.last_log_index` as its target and triggers a snapshot. It then polls up to
  300 times, 100 ms apart, until the snapshot's index reaches the target, and finally
  calls `purge_log(target)`.

`ChronosDb` has the following state:
- a `Mutex<Segment>`, the append-only file (`storage.rs`);
- an `RwLock` index from id to the offsets of its versions;
- an `RwLock` bloom filter (`filter.rs`);
- the HNSW graph (`index.rs`), which has its own locks.

`insert` appends under the segment mutex, then adds to the bloom filter, then pushes the
offset under the index write lock, then inserts into the graph. Each step is a separate
critical section. A read copies offsets under the index read lock, releases it, and then
reads each offset under the segment mutex. `compact` holds the index write lock and
then the segment mutex for its whole run.

Two facts of `storage.rs` drive most of the results:
- The file is opened without `O_APPEND`, so `write_all` writes at the OS cursor, while
  `append` returns `current_offset`.
- `Segment::read` works on `file.try_clone()`. That is a duplicated descriptor, which
  shares the cursor, so every read moves the position of the next append.

## Modules

| Module | Models | State and actions |
|---|---|---|
| `Segment` | `storage.rs` | Operators only. A file is a sequence of record slots, and an offset is a slot index. A handle is `[path, ino, pos, off]`, with `pos` the OS cursor and `off` `current_offset`. `Open` is `Segment::new`, with the cursor at 0 and off at the length. `AppendRecord` writes at `pos` and returns `off`. `ReadRec` and `CursorAfterRead` model `read`. A zero-filled slot (`Hole`), left by a write past the end, reads as a failure; deserialising it is undefined behaviour. |
| `ChronosDb` | `lib.rs` and its callers | Variables: the directory (`dir`, path to inode), the file contents (`disk`), the active handle (`seg`), `index`, `bloom`, `graph` (the ids with a node), and the program counter of each thread (`wr`, `rd`, `bl`, `cp`). Each action is one critical section of the code, listed below. |
| `HnswIndex` | `index.rs` (with `vector.rs`'s distance) | Variables: `nodes` (id to `[vec, conns]`, `conns[l+1]` being layer `l`), `ep` (`entry_point`), `maxLayer`, `poisoned` (a thread panicked under the locks), the writer `wr` and the searchers `sr`. Details below. |
| `MC_HnswIndex` | model values for TLC | ids `n1, n2, n3` (symmetric), vectors at 0, 1 and 3 on a line, searcher `s1`. |
| `VersionedStore` | spec 4.6 and I6 (abstract) | Operators only: the state machine as a function of the committed log. `Step` and `MemStep` apply one command; the recursive `DataAt(l, k)` and `MemAt(l, k)` give the data (id to the start of its latest version, 0 for none) and the membership after the first k entries. `ChronosStore` uses them for the leader's snapshot and in `SnapshotMatchesMeta`. |
| `ChronosStore` | `cluster/store.rs`, `/build-snapshot` in `cluster/api.rs` | Variables: `log` (a function from index to `[term, cmd]`), `purged`, `vote` (its term), `membership`, `snap` (the cached snapshot: `[last, mem, data]`), `db` (the latest-version set that `ChronosDb::snapshot` serialises), `bd` (the snapshot task) and `adm` (the admin request). openraft is the environment: `clog`, `applied` and `Commit`. Details below. |
| `MC_ChronosStore` | model values for TLC | one id `k1`, and the commands insert, update and delete of `k1` plus membership `c1`. |
| `MC_ChronosDb` | model values for TLC | ids `k1, k2`, reader `r1`, builder `b1`, compactors `gc` (limit 10) and `admin` (a COMPACT request with limit 1). |

The actions of `ChronosDb` are:
- **Writer:** `StartInsert`, `InsertAppend`, `InsertBloom`, `InsertIndex`, `InsertGraph`;
  `StartDelete`, `DeleteIndex`, `DeleteGraph`; `StartRestore`, `RestoreIndex`,
  `RestoreBloom`, `RestoreGraph`, `RestoreNext`. `restore` re-inserts the last snapshot
  built through the same insert actions.
- **Reader:** `StartRead` (op latest, asof or history), `ReadBloom`, `ReadIndex`,
  `ReadSegment`. There is one `ReadSegment` per `read_record` call, and each one moves
  the shared cursor.
- **Builder:** `StartSnapshot`, `SnapshotLock`, `SnapshotRead` (one id at a time, in any
  order, because it is a HashMap), `SnapshotDone`.
- **Compactor:** `StartCompact`, `CompactLockIndex`, `CompactLockSegment`, `CompactBody`.

`CompactBody` is steps 2 to 5 of `compact`, which run under both locks:
- open `<path>.compacted` without truncating it;
- copy the last K offsets of each id, in any id order (`Kept`, `CopyList`, and the
  recursive `CopyLive`), reading through the old handle and moving its cursor;
- swap the index and the segment;
- `remove_file`, then `rename`, then reopen at the canonical path.

With `FsFaults`, each of these file operations may fail, and the failure takes the
branch the code takes on that error.

`HnswIndex` keeps the control of `index.rs` and abstracts the data. A vector is a natural
and the distance is `|a - b|`, because insert and search only compare distances.
- **Greedy descent.** It is built from recursive operators. `Scan` is one pass of `for
  neighbor in candidates`. `Climb` is the `while changed` loop. `InsDescend` is insert's
  upper-layer walk: it stops at a missing node or a node without the layer, and it
  reports a panic when a hop lands on a node without layer `lc` (line 108). `SrchDescend`
  is search's zoom-in, which checks the layer and so never panics. `Expand` is the
  layer-0 expansion, and `Search(q)` is the id set that `search` returns.
- **Insert.** `InsertEffect` is the whole body under the three write locks. It covers the
  first node, the descent, linking on layers up to `min(layers, max_layer)`, the peer's
  back link (`PeerLinked`, where `pop()` undoes a push past `m_max`), replacing the node,
  and raising the entry point. The level `L` is chosen in `StartInsert`/`StartUpdate`
  from `0..MaxLevel` (`select_level`).
- **Writer.** One thread, because ChronosDb calls the index from the Raft apply task. Its
  operations are insert of a new id, re-insert, Update (the old vector with a fresh
  level, `store.rs` 110-125), remove and clear. Insert locks `entry_point`, `max_layer`,
  then `nodes` (`WriterLock`, `InsertBody`). Clear locks `nodes`, `entry_point`, then
  `max_layer`.
- **Searchers.** A searcher locks `nodes` then `entry_point` for reading. It returns
  early if the entry point is absent or its node was removed.
- **Panics.** Once a holder panics, the lock is poisoned, and every later `.unwrap()`
  ends that operation.

`ChronosStore` has one action per method of the store, and each action is the whole
method:
- `SaveVote`, `AppendToLog`, `DeleteConflictLogsSince(i)`, and `PurgeLogsUpto`. The
  last calls `Purge`, which is `purge_logs_upto`.
- `ApplyToStateMachine` applies one committed entry. `ApplyNormal` is the Normal arm,
  where Update writes only if `get_latest` finds a version. `StoreMembership` is the
  Membership arm, and Blank leaves everything unchanged.
- `InstallSnapshot(k)` installs the leader's snapshot of the first k committed entries.
- `BuildSnapshotData` then `BuildSnapshotMeta` model `build_snapshot`. The data is taken
  in the first step. The meta's `last_log_id` is read from the log's tail in the
  second, with `LogId(0,0)` for an empty log.
- `AdminStart`, `AdminPoll`, `AdminTimeout` and `AdminPurge` model `/build-snapshot`.
- `Restart` is a process restart. The store is created afresh (`ChronosStore::new`,
  `ChronosDb::new` with an empty index): the log, vote, membership, snapshot, db and
  `applied` are all lost, because every one of them is in memory. The committed log
  `clog` and the current term `term` belong to the cluster and survive.
- `NewTerm` is the cluster moving to a later term. `vote` is this node's saved vote,
  at most `term`: `SaveVote` catches it up, and only a node whose vote is the current
  term appends or deletes entries, which stands for openraft's leader/follower checks.

What the model assumes of openraft, which is not in this repository:
- It appends only the committed entry at a committed index.
- It deletes only entries of an older term that are not committed.
- It applies only a committed entry that this node holds.
- Both of its purges stop at the snapshot's index and at the applied index.

Given these assumptions, and `InstallSnapshot` installing only correct snapshots, the
db always equals `DataAt(clog, applied)`: a refinement of a "state machine of the
committed log" would hold by construction, so none is checked. What the store code
itself decides, and the run checks, is whether the log store keeps every committed
entry this node has yet to apply (`CommittedApplied`).

Locks: `IdxWriteHeld`, `IdxReadHeld` and `SegHeld` come from the program counters. std's
`RwLock` on Linux prefers writers, so `CanRead` is false while a writer holds or waits
for the index lock (`WriterWaiting`).

## Runs

| Run | Config | Expect | What it shows |
|---|---|---|---|
| views | `MC_ChronosDb.cfg` | pass | P7 and section 7: each compaction without faults either leaves every id's readable history as it was, or leaves every id exactly the readable part of its K newest versions (`CompactionRetains`, an action property over the compaction's last step). The bounds are 2 ids, 1 reader, both compactors, 3 writer ops and 2 compactions, about 1.6 M states. |
| faults | `MC_ChronosDb_faults.cfg` | pass | Snapshot, restore and two GC compactions run with every file operation allowed to fail. The bloom filter still covers the index (I4, `BloomCoversIndex`), including when a restore aborts part-way. About 2.2 M states. |
| live | `MC_ChronosDb_live.cfg` | pass | Under weak fairness, every started operation returns (`OpsComplete`). |
| roundtrip | `MC_ChronosDb_roundtrip.cfg` | violation | P1 fails. The trace is two inserts of k1, a HISTORY read of offset 0 that moves the cursor to 1, then an insert that overwrites slot 1 and indexes offset 2. |
| race | `MC_ChronosDb_race.cfg` | violation | An insert appends, the GC thread compacts, and then the insert pushes its pre-compaction offset into the new index, where the next append writes another version (`OffsetsUnique`). |
| hnsw | `MC_HnswIndex.cfg` | pass | All five writer operations with `m_max` 1, levels 0 and 1, 3 operations, and a concurrent searcher. `Search(q)` is exactly `{c}` plus the layer-0 descendants of the node `c` that the zoom-in lands on, computed with the community `Graphs` module (`SearchMatchesReference`). About 25 k states. Deadlock is not checked, because the index really can deadlock (next rows). |
| hnsw_prune | `MC_HnswIndex_prune.cfg` | violation | `Retrievable` fails. Three inserts with `m_max` 1: the third node's back link is popped, so a search for its own vector misses it. This contradicts spec 4.5 ("bidirectionally ... drop its oldest"). |
| hnsw_panic | `MC_HnswIndex_panic.cfg` | violation | `NoPanic` fails. Insert n1 at level 1, insert n2 at level 1, Update n2 to level 0, then insert n3 at level 0. n3's walk on layer 1 hops from n1 to n2, which no longer has layer 1, and `connections[1]` panics under all three write locks. |
| hnsw_deadlock | `MC_HnswIndex_deadlock.cfg` | violation | `NoLockCycle` fails. An insert holds `entry_point` and waits for `nodes`, while a search holds `nodes` and waits for `entry_point`. |
| leftover | `MC_ChronosDb_leftover.cfg` | violation | A compaction fails part-way and leaves `.compacted`. The next compaction reopens that file with the cursor at 0 and the offsets at its end, and the histories are neither kept nor cut to their K newest versions (`CompactionRetains`). The run finds the copy failure first. In a copy of the model where only `remove_file` and `rename` may fail, TLC still finds the same violation, through a segment left at `.compacted`. |
| store | `MC_ChronosStore.cfg` | pass | Two terms, indices up to 2, every store, snapshot and admin action interleaved, and at most one restart. Under `FairSpec` every committed index is eventually applied (`CommittedApplied`), again after a restart that loses the log, the snapshot and the db. About 410 k states, under a minute. If openraft's purge were bounded only by the snapshot's index, not by the applied index, this property fails: a snapshot labelled with an unapplied tail entry lets `/build-snapshot` purge that entry first (hazard `api.rs:119`). |
| snapmeta | `MC_ChronosStore_snapmeta.cfg` | violation | `SnapshotMatchesMeta` fails. An uncommitted membership entry is appended, the snapshot task takes the data, and the meta names the log's tail, that entry, which the data never applied. |

The `mutants` in `PROJECT.json` each break one passing property:
- `KeptOldest` keeps the first K offsets instead of the last K;
- `RestoreIndexKeep` is a restore that forgets to clear the index;
- `StartInsertStale` is a timestamp off by one, which breaks `ChronosDb`'s `TypeOK`;
- `InsertEffectShort` allocates `layers` adjacency lists instead of `layers + 1`, which
  breaks `TypeOK`;
- `ExpandOnce` stops the layer-0 expansion after one hop;
- `StoreMembershipNext` tags the stored membership with the next index, which breaks
  `TypeOK`;
- `KeepBelowAfter` makes the log purge keep the entries at or below the index instead of
  above it; a restarted follower then can never re-apply, and `CommittedApplied` fails;
- `CanReadNoPref` is a reader-preferring lock. Under it, repeated snapshots starve the
  compactor, and `OpsComplete` fails.

## Bounds

Why these bounds are enough:
- **Two ids:** enough for one id's stale offset to land on the other's version.
- **Three writer operations:** enough for an id with two versions (so retention with
  limit 1 drops one) plus an insert racing the compaction.
- **Two compactions:** needed for the second to meet the file or the path the first
  left behind. The `.compacted` path of a segment already at `.compacted` is that same
  path, which the model keeps.
- **One reader:** enough to move the shared cursor.
- **One builder:** enough to hold the read lock against a compactor.

For `HnswIndex`:
- **Three ids** let a node be the peer of two others, which is when pruning acts with
  `m_max` 1.
- **Levels 0 and 1** are enough for an upper layer to go stale.
- **Four operations** in the panic run are the shortest sequence that panics: two
  inserts, an Update, and an insert.
- **Vectors at 0, 1 and 3:** every greedy step has a strictly closer neighbour or none.

For `ChronosStore`:
- **One id** with insert, update and delete already tells apart an Update that hits a
  version from one that misses.
- **Two indices and two terms** are enough for a conflicting entry to be appended,
  deleted and replaced. They are also enough for a snapshot to label its data with an
  unapplied tail entry, and for a purge to empty the log. Index 3 grows the run past
  7 M states.
- **One restart** (`MaxRestarts`) already loses a purged log and a non-empty db, after
  which re-applying needs a snapshot; a second restart only repeats that.

Offsets are slot indices. Every frame is the same size, which keeps the overwrite
behaviour exact at the granularity of records.

The runs are split to stay within minutes:
- The builder and restore paths multiply the state space, so they are in the fault run
  without a reader.
- The liveness run uses one id, no reader and only the GC compactor. Liveness checking
  evaluates the fairness conditions on every transition.

## Fairness

`FairSpec` assumes weak fairness of each thread's continuation steps: `WriterStep`,
`ReaderStep(r)`, `BuilderStep(b)` and `CompactorStep(c)`. They are OS threads or
blocking-pool tasks, and the runtime eventually runs any of them that is runnable.
Starting an operation is not fair. Clients, Raft and the GC timer decide when to start
one, and the model lets them never do so.

`ChronosStore`'s `FairSpec` assumes weak fairness of `SaveVote`, `AppendToLog`,
`DeleteConflictLogsSince` and `ApplyToStateMachine`. openraft drives all four: the
leader's heartbeats and replication keep sending a lagging follower the entries it
lacks (which makes it save the vote, delete its conflicting tail and append), and the
apply worker applies every committed entry the node holds. `NewTerm`, `Restart`,
`Commit`, snapshots and purges are not fair: the cluster may stop electing, committing
or crashing at any point.

## Not modelled, and the plan

The following are not modelled yet:
- The bloom filter's bits (a set of ids stands for it).
- In `ChronosDb`, the HNSW graph beyond node presence (`HnswIndex` models it on its own).
- Floating-point distances, the cosine metric, and the top-k cut of search results.
- `HnswIndex::save`/`load` (file I/O, never called by the server).
- Failing db calls inside the Raft store: `ChronosStore` applies each of them as a
  success, and `ChronosDb` is not composed with it.
- `ChronosDb` restarting over its existing segment file (the store-level restart is
  `Restart` in `ChronosStore`).
- The vote lost on restart (`store.rs:56`): a node may vote twice in a term, which only
  a model of the other voters could show.
- The CLI sends UPDATE as an insert with a zero vector (`cli.rs:95-101`), and a payload
  over 65008 bytes, which spec line 32 allows, exceeds the server's 65536-byte body cap
  (`server.rs:76`): the connection is dropped and the CLI panics (`cli.rs:128`).
- The client write handlers (`server.rs` 111-178). They await `raft.client_write` and
  answer "OK" or "ER". With openraft answering after the apply, and snapshots installed
  correctly, a model of one node can only restate that. Their real hazards need several
  nodes: an "ER" for an entry that a new leader commits later (a retry writes twice,
  `server.rs:142`), and a GET after "OK" on a node that installed a leader's snapshot
  whose metadata names entries its data lacks (the snapmeta finding). The framing error
  paths (`server.rs:76`, `:185`) are single comparisons.
- The network, the admin API's init and membership routes, and the CLI (command parsing
  and a blocking client with no shared state).

The next steps, in order:
1. Done: **`HnswIndex`**. Still open: the entry-point-removed case (hazard
   `index.rs:175`).
2. Done: **`ChronosStore`**, with **`VersionedStore`**'s operators, together with the
   `/build-snapshot` sequence.
3. Done for P7 (`CompactionRetains`). Still open: P6, the snapshot round trip.
4. Open: **several nodes**, to reach the client-visible cases of the snapshot label and
   of "ER" for a later-committed write.
5. Done at the store level (`Restart`, `CommittedApplied`). Still open: `ChronosDb`
   reopening its segment file.
