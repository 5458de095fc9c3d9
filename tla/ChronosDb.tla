------------------------------ MODULE ChronosDb ------------------------------
(***************************************************************************)
(* The primary store of src/lib.rs (ChronosDb) with the threads that use   *)
(* it concurrently:                                                        *)
(*   - the writer: the Raft state-machine task, which applies Insert,     *)
(*     Delete and install-snapshot (restore) one at a time;               *)
(*   - Readers: client connection tasks running get_latest, get_as_of    *)
(*     and get_history;                                                    *)
(*   - Builders: snapshot-building tasks running ChronosDb::snapshot;     *)
(*   - Compactors: the GC thread (manager.rs) and client COMPACT requests *)
(*     (server.rs), both running ChronosDb::compact.                       *)
(*                                                                         *)
(* Every step is one critical section of the code: a lock taken, the work *)
(* done under it, the lock released.  Locks held across steps are the     *)
(* index write lock and the segment mutex of compact(), and the index     *)
(* read lock of snapshot().  std's RwLock prefers writers: a read lock is *)
(* not granted while a writer holds or waits for the lock.                 *)
(*                                                                         *)
(* The HNSW graph is abstracted to the set of ids that have a node (see   *)
(* HnswIndex for the graph itself); the bloom filter to the set of ids    *)
(* inserted since it was created (a false positive only leads to an index *)
(* miss, which returns the same None as the bloom miss).                   *)
(***************************************************************************)
EXTENDS Naturals, Sequences, FiniteSets, SequencesExt

CONSTANTS
    Keys,             \* record ids (u128)
    Readers,          \* client tasks issuing reads
    Builders,         \* snapshot-building tasks
    Compactors,       \* GC thread and COMPACT requests
    CompactLimits,    \* [Compactors -> SUBSET Nat]: history limits each one passes
    MaxOps,           \* bound on writer operations (also the timestamps used)
    MaxCompactions,   \* bound on compactions started
    FsFaults,         \* whether open/append/remove/rename may fail
    Hole, NoRec, NoFile

ASSUME MaxOps \in Nat /\ MaxCompactions \in Nat /\ FsFaults \in BOOLEAN
ASSUME \A c \in Compactors : CompactLimits[c] \subseteq Nat

Seg == INSTANCE Segment

Canon == "wal"              \* node_<id>_wal.dat
Compacted == "compacted"    \* old_path.with_extension("compacted")
Paths == {Canon, Compacted}
Inodes == 1 .. MaxCompactions + 1
Rec == [key : Keys, ts : 1 .. MaxOps]
Slot == Rec \cup {Hole}

VARIABLES
    dir,     \* directory: path -> inode, or NoFile
    disk,    \* inode -> sequence of slots
    seg,     \* active_segment: the open Segment handle
    index,   \* id -> offsets (an absent id and an empty list behave alike)
    bloom,   \* ids inserted into the bloom filter
    graph,   \* ids with a node in the HNSW graph
    wr,      \* the writer's program state
    rd,      \* readers' program states
    bl,      \* builders' program states
    cp,      \* compactors' program states
    snap,    \* the last snapshot built (records, one per id)
    ops,     \* writer operations started
    ncomp,   \* compactions started
    nino     \* next fresh inode

vars == <<dir, disk, seg, index, bloom, graph, wr, rd, bl, cp, snap, ops, ncomp, nino>>

-----------------------------------------------------------------------------
(* Locks *)

IdxWriteHeld == \E c \in Compactors : cp[c].pc \in {"lock_seg", "body"}
IdxReadHeld  == \E b \in Builders : bl[b].pc = "read"
SegHeld      == \E c \in Compactors : cp[c].pc = "body"
(* A writer blocked in index.write(): it keeps new readers out.            *)
WriterWaiting ==
    \/ \E c \in Compactors : cp[c].pc = "lock_idx"
    \/ wr.pc \in {"ins_index", "del_index", "rs_index"}
(* Mutant: a read lock that does not yield to a waiting writer.          *)
CanReadNoPref == ~IdxWriteHeld
CanRead  == ~IdxWriteHeld /\ ~WriterWaiting
CanWrite == ~IdxWriteHeld /\ ~IdxReadHeld

-----------------------------------------------------------------------------
(* A thread's local state once its operation has returned. *)
WriterIdle == [pc |-> "idle", key |-> NoRec, rec |-> NoRec, off |-> 0,
               todo |-> <<>>, restoring |-> FALSE]
ReaderIdle == [pc |-> "idle", op |-> "latest", key |-> NoRec, t |-> 0, offs |-> <<>>]
BuilderIdle == [pc |-> "idle", left |-> {}, acc |-> <<>>]
CompactorIdle == [pc |-> "idle", limit |-> 0]

Init ==
    /\ dir = [p \in Paths |-> IF p = Canon THEN 1 ELSE NoFile]
    /\ disk = [i \in Inodes |-> <<>>]
    /\ seg = Seg!Open(Canon, 1, <<>>)
    /\ index = [k \in Keys |-> <<>>]
    /\ bloom = {}
    /\ graph = {}
    /\ wr = WriterIdle
    /\ rd = [r \in Readers |-> ReaderIdle]
    /\ bl = [b \in Builders |-> BuilderIdle]
    /\ cp = [c \in Compactors |-> CompactorIdle]
    /\ snap = <<>>
    /\ ops = 0
    /\ ncomp = 0
    /\ nino = 2

-----------------------------------------------------------------------------
(* The writer: ChronosDb::insert, delete and restore.                      *)

(* Mutant: the record is stamped with the count before this operation.   *)
StartInsertStale(k) ==
    /\ wr.pc = "idle" /\ ops < MaxOps
    /\ wr' = [wr EXCEPT !.pc = "ins_seg", !.key = k, !.rec = [key |-> k, ts |-> ops]]
    /\ ops' = ops + 1
    /\ UNCHANGED <<dir, disk, seg, index, bloom, graph, rd, bl, cp, snap, ncomp, nino>>

StartInsert(k) ==
    /\ wr.pc = "idle" /\ ops < MaxOps
    /\ wr' = [wr EXCEPT !.pc = "ins_seg", !.key = k, !.rec = [key |-> k, ts |-> ops + 1]]
    /\ ops' = ops + 1
    /\ UNCHANGED <<dir, disk, seg, index, bloom, graph, rd, bl, cp, snap, ncomp, nino>>

(* segment.append under the segment mutex; an I/O error returns Err (and   *)
(* aborts a restore through its `?`).                                      *)
InsertAppend ==
    /\ wr.pc = "ins_seg" /\ ~SegHeld
    /\ LET a == Seg!AppendRecord(seg, disk[seg.ino], wr.rec) IN
       \/ /\ disk' = [disk EXCEPT ![seg.ino] = a.data]
          /\ seg' = a.h
          /\ wr' = [wr EXCEPT !.pc = "ins_bloom", !.off = a.offset]
       \/ /\ FsFaults
          /\ wr' = WriterIdle
          /\ UNCHANGED <<disk, seg>>
    /\ UNCHANGED <<dir, index, bloom, graph, rd, bl, cp, snap, ops, ncomp, nino>>

InsertBloom ==
    /\ wr.pc = "ins_bloom"
    /\ bloom' = bloom \cup {wr.key}
    /\ wr' = [wr EXCEPT !.pc = "ins_index"]
    /\ UNCHANGED <<dir, disk, seg, index, graph, rd, bl, cp, snap, ops, ncomp, nino>>

(* idx.entry(id).or_insert_with(Vec::new).push(offset) *)
InsertIndex ==
    /\ wr.pc = "ins_index" /\ CanWrite
    /\ index' = [index EXCEPT ![wr.key] = Append(@, wr.off)]
    /\ wr' = [wr EXCEPT !.pc = "ins_graph"]
    /\ UNCHANGED <<dir, disk, seg, bloom, graph, rd, bl, cp, snap, ops, ncomp, nino>>

InsertGraph ==
    /\ wr.pc = "ins_graph"
    /\ graph' = graph \cup {wr.key}
    /\ wr' = IF wr.restoring THEN [wr EXCEPT !.pc = "rs_next"] ELSE WriterIdle
    /\ UNCHANGED <<dir, disk, seg, index, bloom, rd, bl, cp, snap, ops, ncomp, nino>>

StartDelete(k) ==
    /\ wr.pc = "idle" /\ ops < MaxOps
    /\ wr' = [wr EXCEPT !.pc = "del_index", !.key = k]
    /\ ops' = ops + 1
    /\ UNCHANGED <<dir, disk, seg, index, bloom, graph, rd, bl, cp, snap, ncomp, nino>>

DeleteIndex ==
    /\ wr.pc = "del_index" /\ CanWrite
    /\ index' = [index EXCEPT ![wr.key] = <<>>]
    /\ wr' = [wr EXCEPT !.pc = "del_graph"]
    /\ UNCHANGED <<dir, disk, seg, bloom, graph, rd, bl, cp, snap, ops, ncomp, nino>>

DeleteGraph ==
    /\ wr.pc = "del_graph"
    /\ graph' = graph \ {wr.key}
    /\ wr' = WriterIdle
    /\ UNCHANGED <<dir, disk, seg, index, bloom, rd, bl, cp, snap, ops, ncomp, nino>>

(* restore(bytes): the records to re-insert are the last snapshot built.  *)
StartRestore ==
    /\ wr.pc = "idle" /\ ops < MaxOps
    /\ wr' = [wr EXCEPT !.pc = "rs_index", !.todo = snap, !.restoring = TRUE]
    /\ ops' = ops + 1
    /\ UNCHANGED <<dir, disk, seg, index, bloom, graph, rd, bl, cp, snap, ncomp, nino>>

(* Mutant: restore that leaves the old index in place.                    *)
RestoreIndexKeep ==
    /\ wr.pc = "rs_index" /\ CanWrite
    /\ wr' = [wr EXCEPT !.pc = "rs_bloom"]
    /\ UNCHANGED <<dir, disk, seg, index, bloom, graph, rd, bl, cp, snap, ops, ncomp, nino>>

RestoreIndex ==
    /\ wr.pc = "rs_index" /\ CanWrite
    /\ index' = [k \in Keys |-> <<>>]
    /\ wr' = [wr EXCEPT !.pc = "rs_bloom"]
    /\ UNCHANGED <<dir, disk, seg, bloom, graph, rd, bl, cp, snap, ops, ncomp, nino>>

RestoreBloom ==
    /\ wr.pc = "rs_bloom"
    /\ bloom' = {}
    /\ wr' = [wr EXCEPT !.pc = "rs_graph"]
    /\ UNCHANGED <<dir, disk, seg, index, graph, rd, bl, cp, snap, ops, ncomp, nino>>

RestoreGraph ==
    /\ wr.pc = "rs_graph"
    /\ graph' = {}
    /\ wr' = [wr EXCEPT !.pc = "rs_next"]
    /\ UNCHANGED <<dir, disk, seg, index, bloom, rd, bl, cp, snap, ops, ncomp, nino>>

(* for record in records { self.insert(record)? } *)
RestoreNext ==
    /\ wr.pc = "rs_next"
    /\ wr' = IF wr.todo = <<>>
             THEN WriterIdle
             ELSE [wr EXCEPT !.pc = "ins_seg", !.rec = Head(wr.todo),
                             !.key = Head(wr.todo).key, !.todo = Tail(wr.todo)]
    /\ UNCHANGED <<dir, disk, seg, index, bloom, graph, rd, bl, cp, snap, ops, ncomp, nino>>

-----------------------------------------------------------------------------
(* Readers: get_latest, get_as_of(t) and get_history.  Each checks the     *)
(* bloom filter, copies what it needs from the index under the read lock,  *)
(* then reads one offset per read_record call, each under the segment      *)
(* mutex.                                                                  *)

ReadOps == {"latest", "asof", "history"}
Times == 0 .. MaxOps

StartRead(r, op, k, t) ==
    /\ rd[r].pc = "idle"
    /\ rd' = [rd EXCEPT ![r] = [pc |-> "bloom", op |-> op, key |-> k, t |-> t, offs |-> <<>>]]
    /\ UNCHANGED <<dir, disk, seg, index, bloom, graph, wr, bl, cp, snap, ops, ncomp, nino>>

ReadBloom(r) ==
    /\ rd[r].pc = "bloom"
    /\ rd' = [rd EXCEPT ![r] = IF rd[r].key \in bloom THEN [@ EXCEPT !.pc = "index"]
                                                       ELSE ReaderIdle]
    /\ UNCHANGED <<dir, disk, seg, index, bloom, graph, wr, bl, cp, snap, ops, ncomp, nino>>

(* latest: the last offset; as_of: all of them, newest first; history:    *)
(* all of them in append order.  No entry returns None / an empty list.    *)
ReadIndex(r) ==
    /\ rd[r].pc = "index" /\ CanRead
    /\ LET o == index[rd[r].key]
           offs == CASE rd[r].op = "latest" -> IF o = <<>> THEN <<>> ELSE <<Last(o)>>
                     [] rd[r].op = "asof"   -> Reverse(o)
                     [] rd[r].op = "history" -> o
       IN rd' = [rd EXCEPT ![r] = IF offs = <<>> THEN ReaderIdle
                                  ELSE [@ EXCEPT !.pc = "read", !.offs = offs]]
    /\ UNCHANGED <<dir, disk, seg, index, bloom, graph, wr, bl, cp, snap, ops, ncomp, nino>>

(* read_record(offset): Segment::read moves the shared cursor.  get_as_of  *)
(* stops at the first record with start <= t (every end is u64::MAX).      *)
ReadSegment(r) ==
    /\ rd[r].pc = "read" /\ ~SegHeld
    /\ LET o == Head(rd[r].offs)
           d == disk[seg.ino]
           rec == Seg!ReadRec(d, o)
           found == rd[r].op = "asof" /\ rec # NoRec /\ rec.ts <= rd[r].t
           done == rd[r].op = "latest" \/ found \/ Tail(rd[r].offs) = <<>>
       IN /\ seg' = [seg EXCEPT !.pos = Seg!CursorAfterRead(d, o)]
          /\ rd' = [rd EXCEPT ![r] = IF done THEN ReaderIdle
                                     ELSE [@ EXCEPT !.offs = Tail(@)]]
    /\ UNCHANGED <<dir, disk, index, bloom, graph, wr, bl, cp, snap, ops, ncomp, nino>>

-----------------------------------------------------------------------------
(* Builders: ChronosDb::snapshot holds the index read lock while it reads  *)
(* the last version of every id, in HashMap order.                          *)

StartSnapshot(b) ==
    /\ bl[b].pc = "idle"
    /\ bl' = [bl EXCEPT ![b].pc = "lock"]
    /\ UNCHANGED <<dir, disk, seg, index, bloom, graph, wr, rd, cp, snap, ops, ncomp, nino>>

SnapshotLock(b) ==
    /\ bl[b].pc = "lock" /\ CanRead
    /\ bl' = [bl EXCEPT ![b] = [pc |-> "read", acc |-> <<>>,
                                left |-> {k \in Keys : index[k] # <<>>}]]
    /\ UNCHANGED <<dir, disk, seg, index, bloom, graph, wr, rd, cp, snap, ops, ncomp, nino>>

SnapshotRead(b) ==
    /\ bl[b].pc = "read" /\ ~SegHeld
    /\ \E k \in bl[b].left :
         LET o == Last(index[k])
             d == disk[seg.ino]
             rec == Seg!ReadRec(d, o)
         IN /\ seg' = [seg EXCEPT !.pos = Seg!CursorAfterRead(d, o)]
            /\ bl' = [bl EXCEPT ![b].left = @ \ {k},
                                ![b].acc = IF rec = NoRec THEN @ ELSE Append(@, rec)]
    /\ UNCHANGED <<dir, disk, index, bloom, graph, wr, rd, cp, snap, ops, ncomp, nino>>

SnapshotDone(b) ==
    /\ bl[b].pc = "read" /\ bl[b].left = {}
    /\ snap' = bl[b].acc
    /\ bl' = [bl EXCEPT ![b] = BuilderIdle]
    /\ UNCHANGED <<dir, disk, seg, index, bloom, graph, wr, rd, cp, ops, ncomp, nino>>

-----------------------------------------------------------------------------
(* Compactors: ChronosDb::compact(history_limit).                           *)

(* manager.rs start_gc_thread: every 600 s, compact(10), an Err logged and *)
(* the loop continued.  The GC compactor restarts with this limit each     *)
(* time it is idle; the period is not timed.                                *)
GcRetention == 10

StartCompact(c, l) ==
    /\ cp[c].pc = "idle" /\ ncomp < MaxCompactions
    /\ cp' = [cp EXCEPT ![c] = [pc |-> "lock_idx", limit |-> l]]
    /\ ncomp' = ncomp + 1
    /\ UNCHANGED <<dir, disk, seg, index, bloom, graph, wr, rd, bl, snap, ops, nino>>

(* 1. GLOBAL LOCK: index write lock, then the segment mutex. *)
CompactLockIndex(c) ==
    /\ cp[c].pc = "lock_idx" /\ CanWrite
    /\ cp' = [cp EXCEPT ![c].pc = "lock_seg"]
    /\ UNCHANGED <<dir, disk, seg, index, bloom, graph, wr, rd, bl, snap, ops, ncomp, nino>>

CompactLockSegment(c) ==
    /\ cp[c].pc = "lock_seg" /\ ~SegHeld
    /\ cp' = [cp EXCEPT ![c].pc = "body"]
    /\ UNCHANGED <<dir, disk, seg, index, bloom, graph, wr, rd, bl, snap, ops, ncomp, nino>>

(* Mutant: keeps the first history_limit offsets instead of the last.     *)
KeptOldest(offs, limit) ==
    SubSeq(offs, 1, IF Len(offs) > limit THEN limit ELSE Len(offs))

(* Retention policy: the last history_limit offsets of an id. *)
Kept(offs, limit) ==
    LET start == IF Len(offs) > limit THEN Len(offs) - limit ELSE 0
    IN SubSeq(offs, start + 1, Len(offs))

(* The (id, offset) pairs to copy, ids in the given iteration order. *)
CopyList(order, limit) ==
    FlattenSeq([i \in 1 .. Len(order) |->
                  LET ks == Kept(index[order[i]], limit)
                  IN [j \in 1 .. Len(ks) |-> <<order[i], ks[j]>>]])

(* 3. Iterate & copy: read each kept offset through the old handle (src), *)
(* append it to the new segment.  A failed read skips the version; an      *)
(* append that fails (after n successful ones) aborts with Err.  When the  *)
(* new segment is the old file itself, reads see the copies written.       *)
RECURSIVE CopyLive(_, _, _)
CopyLive(ps, st, src) ==
    IF ps = <<>> \/ st.failed THEN st
    ELSE LET k == Head(ps)[1]
             o == Head(ps)[2]
             sd == IF src = st.h.ino THEN st.data ELSE disk[src]
             rec == Seg!ReadRec(sd, o)
             st1 == [st EXCEPT !.opos = Seg!CursorAfterRead(sd, o)]
         IN IF rec = NoRec THEN CopyLive(Tail(ps), st1, src)
            ELSE IF st.n = 0 THEN [st1 EXCEPT !.failed = TRUE]
            ELSE LET a == Seg!AppendRecord(st1.h, st1.data, rec)
                 IN CopyLive(Tail(ps),
                             [st1 EXCEPT !.data = a.data, !.h = a.h, !.n = @ - 1,
                                         !.idx[k] = Append(@, a.offset)],
                             src)

(* Steps 2 to 5 run with both locks held, so they are one step here.      *)
CompactBody(c) ==
    /\ cp[c].pc = "body"
    /\ cp' = [cp EXCEPT ![c] = CompactorIdle]
    /\ LET np == Compacted
           reuse == dir[np] # NoFile
           ino == IF reuse THEN dir[np] ELSE nino
           d0 == IF reuse THEN disk[ino] ELSE <<>>
           dir1 == [dir EXCEPT ![np] = ino]
       IN
       \/ (* 2. Segment::new(new_path) fails *)
          /\ FsFaults
          /\ UNCHANGED <<dir, disk, seg, index, nino>>
       \/ /\ nino' = IF reuse THEN nino ELSE nino + 1
          /\ \E order \in SetToSeqs({k \in Keys : index[k] # <<>>}) :
             LET ps == CopyList(order, cp[c].limit)
                 st0 == [data |-> d0, h |-> Seg!Open(np, ino, d0), opos |-> seg.pos,
                         idx |-> [k \in Keys |-> <<>>], n |-> Len(ps), failed |-> FALSE]
             IN \E n \in (IF FsFaults THEN 0 .. Len(ps) ELSE {Len(ps)}) :
                LET st == CopyLive(ps, [st0 EXCEPT !.n = n], seg.ino)
                    disk1 == [disk EXCEPT ![ino] = st.data]
                IN
                \/ (* an append failed: index and segment untouched, the *)
                   (* partly written .compacted file stays behind       *)
                   /\ st.failed
                   /\ dir' = dir1 /\ disk' = disk1 /\ index' = index
                   /\ seg' = [seg EXCEPT !.pos = st.opos]
                \/ /\ ~st.failed
                   /\ disk' = disk1
                   /\ index' = st.idx     \* 4. swap
                   /\ \E removed \in (IF FsFaults THEN BOOLEAN ELSE {TRUE}) :
                      \/ (* 5. remove_file(old) fails: Ok, segment stays at new_path *)
                         /\ ~removed
                         /\ dir' = dir1 /\ seg' = st.h
                      \/ /\ removed
                         /\ seg.path = np           \* rename(np, np): source is gone
                         /\ dir' = [dir1 EXCEPT ![seg.path] = NoFile]
                         /\ seg' = st.h
                      \/ /\ removed
                         /\ seg.path # np
                         /\ \E renamed \in (IF FsFaults THEN BOOLEAN ELSE {TRUE}) :
                            IF renamed
                            THEN (* rename, then Segment::new(&old_path) *)
                                 /\ dir' = [dir1 EXCEPT ![seg.path] = ino, ![np] = NoFile]
                                 /\ seg' = Seg!Open(seg.path, ino, st.data)
                            ELSE /\ dir' = [dir1 EXCEPT ![seg.path] = NoFile]
                                 /\ seg' = st.h
    /\ UNCHANGED <<bloom, graph, wr, rd, bl, snap, ops, ncomp>>

-----------------------------------------------------------------------------
WriterStep ==
    \/ InsertAppend \/ InsertBloom \/ InsertIndex \/ InsertGraph
    \/ DeleteIndex \/ DeleteGraph
    \/ RestoreIndex \/ RestoreBloom \/ RestoreGraph \/ RestoreNext
ReaderStep(r) == ReadBloom(r) \/ ReadIndex(r) \/ ReadSegment(r)
BuilderStep(b) == SnapshotLock(b) \/ SnapshotRead(b) \/ SnapshotDone(b)
CompactorStep(c) == CompactLockIndex(c) \/ CompactLockSegment(c) \/ CompactBody(c)

Next ==
    \/ \E k \in Keys : StartInsert(k) \/ StartDelete(k)
    \/ StartRestore
    \/ WriterStep
    \/ \E r \in Readers : \/ \E op \in ReadOps, k \in Keys, t \in Times :
                               /\ (op = "asof" \/ t = 0)
                               /\ StartRead(r, op, k, t)
                          \/ ReaderStep(r)
    \/ \E b \in Builders : StartSnapshot(b) \/ BuilderStep(b)
    \/ \E c \in Compactors : \/ \E l \in CompactLimits[c] : StartCompact(c, l)
                             \/ CompactorStep(c)

Spec == Init /\ [][Next]_vars

(* Every thread that has started an operation is scheduled: OS threads and *)
(* tokio tasks that are runnable eventually run.  Starting an operation is *)
(* not fair: clients, the GC timer and Raft decide when.                   *)
FairSpec ==
    /\ Spec
    /\ WF_vars(WriterStep)
    /\ \A r \in Readers : WF_vars(ReaderStep(r))
    /\ \A b \in Builders : WF_vars(BuilderStep(b))
    /\ \A c \in Compactors : WF_vars(CompactorStep(c))

-----------------------------------------------------------------------------
(* Properties *)

TypeOK ==
    /\ dir \in [Paths -> Inodes \cup {NoFile}]
    /\ disk \in [Inodes -> Seq(Slot)]
    /\ seg \in [path : Paths, ino : Inodes, pos : Nat, off : Nat]
    /\ index \in [Keys -> Seq(Nat)]
    /\ bloom \subseteq Keys /\ graph \subseteq Keys
    /\ wr.pc \in {"idle", "ins_seg", "ins_bloom", "ins_index", "ins_graph", "del_index",
                  "del_graph", "rs_index", "rs_bloom", "rs_graph", "rs_next"}
    /\ \A r \in Readers : rd[r].pc \in {"idle", "bloom", "index", "read"}
    /\ \A b \in Builders : bl[b].pc \in {"idle", "lock", "read"}
    /\ \A c \in Compactors : cp[c].pc \in {"idle", "lock_idx", "lock_seg", "body"}
    /\ snap \in Seq(Rec)
    /\ ops \in 0 .. MaxOps /\ ncomp \in 0 .. MaxCompactions /\ nino \in 1 .. MaxCompactions + 2

(* I4: the bloom filter holds every id present in the index, so the bloom *)
(* check in get_latest/get_as_of/get_history never hides a stored id.  It  *)
(* rests on the order of insert (bloom before index) and of restore        *)
(* (index cleared before the filter is recreated).                          *)
BloomCoversIndex == \A k \in Keys : index[k] # <<>> => k \in bloom

(* The slots at k's offsets in the active segment, oldest first. *)
Recs(k) == [i \in 1 .. Len(index[k]) |-> Seg!ReadRec(disk[seg.ino], index[k][i])]

(* What get_history returns of them: an unreadable slot is skipped. *)
Readable(s) == SelectSeq(s, LAMBDA r : r # NoRec)

(* The most recent n elements of s. *)
Newest(s, n) == SubSeq(s, IF Len(s) > n THEN Len(s) - n + 1 ELSE 1, Len(s))

(* P7 with the error policy of section 7: a compact(K) with K >= 1 either  *)
(* leaves every id's history as it was, or leaves each id exactly the      *)
(* readable ones of its K most recent versions, for all ids at once.  It rests on the copy *)
(* loop appending in offset order, the swap of index and segment, and the  *)
(* cleanup (remove, rename, reopen) keeping the copies where the new       *)
(* offsets say they are, whichever of these steps fails.                   *)
CompactionRetains ==
    [][\A c \in Compactors :
         (cp[c].pc = "body" /\ cp'[c].pc = "idle" /\ cp[c].limit >= 1)
            => \/ \A k \in Keys : Readable(Recs(k))' = Readable(Recs(k))
               \/ \A k \in Keys : Readable(Recs(k))' = Readable(Newest(Recs(k), cp[c].limit))]_vars

(* P1, append-read round trip: when insert pushes the offset append        *)
(* returned, reading that offset yields the record it appended.             *)
RoundTrip ==
    [][(wr.pc = "ins_index" /\ wr'.pc = "ins_graph")
         => Seg!ReadRec(disk[seg.ino], wr.off) = wr.rec]_vars

(* No two index entries name the same offset (I2: each key's list holds   *)
(* the offsets of distinct appends).                                        *)
OffsetsUnique ==
    \A k1, k2 \in Keys :
      \A i \in 1 .. Len(index[k1]), j \in 1 .. Len(index[k2]) :
        <<k1, i>> # <<k2, j>> => index[k1][i] # index[k2][j]

(* Every operation a thread starts finishes: no thread waits forever for  *)
(* the index lock or the segment mutex.                                     *)
OpsComplete ==
    /\ wr.pc # "idle" ~> wr.pc = "idle"
    /\ \A r \in Readers : rd[r].pc # "idle" ~> rd[r].pc = "idle"
    /\ \A b \in Builders : bl[b].pc # "idle" ~> bl[b].pc = "idle"
    /\ \A c \in Compactors : cp[c].pc # "idle" ~> cp[c].pc = "idle"
=============================================================================
