---------------------------- MODULE ChronosStore ----------------------------
(***************************************************************************)
(* The Raft storage of src/cluster/store.rs (ChronosStore) on one node,    *)
(* with the calls openraft makes on it and the admin /build-snapshot      *)
(* request of src/cluster/api.rs.                                          *)
(*                                                                         *)
(* Store state: the in-memory log (a BTreeMap from index to entry, here a *)
(* function on a set of indices), last_purged_log_id, vote,               *)
(* stored_membership, current_snapshot and the ChronosDb it applies to,   *)
(* abstracted to its latest-version set (id -> version start, 0 for none; *)
(* ChronosDb.tla models how that set is stored).  A request's ts is the   *)
(* index of its entry.                                                     *)
(*                                                                         *)
(* Environment (openraft and the cluster, not code of this repository):   *)
(* clog, the cluster's committed log, and applied, openraft's last        *)
(* applied index.  openraft calls append_to_log with entries from the     *)
(* leader, delete_conflict_logs_since for uncommitted conflicting         *)
(* entries, apply_to_state_machine for the next committed entry,          *)
(* build_snapshot in a task of its own, install_snapshot with a leader's  *)
(* snapshot, and purge_logs_upto for applied entries a snapshot covers.   *)
(***************************************************************************)
EXTENDS Naturals, Sequences, FiniteSets, TLC

CONSTANTS
    Ids,        \* record ids
    Cmds,       \* request payloads, as in VersionedStore
    MaxTerm,    \* bound on the cluster's term
    MaxRestarts,\* bound on process restarts
    MaxIndex,   \* bound on log indices
    NoCfg,      \* the default membership
    NoLog,      \* Option<LogId>::None
    NoSnap      \* no current snapshot

Terms == 1 .. MaxTerm

VARIABLES
    log,         \* index -> [term, cmd]
    purged,      \* last_purged_log_id: [term, index] or NoLog
    vote,        \* the saved vote's term, 0 for None
    membership,  \* stored_membership: [idx, cfg]
    snap,        \* current_snapshot: [last, mem, data] or NoSnap
    db,          \* the state machine's data
    bd,          \* the build_snapshot task: [pc, data]
    adm,         \* the /build-snapshot request: [pc, target]
    clog,        \* the cluster's committed log (environment)
    applied,     \* openraft's last applied index (environment)
    term,        \* the cluster's current term (environment)
    restarts     \* process restarts so far

vars == <<log, purged, vote, membership, snap, db, bd, adm, clog, applied, term, restarts>>

VS == INSTANCE VersionedStore

LogId(t, i) == [term |-> t, index |-> i]
MaxKey(S) == CHOOSE i \in S : \A j \in S : j <= i
Least(S) == CHOOSE i \in S : \A j \in S : i <= j
PurgedIdx == IF purged = NoLog THEN 0 ELSE purged.index
TailId == LogId(log[MaxKey(DOMAIN log)].term, MaxKey(DOMAIN log))

(* get_log_state: the last entry's id, or last_purged_log_id when the log *)
(* is empty; metrics.last_log_index is its index, 0 for None.             *)
LastLogId == IF DOMAIN log = {} THEN purged ELSE TailId
LastLogIndex == IF LastLogId = NoLog THEN 0 ELSE LastLogId.index

(* log.range(..) kept by the two truncations. *)
(* Mutant: range(index + 1..), which keeps the conflicting entry itself. *)
KeepBelowAfter(i) == [j \in {x \in DOMAIN log : x <= i} |-> log[j]]
KeepBelow(i) == [j \in {x \in DOMAIN log : x < i} |-> log[j]]
KeepAbove(i) == [j \in {x \in DOMAIN log : x > i} |-> log[j]]

BuilderIdle == [pc |-> "idle", data |-> VS!NoData]
AdminIdle == [pc |-> "idle", target |-> 0]

Init ==
    /\ log = <<>>
    /\ purged = NoLog
    /\ vote = 0
    /\ membership = VS!NoMem
    /\ snap = NoSnap
    /\ db = VS!NoData
    /\ bd = BuilderIdle
    /\ adm = AdminIdle
    /\ clog = <<>>
    /\ applied = 0
    /\ term = 1
    /\ restarts = 0

-----------------------------------------------------------------------------
(* The log store. *)

(* save_vote: openraft saves the vote of the current term's leader when  *)
(* its first message of that term arrives.                                 *)
SaveVote ==
    /\ vote < term
    /\ vote' = term
    /\ UNCHANGED <<term, restarts, log, purged, membership, snap, db, bd, adm, clog, applied>>

(* append_to_log: log.insert(index, entry).  The entry at the next index  *)
(* is the committed one when the cluster has committed it, otherwise a new *)
(* entry of the current term.                                              *)
AppendToLog ==
    LET n == LastLogIndex + 1
        incoming == IF n <= Len(clog) THEN {clog[n]}
                    ELSE {[term |-> term, cmd |-> c] : c \in Cmds}
    IN /\ n <= MaxIndex /\ vote = term
       /\ \E e \in incoming : log' = (n :> e) @@ log
       /\ UNCHANGED <<term, restarts, purged, vote, membership, snap, db, bd, adm, clog, applied>>

(* delete_conflict_logs_since: remove every key >= i.  openraft calls it  *)
(* when a leader of a newer term has another entry at i: one that is not  *)
(* committed, or differs from the committed one.                           *)
DeleteConflictLogsSince(i) ==
    /\ vote = term
    /\ i \in DOMAIN log /\ i > applied /\ log[i].term < term
    /\ i <= Len(clog) => log[i] # clog[i]
    /\ log' = KeepBelow(i)
    /\ UNCHANGED <<term, restarts, purged, vote, membership, snap, db, bd, adm, clog, applied>>

(* purge_logs_upto: last_purged_log_id := lid, then remove every key <=   *)
(* lid.index.                                                              *)
Purge(lid) ==
    /\ purged' = lid
    /\ log' = KeepAbove(lid.index)

(* openraft purges applied entries its snapshot covers ("0 in-snapshot   *)
(* logs kept"), by the id of a log entry or of the snapshot.              *)
PurgeLogsUpto ==
    /\ snap # NoSnap
    /\ \E lid \in {LogId(log[i].term, i) : i \in DOMAIN log} \cup {snap.last} :
          /\ PurgedIdx < lid.index
          /\ lid.index <= snap.last.index /\ lid.index <= applied
          /\ Purge(lid)
    /\ UNCHANGED <<term, restarts, vote, membership, snap, db, bd, adm, clog, applied>>

(* The cluster commits the next entry: this node's, or one of the current *)
(* term from elsewhere unless this node holds that term's entry there     *)
(* (Raft's log matching; environment).                                     *)
Commit ==
    LET n == Len(clog) + 1
        mine == IF n \in DOMAIN log THEN {log[n]} ELSE {}
        other == IF n \in DOMAIN log /\ log[n].term = term THEN {}
                 ELSE {[term |-> term, cmd |-> c] : c \in Cmds}
    IN /\ n <= MaxIndex
       /\ \E e \in mine \cup other :
             clog' = Append(clog, e)
       /\ UNCHANGED <<term, restarts, log, purged, vote, membership, snap, db, bd, adm, applied>>

(* A leader of a newer term is elected elsewhere (environment). *)
NewTerm ==
    /\ term < MaxTerm
    /\ term' = term + 1
    /\ UNCHANGED <<log, purged, vote, membership, snap, db, bd, adm, clog, applied, restarts>>

-----------------------------------------------------------------------------
(* apply_to_state_machine, one entry per call: openraft reads the next    *)
(* committed entry with try_get_log_entries and applies it.               *)

(* EntryPayload::Normal: the db call run on spawn_blocking and awaited.   *)
(* Update calls get_latest first; without a version it returns Err, which *)
(* is dropped like every result.  Membership and Blank leave the db.      *)
ApplyNormal(d, req, ts) ==
    CASE req.op = "insert" -> [d EXCEPT ![req.arg] = ts]
      [] req.op = "update" -> IF d[req.arg] # 0 THEN [d EXCEPT ![req.arg] = ts] ELSE d
      [] req.op = "delete" -> [d EXCEPT ![req.arg] = 0]
      [] OTHER             -> d

(* Mutant: the membership tagged with the next index instead of its own. *)
StoreMembershipNext(m, e, n) ==
    IF e.cmd.op = "membership" THEN [idx |-> n + 1, cfg |-> e.cmd.arg] ELSE m

(* EntryPayload::Membership: StoredMembership::new(Some(log_id), mem). *)
StoreMembership(m, e, n) ==
    IF e.cmd.op = "membership" THEN [idx |-> n, cfg |-> e.cmd.arg] ELSE m

ApplyToStateMachine ==
    LET n == applied + 1 IN
    /\ n <= Len(clog) /\ n \in DOMAIN log /\ log[n] = clog[n]
    /\ db' = ApplyNormal(db, log[n].cmd, n)
    /\ membership' = StoreMembership(membership, log[n], n)
    /\ applied' = n
    /\ UNCHANGED <<term, restarts, log, purged, vote, snap, bd, adm, clog>>

-----------------------------------------------------------------------------
(* build_snapshot, in a task of its own beside apply: db.snapshot() on    *)
(* spawn_blocking (the latest-version set, taken under the index lock),   *)
(* then, once it returns, last_log_id from the log's last entry           *)
(* (unwrap_or_default when the log is empty) and the stored membership.  *)

BuildSnapshotData ==
    /\ bd.pc = "idle"
    /\ bd' = [pc |-> "meta", data |-> db]
    /\ UNCHANGED <<term, restarts, log, purged, vote, membership, snap, db, adm, clog, applied>>

BuildSnapshotMeta ==
    /\ bd.pc = "meta"
    /\ snap' = [last |-> IF DOMAIN log = {} THEN LogId(0, 0) ELSE TailId,
                mem  |-> membership,
                data |-> bd.data]
    /\ bd' = BuilderIdle
    /\ UNCHANGED <<term, restarts, log, purged, vote, membership, db, adm, clog, applied>>

(* install_snapshot of the leader's snapshot of the first k committed     *)
(* entries: db.restore(data), stored_membership and last_purged_log_id    *)
(* from its meta, and the snapshot cached; openraft then takes k as       *)
(* applied.  The snapshot received is a correct one: a leader's snapshot  *)
(* comes from the same build_snapshot, whose metadata may name entries    *)
(* its data lacks (SnapshotMatchesMeta), and restore is taken to succeed. *)
InstallSnapshot(k) ==
    LET meta == [last |-> LogId(clog[k].term, k), mem |-> VS!MemAt(clog, k),
                 data |-> VS!DataAt(clog, k)]
    IN /\ applied < k /\ k <= Len(clog)
       /\ db' = meta.data
       /\ membership' = meta.mem
       /\ purged' = meta.last
       /\ snap' = meta
       /\ applied' = k
       /\ UNCHANGED <<term, restarts, log, vote, bd, adm, clog>>

-----------------------------------------------------------------------------
(* POST /build-snapshot: take metrics.last_log_index as the target (0:   *)
(* return at once), trigger a snapshot, poll until the snapshot's index   *)
(* reaches the target or 300 polls time out, then purge_log(target).      *)

AdminStart ==
    /\ adm.pc = "idle" /\ LastLogIndex # 0
    /\ adm' = [pc |-> "poll", target |-> LastLogIndex]
    /\ UNCHANGED <<term, restarts, log, purged, vote, membership, snap, db, bd, clog, applied>>

SnapshotReached == snap # NoSnap /\ snap.last.index >= adm.target

AdminPoll ==
    /\ adm.pc = "poll" /\ SnapshotReached
    /\ adm' = [adm EXCEPT !.pc = "purge"]
    /\ UNCHANGED <<term, restarts, log, purged, vote, membership, snap, db, bd, clog, applied>>

AdminTimeout ==
    /\ adm.pc = "poll" /\ ~SnapshotReached
    /\ adm' = AdminIdle
    /\ UNCHANGED <<term, restarts, log, purged, vote, membership, snap, db, bd, clog, applied>>

(* openraft's purge_log(target) purges up to the snapshot's index, and   *)
(* (taken here) never past the applied index.                              *)
AdminPurge ==
    LET up == Least({adm.target, snap.last.index, applied})
    IN /\ adm.pc = "purge"
       /\ IF up > PurgedIdx /\ up \in DOMAIN log
          THEN Purge(LogId(log[up].term, up))
          ELSE UNCHANGED <<term, restarts, log, purged>>
       /\ adm' = AdminIdle
       /\ UNCHANGED <<term, restarts, vote, membership, snap, db, bd, clog, applied>>

-----------------------------------------------------------------------------
(* The process stops and main.rs starts it again.  Everything ChronosStore *)
(* holds is in memory and ChronosStore::new starts empty (no log, vote,    *)
(* snapshot or membership); ChronosDb::new reopens the segment file but    *)
(* starts with an empty index, so no id is readable; last_applied_state    *)
(* returns None, so openraft takes nothing as applied.  The running        *)
(* snapshot task and admin request die with the process.                   *)
Restart ==
    /\ restarts < MaxRestarts
    /\ restarts' = restarts + 1
    /\ log' = <<>>
    /\ purged' = NoLog
    /\ vote' = 0
    /\ membership' = VS!NoMem
    /\ snap' = NoSnap
    /\ db' = VS!NoData
    /\ bd' = BuilderIdle
    /\ adm' = AdminIdle
    /\ applied' = 0
    /\ UNCHANGED <<clog, term>>

-----------------------------------------------------------------------------
Next ==
    \/ SaveVote
    \/ AppendToLog
    \/ \E i \in 1 .. MaxIndex : DeleteConflictLogsSince(i)
    \/ PurgeLogsUpto
    \/ Commit
    \/ ApplyToStateMachine
    \/ BuildSnapshotData
    \/ BuildSnapshotMeta
    \/ \E k \in 1 .. MaxIndex : InstallSnapshot(k)
    \/ AdminStart
    \/ AdminPoll
    \/ AdminTimeout
    \/ AdminPurge
    \/ NewTerm
    \/ Restart

Spec == Init /\ [][Next]_vars

(* The leader's heartbeats reach this node (save_vote of its term), its    *)
(* replication task resends its entries until this node's log matches      *)
(* (append_to_log, delete_conflict_logs_since), and openraft's state-      *)
(* machine worker applies every committed entry it can read.               *)
(* Votes, commits, snapshots, purges and admin requests come from the      *)
(* cluster, its timers and clients, and are not fair.                      *)
FairSpec ==
    /\ Spec
    /\ WF_vars(SaveVote)
    /\ WF_vars(AppendToLog)
    /\ WF_vars(\E i \in 1 .. MaxIndex : DeleteConflictLogsSince(i))
    /\ WF_vars(ApplyToStateMachine)

-----------------------------------------------------------------------------
(* Properties. *)

LogIds == {LogId(t, i) : t \in 0 .. MaxTerm, i \in 0 .. MaxIndex}
Mems == [idx : 0 .. MaxIndex, cfg : {c.arg : c \in Cmds} \cup {NoCfg}]
Snaps == [last : LogIds, mem : Mems, data : [Ids -> 0 .. MaxIndex]]

TypeOK ==
    /\ DOMAIN log \subseteq 1 .. MaxIndex
    /\ \A i \in DOMAIN log : log[i] \in VS!Entries
    /\ purged \in LogIds \cup {NoLog}
    /\ vote \in 0 .. MaxTerm /\ term \in Terms /\ vote <= term
    /\ restarts \in 0 .. MaxRestarts
    /\ membership \in Mems
    /\ snap \in Snaps \cup {NoSnap}
    /\ db \in [Ids -> 0 .. MaxIndex]
    /\ bd.pc \in {"idle", "meta"} /\ adm.pc \in {"idle", "poll", "purge"}
    /\ applied \in 0 .. Len(clog) /\ Len(clog) <= MaxIndex

(* Every entry the cluster commits is eventually applied on this node,     *)
(* whatever purges, snapshot installs, vote changes and admin requests do  *)
(* in between: the log store must never lose a committed entry it has not  *)
(* applied, nor keep a conflicting one in its place.                       *)
CommittedApplied == \A n \in 1 .. MaxIndex : Len(clog) >= n ~> applied >= n

(* Raft's snapshot contract: the metadata of the cached snapshot names    *)
(* the committed entry up to which its data and membership were applied. *)
(* build_snapshot takes last_log_id from the log's last entry, after      *)
(* db.snapshot() returned, rather than from what that data applied.       *)
SnapshotMatchesMeta ==
    snap # NoSnap =>
        LET k == snap.last.index IN
        /\ k <= Len(clog)
        /\ k > 0 => snap.last.term = clog[k].term
        /\ snap.data = VS!DataAt(clog, k)
        /\ snap.mem = VS!MemAt(clog, k)
=============================================================================
