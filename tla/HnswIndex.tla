------------------------------ MODULE HnswIndex ------------------------------
(***************************************************************************)
(* The HNSW vector index of src/index.rs with the threads that use it:    *)
(*   - the writer: ChronosDb::insert, delete and restore on the Raft       *)
(*     apply task call insert, remove and clear; an Update re-inserts the *)
(*     id with its old vector and a fresh random level;                   *)
(*   - Searchers: client SEARCH requests (server.rs handle_search).       *)
(*                                                                         *)
(* The graph: nodes is a function from the ids that have a node to         *)
(* [vec, conns], conns a sequence of layers (layer l is conns[l+1]), each  *)
(* a sequence of neighbour ids, dangling ones included.  A vector is a     *)
(* point of Vals and the metric |a - b|: search and insert only compare    *)
(* distances.                                                               *)
(*                                                                         *)
(* Locks: nodes, entry_point and max_layer are three std RwLocks.  insert *)
(* and clear take all three for writing, remove takes nodes, search takes *)
(* all three for reading.  Once a holder panics the lock is poisoned and  *)
(* every later .unwrap() on it panics too.                                 *)
(***************************************************************************)
EXTENDS Naturals, Sequences, FiniteSets, Functions, TLC

CONSTANTS
    Ids,          \* node ids (u128)
    Vals,         \* vectors, a finite set of naturals
    Searchers,    \* client tasks running search
    MMax,         \* m_max (16 in ChronosDb::new)
    MaxLevel,     \* bound on select_level's geometric draw
    MaxOps,       \* bound on writer operations
    WriterOps,    \* the writer operations a run allows: "insert" of a new id,
                  \* "reinsert" of an id with a node (new vector), "update"
                  \* (old vector), "remove", "clear"
    NoId

ASSUME MMax \in Nat \ {0} /\ MaxLevel \in Nat /\ MaxOps \in Nat
ASSUME WriterOps \subseteq {"insert", "reinsert", "update", "remove", "clear"}

VARIABLES
    nodes,      \* id -> [vec, conns]
    ep,         \* entry_point: an id or NoId
    maxLayer,   \* max_layer
    poisoned,   \* a thread panicked while holding the locks
    wr,         \* the writer's program state
    sr,         \* searchers' program states
    ops         \* writer operations started

vars == <<nodes, ep, maxLayer, poisoned, wr, sr, ops>>

Dist(a, b) == IF a > b THEN a - b ELSE b - a
MinOf(a, b) == IF a < b THEN a ELSE b
Live == DOMAIN nodes

-----------------------------------------------------------------------------
(* Greedy search of one layer, shared by insert and search.               *)

(* One pass of `for neighbor in candidates`: move to every neighbour that *)
(* has a node and is strictly closer than the best so far.                 *)
RECURSIVE Scan(_, _, _)
Scan(cands, q, st) ==
    IF cands = <<>> THEN st
    ELSE LET nb == Head(cands)
             d == IF nb \in Live THEN Dist(q, nodes[nb].vec) ELSE st.d
         IN Scan(Tail(cands), q, IF nb \in Live /\ d < st.d THEN [cur |-> nb, d |-> d] ELSE st)

(* `while changed`: passes over the current node's layer-lc neighbours    *)
(* until one changes nothing.  stuck: the current node has no layer lc, *)
(* which insert indexes without a check.                                   *)
RECURSIVE Climb(_, _, _, _)
Climb(cur, dmin, lc, q) ==
    IF lc >= Len(nodes[cur].conns) THEN [cur |-> cur, stuck |-> TRUE]
    ELSE LET st == Scan(nodes[cur].conns[lc + 1], q, [cur |-> cur, d |-> dmin])
         IN IF st.d < dmin THEN Climb(st.cur, st.d, lc, q)
            ELSE [cur |-> cur, stuck |-> FALSE]

(* insert, "traverse upper layers": lc from max_layer down to layers+1;   *)
(* stops at a missing node or a node without layer lc; panics when a hop *)
(* lands on a node without layer lc (nodes_guard[&curr_obj].connections[lc]). *)
RECURSIVE InsDescend(_, _, _, _)
InsDescend(cur, lc, lo, v) ==
    IF lc < lo \/ cur \notin Live THEN [cur |-> cur, panic |-> FALSE]
    ELSE IF lc >= Len(nodes[cur].conns) THEN [cur |-> cur, panic |-> FALSE]
    ELSE LET r == Climb(cur, Dist(v, nodes[cur].vec), lc, v)
         IN IF r.stuck THEN [cur |-> r.cur, panic |-> TRUE]
            ELSE InsDescend(r.cur, lc - 1, lo, v)

(* search, "zoom in": lc from max_layer down to 1, skipping layers the    *)
(* current node lacks; the inner loop checks the layer, so never panics.  *)
RECURSIVE SrchDescend(_, _, _)
SrchDescend(cur, lc, q) ==
    IF lc = 0 THEN cur
    ELSE IF lc >= Len(nodes[cur].conns) THEN SrchDescend(cur, lc - 1, q)
    ELSE SrchDescend(Climb(cur, Dist(q, nodes[cur].vec), lc, q).cur, lc - 1, q)

(* Layer-0 expansion: every neighbour is visited once; those with a node  *)
(* are expanded and collected.                                             *)
(* Mutant: the expansion collects the start's neighbours and stops.      *)
ExpandOnce(frontier, seen) ==
    seen \cup {v \in UNION {Range(nodes[u].conns[1]) : u \in frontier} : v \in Live}

RECURSIVE Expand(_, _)
Expand(frontier, seen) ==
    LET next == {v \in UNION {Range(nodes[u].conns[1]) : u \in frontier} : v \in Live} \ seen
    IN IF next = {} THEN seen ELSE Expand(next, seen \cup next)

(* The ids search(q, k) returns for k at least the number of nodes (the   *)
(* k nearest of them otherwise).  Empty when there is no entry point or   *)
(* its node was removed.                                                   *)
Search(q) ==
    IF ep = NoId \/ ep \notin Live THEN {}
    ELSE LET c == SrchDescend(ep, maxLayer, q) IN Expand({c}, {c})

-----------------------------------------------------------------------------
(* The body of HnswIndex::insert(id, v) with level L, run with the three  *)
(* write locks held.                                                       *)

(* The peer gains a back link on each layer it has; pushing past m_max is *)
(* undone by pop(), which removes the link just pushed.                   *)
PeerLinked(conns, id, top) ==
    [i \in DOMAIN conns |-> IF i - 1 <= top /\ Len(conns[i]) < MMax
                            THEN Append(conns[i], id) ELSE conns[i]]

(* Mutant: a node allocated with `layers` adjacency lists, not layers+1. *)
InsertEffectShort(id, v, L) ==
    IF ep = NoId
    THEN /\ ep' = id /\ maxLayer' = L /\ poisoned' = poisoned
         /\ nodes' = (id :> [vec |-> v, conns |-> [i \in 1 .. L |-> <<>>]]) @@ nodes
    ELSE LET d == InsDescend(ep, maxLayer, L + 1, v)
             ce == d.cur
             top == MinOf(L, maxLayer)
             node == [vec |-> v, conns |-> [i \in 1 .. L |-> IF i - 1 <= top THEN <<ce>>
                                                                 ELSE <<>>]]
             peers == IF ce \in Live
                      THEN [nodes EXCEPT ![ce].conns = PeerLinked(@, id, top)] ELSE nodes
         IN IF d.panic
            THEN /\ poisoned' = TRUE
                 /\ UNCHANGED <<nodes, ep, maxLayer>>
            ELSE /\ poisoned' = poisoned
                 /\ nodes' = (id :> node) @@ peers
                 /\ ep' = IF L > maxLayer THEN id ELSE ep
                 /\ maxLayer' = IF L > maxLayer THEN L ELSE maxLayer

InsertEffect(id, v, L) ==
    IF ep = NoId
    THEN /\ ep' = id /\ maxLayer' = L /\ poisoned' = poisoned
         /\ nodes' = (id :> [vec |-> v, conns |-> [i \in 1 .. L + 1 |-> <<>>]]) @@ nodes
    ELSE LET d == InsDescend(ep, maxLayer, L + 1, v)
             ce == d.cur
             top == MinOf(L, maxLayer)
             node == [vec |-> v, conns |-> [i \in 1 .. L + 1 |-> IF i - 1 <= top THEN <<ce>>
                                                                 ELSE <<>>]]
             peers == IF ce \in Live
                      THEN [nodes EXCEPT ![ce].conns = PeerLinked(@, id, top)] ELSE nodes
         IN IF d.panic
            THEN /\ poisoned' = TRUE
                 /\ UNCHANGED <<nodes, ep, maxLayer>>
            ELSE /\ poisoned' = poisoned
                 /\ nodes' = (id :> node) @@ peers
                 /\ ep' = IF L > maxLayer THEN id ELSE ep
                 /\ maxLayer' = IF L > maxLayer THEN L ELSE maxLayer

-----------------------------------------------------------------------------
(* Locks.  A thread's program counter says which locks it holds and which *)
(* one it waits for ("none" when it waits for nothing).                    *)

WHeldOf(pc) ==
    CASE pc = "ins_ml"    -> {"ep"}
      [] pc = "ins_nodes" -> {"ep", "ml"}
      [] pc = "cl_ep"     -> {"nodes"}
      [] pc = "cl_ml"     -> {"nodes", "ep"}
      [] OTHER            -> {}
WWant(pc) ==
    CASE pc \in {"ins_ep", "cl_ep"} -> "ep"
      [] pc \in {"ins_ml", "cl_ml"} -> "ml"
      [] pc \in {"ins_nodes", "rm_nodes", "cl_nodes"} -> "nodes"
      [] OTHER -> "none"
SHeldOf(pc) ==
    CASE pc = "s_ep" -> {"nodes"}
      [] pc = "s_ml" -> {"nodes", "ep"}
      [] OTHER       -> {}
SWant(pc) ==
    CASE pc = "s_nodes" -> "nodes"
      [] pc = "s_ep"    -> "ep"
      [] pc = "s_ml"    -> "ml"
      [] OTHER          -> "none"

(* write(): no holder at all.  read(): no writer holds or waits for it     *)
(* (std's RwLock on Linux prefers writers).                                *)
CanWriteLock(x) == x \notin WHeldOf(wr.pc) /\ \A s \in Searchers : x \notin SHeldOf(sr[s].pc)
CanReadLock(x) == x \notin WHeldOf(wr.pc) /\ WWant(wr.pc) # x

WriterIdle == [pc |-> "idle", id |-> NoId, v |-> 0, l |-> 0]
SearcherIdle == [pc |-> "idle", q |-> 0]

Init ==
    /\ nodes = <<>>
    /\ ep = NoId
    /\ maxLayer = 0
    /\ poisoned = FALSE
    /\ wr = WriterIdle
    /\ sr = [s \in Searchers |-> SearcherIdle]
    /\ ops = 0

-----------------------------------------------------------------------------
(* The writer.  An operation is started by ChronosDb (insert, delete,     *)
(* restore) on the apply task; L is select_level's draw, capped at        *)
(* MaxLevel.                                                               *)

StartInsert(id, v, L) ==
    /\ wr.pc = "idle" /\ ops < MaxOps
    /\ \/ "insert" \in WriterOps /\ id \notin Live
       \/ "reinsert" \in WriterOps /\ id \in Live
    /\ wr' = [pc |-> "ins_ep", id |-> id, v |-> v, l |-> L]
    /\ ops' = ops + 1
    /\ UNCHANGED <<nodes, ep, maxLayer, poisoned, sr>>

(* Update: insert(id, old_record.vector) with a fresh level. *)
StartUpdate(id, L) ==
    /\ wr.pc = "idle" /\ ops < MaxOps /\ "update" \in WriterOps /\ id \in Live
    /\ wr' = [pc |-> "ins_ep", id |-> id, v |-> nodes[id].vec, l |-> L]
    /\ ops' = ops + 1
    /\ UNCHANGED <<nodes, ep, maxLayer, poisoned, sr>>

StartRemove(id) ==
    /\ wr.pc = "idle" /\ ops < MaxOps /\ "remove" \in WriterOps
    /\ wr' = [WriterIdle EXCEPT !.pc = "rm_nodes", !.id = id]
    /\ ops' = ops + 1
    /\ UNCHANGED <<nodes, ep, maxLayer, poisoned, sr>>

StartClear ==
    /\ wr.pc = "idle" /\ ops < MaxOps /\ "clear" \in WriterOps
    /\ wr' = [WriterIdle EXCEPT !.pc = "cl_nodes"]
    /\ ops' = ops + 1
    /\ UNCHANGED <<nodes, ep, maxLayer, poisoned, sr>>

(* A lock step: take the lock the writer waits for and move to `next`;   *)
(* on a poisoned lock, .unwrap() panics and the operation ends.            *)
WriterLock(from, next) ==
    /\ wr.pc = from /\ CanWriteLock(WWant(from))
    /\ wr' = IF poisoned THEN WriterIdle ELSE [wr EXCEPT !.pc = next]
    /\ UNCHANGED <<nodes, ep, maxLayer, poisoned, sr, ops>>

(* insert: entry_point, then max_layer, then nodes; the body runs with   *)
(* all three held.                                                         *)
InsertBody ==
    /\ wr.pc = "ins_nodes" /\ CanWriteLock("nodes")
    /\ IF poisoned THEN UNCHANGED <<nodes, ep, maxLayer, poisoned>>
                   ELSE InsertEffect(wr.id, wr.v, wr.l)
    /\ wr' = WriterIdle
    /\ UNCHANGED <<sr, ops>>

RemoveBody ==
    /\ wr.pc = "rm_nodes" /\ CanWriteLock("nodes")
    /\ nodes' = IF poisoned THEN nodes ELSE [x \in Live \ {wr.id} |-> nodes[x]]
    /\ wr' = WriterIdle
    /\ UNCHANGED <<ep, maxLayer, poisoned, sr, ops>>

(* clear: nodes, then entry_point, then max_layer. *)
ClearBody ==
    /\ wr.pc = "cl_ml" /\ CanWriteLock("ml")
    /\ IF poisoned THEN UNCHANGED <<nodes, ep, maxLayer>>
                   ELSE /\ nodes' = <<>> /\ ep' = NoId /\ maxLayer' = 0
    /\ wr' = WriterIdle
    /\ UNCHANGED <<poisoned, sr, ops>>

-----------------------------------------------------------------------------
(* Searchers: search(query, k) takes nodes, then entry_point, then        *)
(* max_layer for reading and computes Search(q) with all three held.       *)

StartSearch(s, q) ==
    /\ sr[s].pc = "idle"
    /\ sr' = [sr EXCEPT ![s] = [pc |-> "s_nodes", q |-> q]]
    /\ UNCHANGED <<nodes, ep, maxLayer, poisoned, wr, ops>>

SearchLockNodes(s) ==
    /\ sr[s].pc = "s_nodes" /\ CanReadLock("nodes")
    /\ sr' = [sr EXCEPT ![s] = IF poisoned THEN SearcherIdle ELSE [@ EXCEPT !.pc = "s_ep"]]
    /\ UNCHANGED <<nodes, ep, maxLayer, poisoned, wr, ops>>

(* No entry point, or its node was removed: return an empty result.       *)
SearchLockEp(s) ==
    /\ sr[s].pc = "s_ep" /\ CanReadLock("ep")
    /\ sr' = [sr EXCEPT ![s] = IF poisoned \/ ep = NoId \/ ep \notin Live THEN SearcherIdle
                               ELSE [@ EXCEPT !.pc = "s_ml"]]
    /\ UNCHANGED <<nodes, ep, maxLayer, poisoned, wr, ops>>

SearchBody(s) ==
    /\ sr[s].pc = "s_ml" /\ CanReadLock("ml")
    /\ sr' = [sr EXCEPT ![s] = SearcherIdle]
    /\ UNCHANGED <<nodes, ep, maxLayer, poisoned, wr, ops>>

Next ==
    \/ \E id \in Ids, v \in Vals, L \in 0 .. MaxLevel : StartInsert(id, v, L)
    \/ \E id \in Ids, L \in 0 .. MaxLevel : StartUpdate(id, L)
    \/ \E id \in Ids : StartRemove(id)
    \/ StartClear
    \/ WriterLock("ins_ep", "ins_ml") \/ WriterLock("ins_ml", "ins_nodes") \/ InsertBody
    \/ RemoveBody
    \/ WriterLock("cl_nodes", "cl_ep") \/ WriterLock("cl_ep", "cl_ml") \/ ClearBody
    \/ \E s \in Searchers :
         \/ \E q \in Vals : StartSearch(s, q)
         \/ SearchLockNodes(s) \/ SearchLockEp(s) \/ SearchBody(s)

Spec == Init /\ [][Next]_vars

-----------------------------------------------------------------------------
(* Properties *)

Gr == INSTANCE Graphs

TypeOK ==
    /\ Live \subseteq Ids
    /\ \A n \in Live : /\ nodes[n].vec \in Vals
                       /\ Len(nodes[n].conns) \in 1 .. MaxLevel + 1
                       /\ \A i \in DOMAIN nodes[n].conns : nodes[n].conns[i] \in Seq(Ids)
    /\ ep \in Ids \cup {NoId} /\ maxLayer \in 0 .. MaxLevel /\ poisoned \in BOOLEAN
    /\ wr.pc \in {"idle", "ins_ep", "ins_ml", "ins_nodes", "rm_nodes", "cl_nodes", "cl_ep", "cl_ml"}
    /\ \A s \in Searchers : sr[s].pc \in {"idle", "s_nodes", "s_ep", "s_ml"}
    /\ ops \in 0 .. MaxOps

(* The layer-0 expansion of search returns exactly the live nodes the     *)
(* layer-0 links reach from where the zoom-in ends (reference: Graphs'    *)
(* Descendants over the live part of the graph), whatever dangling links  *)
(* removes have left (I5).                                                 *)
Layer0 == [node |-> Live,
           edge |-> {e \in Live \X Live : e[2] \in Range(nodes[e[1]].conns[1])}]
SearchMatchesReference ==
    \A q \in Vals :
        Search(q) = IF ep = NoId \/ ep \notin Live THEN {}
                    ELSE LET c == SrchDescend(ep, maxLayer, q)
                         IN {c} \cup Gr!Descendants(Layer0, c)

(* Every node is found by a search for its own vector with k at least the *)
(* number of nodes (spec test 4: ids stay returned by SEARCH).  Insert's   *)
(* back link from the peer is what makes a new node reachable.             *)
Retrievable == \A n \in Live : n \in Search(nodes[n].vec)

(* No operation panics inside insert and poisons the index's locks.       *)
NoPanic == ~poisoned

(* No two threads wait for each other's locks.  Searchers only wait for   *)
(* the writer, so every cycle is the writer and one searcher.              *)
NoLockCycle ==
    ~\E s \in Searchers :
        /\ WWant(wr.pc) \in SHeldOf(sr[s].pc)
        /\ SWant(sr[s].pc) \in WHeldOf(wr.pc)
=============================================================================
