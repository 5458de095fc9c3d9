---------------------------- MODULE MC_HnswIndex ----------------------------
(* Model-checking instance of HnswIndex: three ids, vectors on a line at   *)
(* 0, 1 and 3 (no two pairs equally far apart from a stored vector's      *)
(* point of view except by symmetry of the line), one searcher.            *)
EXTENDS HnswIndex

CONSTANTS n1, n2, n3, s1

MCIds == {n1, n2, n3}
MCVals == {0, 1, 3}
MCSearchers == {s1}
MCNoSearchers == {}
MCAllOps == {"insert", "reinsert", "update", "remove", "clear"}
MCInsertOnly == {"insert"}
MCInsertUpdate == {"insert", "update"}
(* Ids are interchangeable: nothing in index.rs orders them. *)
MCSymmetry == Permutations(MCIds)
=============================================================================
