---------------------------- MODULE MC_ChronosDb ----------------------------
(* Model-checking instance of ChronosDb: two ids, one reader, one snapshot *)
(* builder, the GC thread and one COMPACT request.                         *)
EXTENDS ChronosDb

CONSTANTS k1, k2, r1, b1, gc, admin

MCKeys == {k1, k2}
MCReaders == {r1}
MCBuilders == {b1}
MCCompactors == {gc, admin}
(* The GC thread keeps 10 versions, more than any id gets here; a client  *)
(* COMPACT may pass any u64, 1 being the smallest that keeps a version.   *)
MCLimitsFull == [c \in MCCompactors |-> IF c = gc THEN {GcRetention} ELSE {1}]
MCOneKey == {k1}
MCNoReaders == {}
MCNoBuilders == {}
MCNoCompactors == {}
MCOnlyAdmin == {admin}
MCOnlyGc == {gc}
=============================================================================
