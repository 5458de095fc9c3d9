--------------------------- MODULE MC_ChronosStore ---------------------------
(* Model-checking instance of ChronosStore: one id, one membership config, *)
(* the three request kinds and a membership entry.                     *)
EXTENDS ChronosStore

CONSTANTS k1, c1

MCIds == {k1}
MCCmds == {[op |-> "insert", arg |-> k1], [op |-> "update", arg |-> k1],
           [op |-> "delete", arg |-> k1], [op |-> "membership", arg |-> c1]}
=============================================================================
