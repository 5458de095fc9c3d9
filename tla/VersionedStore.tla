--------------------------- MODULE VersionedStore ---------------------------
(***************************************************************************)
(* The state of the Raft state machine of ChronosDB as a function of the   *)
(* cluster's committed log (spec 4.6 and I6): applying the first k         *)
(* committed entries, in order, to the empty state.  ChronosStore uses it  *)
(* for the data of a leader's snapshot and to state what a snapshot's      *)
(* metadata must match.                                                    *)
(*                                                                         *)
(* The data is the latest-version set (a snapshot carries only that): for *)
(* each id, the version start of its latest version, or 0 for none.  A     *)
(* version start is the index of the entry that wrote it.  The stored      *)
(* membership is the last membership entry applied, tagged with its index. *)
(***************************************************************************)
EXTENDS Naturals, Sequences

CONSTANTS
    Ids,      \* record ids
    Cmds,     \* commands: [op |-> "insert"/"update"/"delete", arg |-> id],
              \* [op |-> "membership", arg |-> config], [op |-> "blank", ...]
    Terms,    \* Raft terms
    NoCfg     \* the default (empty) membership

Entries == [term : Terms, cmd : Cmds]
NoData == [i \in Ids |-> 0]
NoMem == [idx |-> 0, cfg |-> NoCfg]

(* The data after a command of entry t: Insert writes a version, Update  *)
(* writes one only for an id that has one, Delete drops the id.            *)
Step(d, c, t) ==
    CASE c.op = "insert" -> [d EXCEPT ![c.arg] = t]
      [] c.op = "update" -> IF d[c.arg] # 0 THEN [d EXCEPT ![c.arg] = t] ELSE d
      [] c.op = "delete" -> [d EXCEPT ![c.arg] = 0]
      [] OTHER           -> d

MemStep(m, c, t) == IF c.op = "membership" THEN [idx |-> t, cfg |-> c.arg] ELSE m

(* The state after the first k committed entries. *)
RECURSIVE DataAt(_, _)
DataAt(l, k) == IF k = 0 THEN NoData ELSE Step(DataAt(l, k - 1), l[k].cmd, k)

RECURSIVE MemAt(_, _)
MemAt(l, k) == IF k = 0 THEN NoMem ELSE MemStep(MemAt(l, k - 1), l[k].cmd, k)

=============================================================================
