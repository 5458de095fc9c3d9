------------------------------ MODULE Segment ------------------------------
(***************************************************************************)
(* The append-only segment file of src/storage.rs, as operators.           *)
(*                                                                         *)
(* A file is a sequence of record slots; a record's offset is the index of *)
(* its slot, counted from 0.  Every frame is taken to be one slot wide:    *)
(* the byte layout of the rkyv frame is abstracted away, so an overwrite   *)
(* replaces exactly one record.                                            *)
(*                                                                         *)
(* A Segment handle is a record                                            *)
(*     [path |-> file_path, ino |-> the open file,                         *)
(*      pos  |-> the OS file cursor, off |-> current_offset].              *)
(* The file is opened without O_APPEND, so write_all writes at the cursor, *)
(* and Segment::read works on file.try_clone(), a dup of the descriptor    *)
(* that shares the cursor: a read moves the writer's cursor.               *)
(***************************************************************************)
EXTENDS Naturals, Sequences

CONSTANTS
    Hole,    \* a slot of zero bytes, left when a write lands past the end
    NoRec    \* the result of a read that fails (Err / None)

(* Segment::new: open(read, write, create).  A fresh description has its  *)
(* cursor at 0; current_offset is the file's length at open time.          *)
Open(path, ino, data) == [path |-> path, ino |-> ino, pos |-> 0, off |-> Len(data)]

(* write_all at cursor p: overwrite the slot under it, or extend the file, *)
(* zero-filling any gap between the end and p.                             *)
WriteAt(data, p, r) ==
    IF p < Len(data)
    THEN [data EXCEPT ![p + 1] = r]
    ELSE data \o [i \in 1 .. (p - Len(data)) |-> Hole] \o <<r>>

(* Segment::append: the returned offset is current_offset, the bytes go to *)
(* the cursor; both advance by one frame.                                  *)
AppendRecord(h, data, r) ==
    [data   |-> WriteAt(data, h.pos, r),
     h      |-> [h EXCEPT !.pos = @ + 1, !.off = @ + 1],
     offset |-> h.off]

(* Segment::read(o): seek(o), read_exact the length, read_exact the frame. *)
(* Past the end the first read_exact fails and the cursor stays at o.  A   *)
(* zero-filled slot has length 0; deserialising it is undefined           *)
(* behaviour, modelled as a failed read.                                   *)
ReadRec(data, o) ==
    IF o < Len(data) /\ data[o + 1] # Hole THEN data[o + 1] ELSE NoRec

CursorAfterRead(data, o) == IF o < Len(data) THEN o + 1 ELSE o

=============================================================================
