-------------------------- MODULE RelocationProps --------------------------
(***************************************************************************)
(* What a repack keeps, at every point where the process can be killed.    *)
(***************************************************************************)
EXTENDS Relocation

A == INSTANCE Allocator

(* The file that repack_helper is moving, or was when the process died. *)
Moving == IF pc \in {"moved", "killed"} THEN {i} ELSE {}

(* Whenever the process is killed in a repack (myfilesystem.c:448), every
   file of the array but the one being moved still has all its bytes at the
   offset that dir_table gives: a restart loses one of them at most. *)
OthersSurvive ==
  \A k \in File \ Moving, q \in Byte :
    q < len[k] => dir[k] + q \in Byte /\ data[dir[k] + q] = Original[before[k] + q]

(* The files of the array end where the caller puts its file
   (myfilesystem.c:370, :237), and behind that there is room for it. *)
RoomBehind ==
  pc \notin {"copy", "loop", "moved", "killed"} /\ call # "repack" =>
    /\ \A k \in File : len[k] > 0 => off[k] + len[k] <= new_offset
    /\ new_offset + length <= FileDataLen

(* repack_helper returns the first byte that it modified: before it every
   byte of a file is as it was, and with -1 every file is where it was. *)
RehashCovers ==
  pc = "done" =>
    \A k \in File, q \in Byte :
      q < len[k] =>
        \/ hash_offset >= 0 /\ off[k] + q >= hash_offset
        \/ off[k] = before[k] /\ data[off[k] + q] = Original[off[k] + q]

(* The file of the call ends up with the bytes to keep, and those added. *)
GrownComplete ==
  pc = "done" /\ call # "repack" =>
    /\ own = [named |-> TRUE, offset |-> new_offset, length |-> length]
    /\ \A q \in 0 .. length - 1 :
         data[own.offset + q] = IF q < keep THEN Original[old.offset + q]
                                ELSE added[q - keep]

(* The call as the operators of Allocator see it: the offset array, and the
   file_t structs or the entries of dir_table of its files. *)
Array == [size |-> N, list |-> [k \in File |-> k], pos |-> [k \in File |-> k]]
Entries(offsets) == [k \in File |-> [name |-> k, offset |-> offsets[k], length |-> len[k]]]

(* The loop of repack_helper, with its order of moves, does for each of its
   callers what the operator of Allocator, on which Vfs relies, says in one
   step; what the caller writes afterwards lies behind the files. *)
RepackAgrees ==
  pc \notin {"copy", "loop", "moved", "killed"} =>
    LET start == [k \in File |-> IF fresh(before[k]) THEN 0 ELSE before[k]]
        r == A!repack_helper(Array, Entries(before), Entries(start), Original, used)
    IN  /\ \A k \in File : r.file[k].offset = off[k] /\ r.dir[k].offset = dir[k]
        /\ \A p \in Byte : call = "repack" \/ p < new_offset => r.data[p] = data[p]
        /\ r.hash_offset = hash_offset
=============================================================================
