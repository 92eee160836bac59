---------------------------- MODULE Relocation -----------------------------
(***************************************************************************)
(* One call that repacks file_data, write by write: the loop of            *)
(* repack_helper over the offset array, and around it the call of repack,  *)
(* the growth of a file that finds no room where it is (resize_file,       *)
(* write_file), or the creation of a file that finds no gap (create_file). *)
(* file_data and dir_table are mapped MAP_SHARED: what is written survives *)
(* a kill at any point, and init_fs then reads the files from dir_table.   *)
(*                                                                         *)
(* The offset array holds the files 0 .. N-1 in its order; the file of the *)
(* call is not in it: a growing file has been removed, a created one not   *)
(* been inserted yet.  The array is in ascending order and no two files    *)
(* overlap when the call begins.                                           *)
(***************************************************************************)
EXTENDS Integers

CONSTANTS
  FileDataLen, MAX_FILE_DATA_LEN,
  N,                   \* files in the offset array
  Original,            \* the bytes of file_data before the call
  Ink,                 \* the byte that write_file writes
  NewLengths           \* lengths that a file grows to or is created with

ASSUME RelocationAssumption ==
  /\ FileDataLen \in Nat \ {0} /\ MAX_FILE_DATA_LEN \in Nat
  /\ FileDataLen < MAX_FILE_DATA_LEN
  /\ N \in Nat
  /\ Original \in [0 .. FileDataLen - 1 -> Nat]
  /\ Ink \in Nat
  /\ NewLengths \subseteq Nat \ {0}

VARIABLES
  call,                \* "repack", "resize", "write" or "create"
  length,              \* new length of the file of the call
  keep,                \* how many of its bytes the call keeps
  old,                 \* its file_t before the call
  before, len,         \* offsets and lengths of the files before the call
  packed,              \* packed[k]: total length of the files 0 .. k-1
  used,                \* bytes of all files before the call
  own,                 \* entry in dir_table of the file of the call
  off,                 \* offsets in the file_t structs
  dir,                 \* offsets in dir_table
  data,                \* file_data
  temp,                \* the buffer of resize_file_helper
  hash_offset,         \* first byte that the repack modified, -1 for none
  i, pc

rigid == <<call, length, keep, old, before, len, packed, used>>
vars == <<rigid, own, off, dir, data, temp, hash_offset, i, pc>>

File == 0 .. N - 1
Byte == 0 .. FileDataLen - 1

(* A file created empty that never held data has the offset 2^32. *)
fresh(offset) == offset >= MAX_FILE_DATA_LEN

(* The bytes of file_data after "count" bytes of buf were copied to "to". *)
copied(to, buf, count) ==
  [p \in Byte |-> IF p \in to .. to + count - 1 THEN buf[p - to] ELSE data[p]]

bytes_at(from, count) == [p \in 0 .. count - 1 |-> data[from + p]]

----------------------------------------------------------------------------
\* Mutant: the first byte is not copied.
MutCopySkipsFirst ==
  /\ pc = "copy" /\ pc' = "loop"
  /\ temp' = [p \in 0 .. keep - 1 |-> IF p = 0 THEN 0 ELSE data[old.offset + p]]
  /\ UNCHANGED <<rigid, own, off, dir, data, hash_offset, i>>

(* resize_file_helper saves the bytes to keep in a buffer. *)
copy ==
  /\ pc = "copy" /\ pc' = "loop"
  /\ temp' = bytes_at(old.offset, keep)
  /\ UNCHANGED <<rigid, own, off, dir, data, hash_offset, i>>

----------------------------------------------------------------------------
(* repack_helper *)

\* Mutant: the predecessor's offset is read before it moves.
MutTargetStale(k) == IF k = 0 THEN 0 ELSE before[k - 1] + len[k - 1]

(* end_prev_file: where file k follows its predecessor *)
target(k) == IF k = 0 THEN 0 ELSE off[k - 1] + len[k - 1]

(* Nothing in use, the end of the array, or the newly created empty files. *)
AtEnd == used <= 0 \/ i = N \/ (i \in 1 .. N - 1 /\ fresh(off[i]))

Behind == ~ AtEnd /\ off[i] > target(i)

(* repack_move: the bytes of a file behind a gap move down, ... *)
repack_move ==
  /\ pc = "loop" /\ Behind /\ pc' = "moved"
  /\ data' = copied(target(i), bytes_at(off[i], len[i]), len[i])
  /\ UNCHANGED <<rigid, own, off, dir, temp, hash_offset, i>>

\* Mutant: dir_table is not written.
MutOffsetMemoryOnly ==
  /\ pc = "moved" /\ pc' = "loop" /\ i' = i + 1
  /\ off' = [off EXCEPT ![i] = target(i)]
  /\ hash_offset' = IF hash_offset < 0 /\ len[i] > 0 THEN target(i) ELSE hash_offset
  /\ UNCHANGED <<rigid, own, dir, data, temp>>

\* Mutant: the last file moved, not the first, says what to rehash.
MutHashFromLast ==
  /\ pc = "moved" /\ pc' = "loop" /\ i' = i + 1
  /\ off' = [off EXCEPT ![i] = target(i)]
  /\ dir' = [dir EXCEPT ![i] = target(i)]
  /\ hash_offset' = IF len[i] > 0 THEN target(i) ELSE hash_offset
  /\ UNCHANGED <<rigid, own, data, temp>>

(* ... then it writes the offset, in the file_t and in dir_table. *)
repack_offset ==
  /\ pc = "moved" /\ pc' = "loop" /\ i' = i + 1
  /\ off' = [off EXCEPT ![i] = target(i)]
  /\ dir' = [dir EXCEPT ![i] = target(i)]
  /\ hash_offset' = IF hash_offset < 0 /\ len[i] > 0 THEN target(i) ELSE hash_offset
  /\ UNCHANGED <<rigid, own, data, temp>>

repack_stay ==
  /\ pc = "loop" /\ ~ AtEnd /\ ~ Behind /\ i' = i + 1
  /\ UNCHANGED <<rigid, own, off, dir, data, temp, hash_offset, pc>>

repack_return ==
  /\ pc = "loop" /\ AtEnd
  /\ pc' = CASE call = "repack" -> "done"
             [] call = "create" -> "name"
             [] OTHER -> IF fresh(old.offset) THEN "offset" ELSE "paste"
  /\ UNCHANGED <<rigid, own, off, dir, data, temp, hash_offset, i>>

----------------------------------------------------------------------------
(* The caller, after the repack *)

\* Mutant: the growing file is counted twice.
MutOffsetBehindAll == used

(* "used" still counts the old length of a growing file. *)
new_offset == used - old.length

(* resize_file_helper writes the buffer behind all other files, ... *)
paste ==
  /\ pc = "paste" /\ pc' = "offset"
  /\ data' = copied(new_offset, temp, keep)
  /\ UNCHANGED <<rigid, own, off, dir, temp, hash_offset, i>>

(* ... or write_dir_file writes the name of a created file, *)
write_name ==
  /\ pc = "name" /\ pc' = "offset"
  /\ own' = [own EXCEPT !.named = TRUE]
  /\ UNCHANGED <<rigid, off, dir, data, temp, hash_offset, i>>

(* then its offset and its length. *)
update_dir_offset ==
  /\ pc = "offset" /\ pc' = "length"
  /\ own' = [own EXCEPT !.offset = new_offset]
  /\ UNCHANGED <<rigid, off, dir, data, temp, hash_offset, i>>

update_dir_length ==
  /\ pc = "length" /\ pc' = "fill"
  /\ own' = [own EXCEPT !.length = length]
  /\ UNCHANGED <<rigid, off, dir, data, temp, hash_offset, i>>

(* The bytes that the call adds: null bytes, or the buffer of write_file. *)
added == [p \in 0 .. length - keep - 1 |-> IF call = "write" THEN Ink ELSE 0]

fill ==
  /\ pc = "fill" /\ pc' = "done"
  /\ data' = copied(new_offset + keep, added, length - keep)
  /\ UNCHANGED <<rigid, own, off, dir, temp, hash_offset, i>>

----------------------------------------------------------------------------
(* The process is killed.  Of the bytes that the next write would have
   written any part is there. *)
kill ==
  /\ pc \notin {"done", "killed"} /\ pc' = "killed"
  /\ \E torn \in SUBSET Byte :
       \/ torn = {} /\ data' = data
       \/ /\ pc = "loop" /\ Behind
          /\ torn \subseteq target(i) .. target(i) + len[i] - 1
          /\ data' = [p \in Byte |-> IF p \in torn THEN data[off[i] + p - target(i)] ELSE data[p]]
       \/ /\ pc = "paste" /\ torn \subseteq new_offset .. new_offset + keep - 1
          /\ data' = [p \in Byte |-> IF p \in torn THEN temp[p - new_offset] ELSE data[p]]
       \/ /\ pc = "fill" /\ torn \subseteq new_offset + keep .. new_offset + length - 1
          /\ data' = [p \in Byte |-> IF p \in torn THEN added[p - new_offset - keep] ELSE data[p]]
  /\ UNCHANGED <<rigid, own, off, dir, temp, hash_offset, i>>

----------------------------------------------------------------------------
(* When the program repacks *)

Holds(k, p) == before[k] <= p /\ p < before[k] + len[k]

(* Files in order, none over another, the newly created empty ones last. *)
Layout ==
  /\ \A k \in File : \/ len[k] = 0 /\ before[k] = MAX_FILE_DATA_LEN
                     \/ before[k] + len[k] <= FileDataLen
  /\ \A j, k \in File : j < k => before[j] + len[j] <= before[k]

Apart(k) == old.offset + old.length <= before[k] \/ before[k] + len[k] <= old.offset

Empty == [offset |-> MAX_FILE_DATA_LEN, length |-> 0]

(* resize_file_helper finds no room: before the first file with data for a
   newly created empty file, up to the next one or the end for another. *)
GrowthRepacks ==
  /\ length > old.length /\ used + length - old.length <= FileDataLen
  /\ \/ old = Empty /\ \E k \in File : len[k] > 0 /\ before[k] < length
     \/ /\ old.offset + old.length <= FileDataLen /\ \A k \in File : Apart(k)
        /\ \E next \in {FileDataLen} \cup {before[k] : k \in {f \in File : len[f] > 0}} :
             old.offset <= next /\ next < old.offset + length

(* new_file_offset finds no gap. *)
CreationRepacks ==
  /\ old = Empty /\ used + length <= FileDataLen
  /\ \E k \in File : len[k] > 0
  /\ \A from \in 0 .. FileDataLen - length :
       \E k \in File, p \in from .. from + length - 1 : Holds(k, p)

InitCall ==
  \/ call = "repack" /\ old = Empty /\ length = 0 /\ keep = 0
  \/ call = "create" /\ CreationRepacks /\ keep = 0
  \/ call = "resize" /\ GrowthRepacks /\ keep = old.length
  \/ call = "write" /\ GrowthRepacks /\ keep \in 0 .. old.length

Init ==
  /\ packed \in [0 .. N -> 0 .. FileDataLen] /\ packed[0] = 0
  /\ \A j, k \in 0 .. N : j <= k => packed[j] <= packed[k]
  /\ len = [k \in File |-> packed[k + 1] - packed[k]]
  /\ before \in [File -> 0 .. FileDataLen \cup {MAX_FILE_DATA_LEN}]
  /\ Layout
  /\ old \in [offset : 0 .. FileDataLen, length : 0 .. FileDataLen] \cup {Empty}
  /\ used = packed[N] + old.length
  /\ length \in NewLengths \cup {0}
  /\ InitCall
  /\ own = [named |-> call \in {"resize", "write"}, length |-> old.length,
            offset |-> IF fresh(old.offset) THEN 0 ELSE old.offset]
  /\ off = before
  /\ dir = [k \in File |-> IF fresh(before[k]) THEN 0 ELSE before[k]]
  /\ data = Original /\ temp = [p \in {} |-> 0]
  /\ hash_offset = -1 /\ i = 0
  /\ pc = IF fresh(old.offset) THEN "loop" ELSE "copy"

Next ==
  \/ copy \/ repack_move \/ repack_offset \/ repack_stay \/ repack_return
  \/ paste \/ write_name \/ update_dir_offset \/ update_dir_length \/ fill
  \/ kill

Spec == Init /\ [][Next]_vars
=============================================================================
