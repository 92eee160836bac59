-------------------------------- MODULE Vfs --------------------------------
(***************************************************************************)
(* The filesystem of myfilesystem.c: the in-memory struct filesys_t over   *)
(* the three mapped files file_data, dir_table and hash_data.              *)
(*                                                                         *)
(* Every public function holds the one filesystem mutex from its first     *)
(* statement to its return, so each is one action here; a call that        *)
(* returns an error code changes nothing and is the operator *_code.  The  *)
(* loop of init_fs, which runs before the filesystem is shared, takes one  *)
(* step per dir_table entry.                                               *)
(*                                                                         *)
(* The mappings are MAP_SHARED: what is in dir, data and hash survives the *)
(* process.  Of hash_data only the leaves are kept, hash[b] for block b:   *)
(* an update rehashes the whole path to the root, so the inner nodes       *)
(* always agree with the leaves.                                           *)
(***************************************************************************)
EXTENDS Allocator, FiniteSets, Sequences, Functions

CONSTANTS
  IndexLen,          \* index_len: entries in dir_table
  BLOCK_LEN,         \* bytes in a block of file_data
  FileName,          \* names that clients pass
  Kept,              \* Kept[a]: rank, in strncmp order, of the 63 characters kept of a
  CreateLengths, ResizeLengths, WriteOffsets, Buffers, Renames,  \* calls of clients
  BlockHash(_)       \* the hash that fletcher computes for a block

ASSUME VfsAssumption ==
  /\ IndexLen \in Nat
  /\ BLOCK_LEN \in Nat \ {0} /\ FileDataLen % BLOCK_LEN = 0
  /\ Kept \in [FileName -> Nat \ {0}]
  /\ CreateLengths \cup ResizeLengths \cup WriteOffsets \subseteq Nat
  /\ Buffers \subseteq Seq(Nat)
  /\ Renames \subseteq FileName \X FileName

VARIABLES
  phase,        \* "closed", "init" (in init_fs), "open", "aborted", "faulted"
  dir,          \* dir_table: one entry per index, name 0 when free
  data,         \* file_data
  hash,         \* hash_data: the leaf hashes
  file,         \* the file_t structs, by dir_table index
  o_list, n_list,
  used,
  index,        \* index[i] = 1 when entry i of dir_table is in use
  index_count,
  scan          \* i of the loop of init_fs

disk == <<dir, data, hash>>
mem == <<file, o_list, n_list, used, index, index_count, scan>>
vars == <<phase, disk, mem>>

Index == 0 .. IndexLen - 1
Block == 0 .. FileDataLen \div BLOCK_LEN - 1
NoFile == [name |-> 0, offset |-> 0, length |-> 0]
None == -1

----------------------------------------------------------------------------
(* Helpers *)

block(bytes, b) == [p \in 0 .. BLOCK_LEN - 1 |-> bytes[b * BLOCK_LEN + p]]

\* Mutant: the last block is left out.
MutHashRangeShort(leaves, bytes, offset, length) ==
  LET range == offset \div BLOCK_LEN .. (offset + length) \div BLOCK_LEN - 1
  IN  [b \in Block |-> IF length > 0 /\ b \in range
                       THEN BlockHash(block(bytes, b)) ELSE leaves[b]]

(* compute_hash_block_range: the leaves of the blocks in the range. *)
compute_hash_block_range(leaves, bytes, offset, length) ==
  LET range == offset \div BLOCK_LEN .. (offset + length - 1) \div BLOCK_LEN
  IN  [b \in Block |-> IF length > 0 /\ b \in range
                       THEN BlockHash(block(bytes, b)) ELSE leaves[b]]

\* Mutant: one null byte too few.
MutNullByteShort(bytes, offset, count) ==
  [p \in DOMAIN bytes |-> IF p \in offset .. offset + count - 2 THEN 0 ELSE bytes[p]]

(* write_null_byte and memcpy on the mapping of file_data *)
write_null_byte(bytes, offset, count) ==
  [p \in DOMAIN bytes |-> IF p \in offset .. offset + count - 1 THEN 0 ELSE bytes[p]]

copy_bytes(bytes, offset, buf) ==
  [p \in DOMAIN bytes |->
     IF p \in offset .. offset + Len(buf) - 1 THEN buf[p - offset + 1] ELSE bytes[p]]

read_bytes(bytes, offset, count) == [p \in 1 .. count |-> bytes[offset + p - 1]]

(* update_file_name keeps 63 characters *)
update_file_name(a) == Kept[a]

(* a length as it is stored in the uint32_t fields *)
uint32(length) == length % MAX_FILE_DATA_LEN

(* an int64_t offset below 2^32 assigned to the int32_t of write_file *)
int32(offset) ==
  IF offset >= MAX_FILE_DATA_LEN \div 2 THEN offset - MAX_FILE_DATA_LEN ELSE offset

(* arr_get_by_key on n_list: the index of the file found, or None. *)
lookup(a) ==
  LET k == arr_get_index([m \in 0 .. n_list.size - 1 |->
                            cmp_name(update_file_name(a), file[n_list.list[m]])],
                         n_list.size, FALSE)
  IN  IF k \in 0 .. n_list.size - 1 THEN n_list.list[k] ELSE None

\* Mutant: every file is appended.
MutOffsetAppend(i, files, o) == arr_sorted_insert(o.size, i, o)

(* arr_sorted_insert of file i into an offset array (an empty file is
   appended) and into a name array; "files" holds the current file_t's. *)
insert_by_offset(i, files, o) ==
  LET cmp == [m \in 0 .. o.size - 1 |->
                cmp_offset(files[i].offset, files[o.list[m]], MAX_FILE_DATA_LEN)]
  IN  arr_sorted_insert(IF files[i].length = 0 THEN o.size
                        ELSE arr_get_index(cmp, o.size, TRUE), i, o)

\* Mutant: every file is appended.
MutNameAppend(i, files, n) == arr_sorted_insert(n.size, i, n)

insert_by_name(i, files, n) ==
  LET cmp == [m \in 0 .. n.size - 1 |-> cmp_name(files[i].name, files[n.list[m]])]
  IN  arr_sorted_insert(arr_get_index(cmp, n.size, TRUE), i, n)

(* new_file_index *)
new_file_index == Min({i \in Index : index[i] = 0})

(* The process is gone: what it kept in memory is lost. *)
MemoryLost ==
  /\ file' = [i \in Index |-> NoFile]
  /\ o_list' = arr_init(Index) /\ n_list' = arr_init(Index)
  /\ used' = 0 /\ index' = [i \in Index |-> 0] /\ index_count' = 0 /\ scan' = 0

(* An assertion fails: what was written to the mappings before it stays. *)
Abort(dirNow, dataNow) ==
  /\ phase' = "aborted" /\ MemoryLost
  /\ dir' = dirNow /\ data' = dataNow /\ UNCHANGED hash

(* An access outside the mapping of file_data kills the process; the model
   does not follow the program any further. *)
Fault == phase' = "faulted" /\ MemoryLost /\ UNCHANGED disk

----------------------------------------------------------------------------
(* init_fs and close_fs *)

init_fs_begin ==
  /\ phase \in {"closed", "aborted"}
  /\ phase' = "init"
  /\ UNCHANGED <<disk, mem>>

(* One iteration of the loop: a valid entry becomes a file_t in both arrays;
   an empty file gets the offset 2^32. *)
init_fs_entry ==
  LET entry == dir[scan]
      files == [file EXCEPT ![scan] =
                  update_offset(entry, IF entry.length = 0 THEN MAX_FILE_DATA_LEN
                                       ELSE entry.offset)]
  IN  /\ phase = "init" /\ scan < IndexLen
      /\ scan' = scan + 1
      /\ IF entry.name = 0 THEN UNCHANGED <<file, o_list, n_list, used, index, index_count>>
         ELSE /\ file' = files
              /\ o_list' = insert_by_offset(scan, files, o_list)
              /\ n_list' = insert_by_name(scan, files, n_list)
              /\ used' = used + entry.length
              /\ index' = [index EXCEPT ![scan] = 1]
              /\ index_count' = index_count + 1
      /\ UNCHANGED <<phase, disk>>

init_fs_return ==
  /\ phase = "init" /\ scan = IndexLen
  /\ phase' = "open" /\ scan' = 0
  /\ UNCHANGED <<disk, file, o_list, n_list, used, index, index_count>>

(* close_fs; a kill between two calls leaves the same behind. *)
close_fs == phase = "open" /\ phase' = "closed" /\ MemoryLost /\ UNCHANGED disk

----------------------------------------------------------------------------
(* create_file *)

\* Mutant: the bytes in use are not counted.
MutCreateIgnoresUsed(a, length) ==
  IF lookup(a) # None THEN 1
  ELSE IF length > FileDataLen \/ index_count >= IndexLen THEN 2
  ELSE 0

create_code(a, length) ==
  IF lookup(a) # None THEN 1
  ELSE IF used + length > FileDataLen \/ index_count >= IndexLen THEN 2
  ELSE 0

create_file(a, length) ==
  LET i == new_file_index
      place == new_file_offset(length, o_list, file)
      packed == repack_helper(o_list, file, dir, data, used)
      base == IF place.repack THEN packed
              ELSE [file |-> file, dir |-> dir, data |-> data, hash_offset |-> -1]
      offset == IF place.repack THEN used ELSE place.offset
      name == update_file_name(a)
      files == [base.file EXCEPT ![i] = [name |-> name, offset |-> offset,
                                         length |-> uint32(length)]]
      dirNow == [base.dir EXCEPT ![i] = [name |-> name, offset |-> dir_offset(offset),
                                         length |-> uint32(length)]]
      bytes == write_null_byte(base.data, offset, length)
      h == base.hash_offset
  IN  /\ phase = "open" /\ create_code(a, length) = 0
      /\ IF length >= MAX_FILE_DATA_LEN   \* assertion of write_null_byte
         THEN Abort(dirNow, base.data)
         ELSE IF length > 0 /\ offset + length > FileDataLen THEN Fault
         ELSE /\ file' = files
              /\ o_list' = insert_by_offset(i, files, o_list)
              /\ n_list' = insert_by_name(i, files, n_list)
              /\ dir' = dirNow
              /\ index' = [index EXCEPT ![i] = 1]
              /\ index_count' = index_count + 1
              /\ used' = used + length
              /\ data' = bytes
              /\ hash' = IF length = 0 THEN hash
                         ELSE IF h >= 0
                         THEN compute_hash_block_range(hash, bytes, h, used + length - h)
                         ELSE compute_hash_block_range(hash, bytes, offset, length)
              /\ UNCHANGED <<phase, scan>>

----------------------------------------------------------------------------
(* resize_file and write_file *)

(* File i was created empty and never held data since. *)
fresh(i) == file[i].offset >= MAX_FILE_DATA_LEN

(* resize_file_helper needs a repack to give file i the length: the next
   file with data, or the end of file_data, is too close.  For a fresh file
   only the space before the first file with data counts. *)
repack_required(i, length) ==
  IF fresh(i)
  THEN LET others == arr_remove(o_list.pos[i], o_list)
           next == find_next_nonzero_file(0, others, file)
       IN  next # NoPosition /\ OffsetAt(next, others, file) < length
  ELSE LET next == find_next_nonzero_file(o_list.pos[i] + 1, o_list, file)
       IN  ~ Room(file[i].offset, IF next = NoPosition THEN FileDataLen
                                  ELSE OffsetAt(next, o_list, file), length)

(* File i leaves the offset array and gets a new offset.  arr_remove asserts
   that it was in the array. *)
detached(i, length) ==
  length > file[i].length /\ (fresh(i) \/ repack_required(i, length))

detach_fails(i, length) == o_list.pos[i] < 0 /\ detached(i, length)

(* resize_file_helper, when detach_fails does not hold.  After a repack the
   file follows all others, with its first "copy" bytes; it enters the
   offset array before its length is updated.  (The copy of a fresh file is
   empty.) *)
resize_file_helper(i, length, copy) ==
  LET others == arr_remove(o_list.pos[i], o_list)
      moves == detached(i, length)
      packs == moves /\ repack_required(i, length)
      kept == [file |-> file, dir |-> dir, data |-> data, hash_offset |-> -1]
      base == IF packs THEN repack_helper(others, file, dir, data, used) ELSE kept
      offset == IF packs THEN used - file[i].length
                ELSE IF moves THEN 0 ELSE file[i].offset
      files == [base.file EXCEPT ![i] = update_offset(@, offset)]
  IN  [file |-> [files EXCEPT ![i] = update_length(@, uint32(length))],
       dir  |-> [base.dir EXCEPT ![i] =
                   update_length(IF moves THEN update_offset(@, dir_offset(offset)) ELSE @,
                                 uint32(length))],
       data |-> IF packs
                THEN copy_bytes(base.data, offset, read_bytes(data, file[i].offset, copy))
                ELSE base.data,
       o_list |-> IF moves THEN insert_by_offset(i, files, others) ELSE o_list,
       hash_offset |-> base.hash_offset]

resize_code(a, length) ==
  LET i == lookup(a)
  IN  IF i = None THEN 1
      ELSE IF used + length - file[i].length > FileDataLen THEN 2
      ELSE 0

resize_file(a, length) ==
  LET i == lookup(a)
      old == file[i].length
      r == resize_file_helper(i, length, old)
      start == r.file[i].offset
      bytes == write_null_byte(r.data, start + old, length - old)
      h == r.hash_offset
  IN  /\ phase = "open" /\ resize_code(a, length) = 0 /\ length # old
      /\ IF detach_fails(i, length) THEN Abort(dir, data)
         ELSE IF length - old >= MAX_FILE_DATA_LEN   \* assertion of write_null_byte
         THEN Abort(r.dir, r.data)
         ELSE IF length > old /\ start + length > FileDataLen THEN Fault
         ELSE /\ file' = r.file /\ dir' = r.dir /\ o_list' = r.o_list
              /\ data' = bytes
              /\ used' = used + length - old
              /\ hash' = IF length < old THEN hash
                         ELSE IF h >= 0
                         THEN compute_hash_block_range(hash, bytes, h, start + length - h)
                         ELSE compute_hash_block_range(hash, bytes, start + old, length - old)
              /\ UNCHANGED <<phase, n_list, index, index_count, scan>>

\* Mutant: no write at the end of the file.
MutWriteNotAtEnd(a, offset, count) ==
  LET i == lookup(a)
  IN  IF i = None THEN 1
      ELSE IF offset >= file[i].length THEN 2
      ELSE IF used + offset + count - file[i].length > FileDataLen THEN 3
      ELSE 0

write_code(a, offset, count) ==
  LET i == lookup(a)
  IN  IF i = None THEN 1
      ELSE IF offset > file[i].length THEN 2
      ELSE IF used + offset + count - file[i].length > FileDataLen THEN 3
      ELSE 0

write_file(a, offset, buf) ==
  LET i == lookup(a)
      end == offset + Len(buf)
      grows == end > file[i].length
      r == IF grows THEN resize_file_helper(i, end, offset)
           ELSE [file |-> file, dir |-> dir, data |-> data, o_list |-> o_list,
                 hash_offset |-> -1]
      start == r.file[i].offset
      bytes == copy_bytes(r.data, start + offset, buf)
      usedNow == IF grows THEN used + end - file[i].length ELSE used
      h == int32(r.hash_offset)
  IN  /\ phase = "open" /\ write_code(a, offset, Len(buf)) = 0 /\ Len(buf) > 0
      /\ IF grows /\ detach_fails(i, end) THEN Abort(dir, data)
         ELSE IF grows /\ start + end > FileDataLen THEN Fault
         ELSE /\ file' = r.file /\ dir' = r.dir /\ o_list' = r.o_list
              /\ data' = bytes /\ used' = usedNow
              /\ hash' = IF h >= 0
                         THEN compute_hash_block_range(hash, bytes, h, usedNow - h)
                         ELSE compute_hash_block_range(hash, bytes, start + offset, Len(buf))
              /\ UNCHANGED <<phase, n_list, index, index_count, scan>>

----------------------------------------------------------------------------
(* The other calls *)

\* Mutant: the blocks that the repack changed are not rehashed.
MutRepackNotHashed ==
  LET r == repack_helper(o_list, file, dir, data, used)
  IN  /\ phase = "open"
      /\ file' = r.file /\ dir' = r.dir /\ data' = r.data
      /\ UNCHANGED <<phase, hash, o_list, n_list, used, index, index_count, scan>>

repack ==
  LET r == repack_helper(o_list, file, dir, data, used)
      h == r.hash_offset
  IN  /\ phase = "open"
      /\ file' = r.file /\ dir' = r.dir /\ data' = r.data
      /\ hash' = IF h >= 0 THEN compute_hash_block_range(hash, r.data, h, used - h) ELSE hash
      /\ UNCHANGED <<phase, o_list, n_list, used, index, index_count, scan>>

delete_code(a) == IF lookup(a) = None THEN 1 ELSE 0

\* Mutant: used is not reduced.
MutDeleteKeepsUsed(a) ==
  LET i == lookup(a)
  IN  /\ phase = "open" /\ delete_code(a) = 0
      /\ index' = [index EXCEPT ![i] = 0]
      /\ index_count' = index_count - 1
      /\ o_list' = arr_remove(o_list.pos[i], o_list)
      /\ n_list' = arr_remove(n_list.pos[i], n_list)
      /\ dir' = [dir EXCEPT ![i] = NoFile]
      /\ file' = [file EXCEPT ![i] = NoFile]
      /\ UNCHANGED <<phase, data, hash, used, scan>>

\* Mutant: index keeps the entry.
MutDeleteKeepsIndex(a) ==
  LET i == lookup(a)
  IN  /\ phase = "open" /\ delete_code(a) = 0
      /\ used' = used - file[i].length
      /\ index_count' = index_count - 1
      /\ o_list' = arr_remove(o_list.pos[i], o_list)
      /\ n_list' = arr_remove(n_list.pos[i], n_list)
      /\ dir' = [dir EXCEPT ![i] = NoFile]
      /\ file' = [file EXCEPT ![i] = NoFile]
      /\ UNCHANGED <<phase, data, hash, index, scan>>

(* Only the first byte of the name is cleared in dir_table; nothing reads
   the rest of a free entry. *)
delete_file(a) ==
  LET i == lookup(a)
  IN  /\ phase = "open" /\ delete_code(a) = 0
      /\ IF o_list.pos[i] < 0 \/ n_list.pos[i] < 0   \* assertion of arr_remove
         THEN Abort(dir, data)
         ELSE /\ used' = used - file[i].length
              /\ index' = [index EXCEPT ![i] = 0]
              /\ index_count' = index_count - 1
              /\ o_list' = arr_remove(o_list.pos[i], o_list)
              /\ n_list' = arr_remove(n_list.pos[i], n_list)
              /\ dir' = [dir EXCEPT ![i] = NoFile]
              /\ file' = [file EXCEPT ![i] = NoFile]
              /\ UNCHANGED <<phase, data, hash, scan>>

rename_code(a, b) ==
  IF lookup(a) # None /\ a = b THEN 0
  ELSE IF lookup(a) = None \/ lookup(b) # None THEN 1
  ELSE 0

\* Mutant: dir_table keeps the old name.
MutRenameMemoryOnly(a, b) ==
  /\ phase = "open" /\ rename_code(a, b) = 0 /\ a # b
  /\ file' = [file EXCEPT ![lookup(a)] = update_name(@, update_file_name(b))]
  /\ UNCHANGED <<phase, disk, o_list, n_list, used, index, index_count, scan>>

rename_file(a, b) ==
  LET i == lookup(a)
  IN  /\ phase = "open" /\ rename_code(a, b) = 0 /\ a # b
      /\ file' = [file EXCEPT ![i] = update_name(@, update_file_name(b))]
      /\ dir' = [dir EXCEPT ![i] = update_name(@, update_file_name(b))]
      /\ UNCHANGED <<phase, data, hash, o_list, n_list, used, index, index_count, scan>>

(* verify_hash_range: every block of the range has the hash stored for it. *)
verify_hash_range(offset, length) ==
  length > 0 =>
    \A b \in offset \div BLOCK_LEN .. (offset + length - 1) \div BLOCK_LEN :
      hash[b] = BlockHash(block(data, b))

\* Mutant: the last byte is out of range.
MutReadNotToEnd(a, offset, count) ==
  LET i == lookup(a)
  IN  IF i = None \/ offset + count >= file[i].length
         \/ ~ verify_hash_range(file[i].offset + offset, count)
      THEN [code |-> 2, bytes |-> << >>]
      ELSE [code |-> 0, bytes |-> read_bytes(data, file[i].offset + offset, count)]

(* read_file: its code and the bytes it copies to the buffer. *)
read_file(a, offset, count) ==
  LET i == lookup(a)
      fails(code) == [code |-> code, bytes |-> << >>]
  IN  IF i = None THEN fails(1)
      ELSE IF offset + count > file[i].length THEN fails(2)
      ELSE IF ~ verify_hash_range(file[i].offset + offset, count) THEN fails(3)
      ELSE [code |-> 0, bytes |-> read_bytes(data, file[i].offset + offset, count)]

compute_hash_tree ==
  /\ phase = "open"
  /\ hash' = [b \in Block |-> BlockHash(block(data, b))]
  /\ UNCHANGED <<phase, dir, data, mem>>

compute_hash_block(b) ==
  /\ phase = "open"
  /\ hash' = [hash EXCEPT ![b] = BlockHash(block(data, b))]
  /\ UNCHANGED <<phase, dir, data, mem>>

----------------------------------------------------------------------------
(* The program starts on blank files (gen_blank_files of the tests). *)

Init ==
  /\ phase = "closed"
  /\ dir = [i \in Index |-> NoFile]
  /\ data = [p \in 0 .. FileDataLen - 1 |-> 0]
  /\ hash = [b \in Block |-> BlockHash(block(data, b))]
  /\ file = [i \in Index |-> NoFile]
  /\ o_list = arr_init(Index) /\ n_list = arr_init(Index)
  /\ used = 0 /\ index = [i \in Index |-> 0] /\ index_count = 0 /\ scan = 0

Next ==
  \/ init_fs_begin \/ init_fs_entry \/ init_fs_return \/ close_fs
  \/ \E a \in FileName, length \in CreateLengths : create_file(a, length)
  \/ \E a \in FileName, length \in ResizeLengths : resize_file(a, length)
  \/ \E a \in FileName, offset \in WriteOffsets, buf \in Buffers : write_file(a, offset, buf)
  \/ \E a \in FileName : delete_file(a)
  \/ \E r \in Renames : rename_file(r[1], r[2])
  \/ repack
  \/ compute_hash_tree
  \/ \E b \in Block : compute_hash_block(b)

Spec == Init /\ [][Next]_vars
=============================================================================
