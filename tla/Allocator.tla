----------------------------- MODULE Allocator -----------------------------
(***************************************************************************)
(* Placement of files in file_data: the search for a free range and the    *)
(* repack, as operators on the offset array o, the file_t structs "file"   *)
(* (by dir_table index) and the mapped files dir and data.  They belong to *)
(* myfilesystem.c and helper.c and run under the filesystem lock.          *)
(***************************************************************************)
EXTENDS FileArray, FiniteSetsExt

CONSTANTS
  FileDataLen,        \* file_data_len: bytes in file_data
  MAX_FILE_DATA_LEN   \* 2^32: the offset that stands for "newly created, empty"

ASSUME LengthAssumption ==
  /\ FileDataLen \in Nat \ {0}
  /\ MAX_FILE_DATA_LEN \in Nat
  /\ FileDataLen <= MAX_FILE_DATA_LEN

NoPosition == -1

OffsetAt(k, o, file) == file[o.list[k]].offset
LengthAt(k, o, file) == file[o.list[k]].length
EndAt(k, o, file) == OffsetAt(k, o, file) + LengthAt(k, o, file)

(* find_next_nonzero_file: the position of the first file with data from
   position "from" on; the search gives up at a newly created empty file. *)
find_next_nonzero_file(from, o, file) ==
  LET seen == {k \in from .. o.size - 1 :
                 \A j \in from .. k : OffsetAt(j, o, file) < MAX_FILE_DATA_LEN}
      found == {k \in seen : LengthAt(k, o, file) > 0}
  IN  IF found = {} THEN NoPosition ELSE Min(found)

\* Mutant: one byte too many fits.
MutRoomOffByOne(end, start, length) == start < end \/ start - end + 1 >= length

(* start - end >= length in uint64_t arithmetic: a negative difference wraps
   round to a number that exceeds every length. *)
Room(end, start, length) == start < end \/ start - end >= length

(* new_file_offset, up to its call of repack_helper: the offset of the first
   sufficient range, or repack = TRUE when no range is long enough. *)
new_file_offset(length, o, file) ==
  LET first == find_next_nonzero_file(0, o, file)
      chain == {k \in 0 .. o.size - 1 :
                  /\ LengthAt(k, o, file) > 0
                  /\ \A j \in 0 .. k : OffsetAt(j, o, file) < MAX_FILE_DATA_LEN}
      gaps == {k \in chain :
                 LET next == find_next_nonzero_file(k + 1, o, file)
                 IN  Room(EndAt(k, o, file),
                          IF next = NoPosition THEN FileDataLen
                          ELSE OffsetAt(next, o, file), length)}
  IN  IF length = 0 THEN [offset |-> MAX_FILE_DATA_LEN, repack |-> FALSE]
      ELSE IF first = NoPosition \/ OffsetAt(first, o, file) >= length
      THEN [offset |-> 0, repack |-> FALSE]
      ELSE IF gaps = {} THEN [offset |-> 0, repack |-> TRUE]
      ELSE [offset |-> EndAt(Min(gaps), o, file), repack |-> FALSE]

(* memmove inside file_data: length bytes from offset "from" to offset "to". *)
move_bytes(data, to, from, length) ==
  [p \in DOMAIN data |->
     IF p \in to .. to + length - 1 THEN data[p - to + from] ELSE data[p]]

(* repack_helper's loop: the offsets after it, by position in o.  The first
   file goes to offset 0; each later one moves down to the end of its
   predecessor, until the first newly created empty file. *)
RepackedOffsets(o, file) ==
  LET stop == Min({o.size} \cup
                  {k \in 1 .. o.size - 1 : OffsetAt(k, o, file) >= MAX_FILE_DATA_LEN})
      new[k \in 0 .. o.size - 1] ==
        IF k = 0 THEN 0
        ELSE IF k >= stop THEN OffsetAt(k, o, file)
        ELSE Min({OffsetAt(k, o, file), new[k - 1] + LengthAt(k - 1, o, file)})
  IN  new

(* The setters of helper.h, on a file_t or on an entry of dir_table. *)
update_name(f, name) == [name |-> name, offset |-> f.offset, length |-> f.length]
update_offset(f, offset) == [name |-> f.name, offset |-> offset, length |-> f.length]
update_length(f, length) == [name |-> f.name, offset |-> f.offset, length |-> length]

(* update_dir_offset writes 0 for a newly created empty file. *)
dir_offset(offset) == IF offset < MAX_FILE_DATA_LEN THEN offset ELSE 0

(* repack_helper with repack_move: the moves in array order, each with its
   update of the offset in the file_t and in dir_table, and the offset of
   the first byte moved (-1: none). *)
repack_helper(o, file, dir, data, used) ==
  LET new == RepackedOffsets(o, file)
      moved == {k \in 0 .. o.size - 1 : new[k] # OffsetAt(k, o, file)}
      withData == {k \in moved : LengthAt(k, o, file) > 0}
      bytes[k \in -1 .. o.size - 1] ==
        IF k = -1 THEN data
        ELSE IF k \in moved
        THEN move_bytes(bytes[k - 1], new[k], OffsetAt(k, o, file), LengthAt(k, o, file))
        ELSE bytes[k - 1]
      files == {o.list[k] : k \in moved}
  IN  IF used <= 0 \/ o.size <= 0
      THEN [file |-> file, dir |-> dir, data |-> data, hash_offset |-> -1]
      ELSE [file |-> [i \in DOMAIN file |->
                        IF i \in files THEN update_offset(file[i], new[o.pos[i]])
                        ELSE file[i]],
            dir |-> [i \in DOMAIN dir |->
                       IF i \in files THEN update_offset(dir[i], dir_offset(new[o.pos[i]]))
                       ELSE dir[i]],
            data |-> bytes[o.size - 1],
            hash_offset |-> IF withData = {} THEN -1 ELSE new[Min(withData)]]
=============================================================================
