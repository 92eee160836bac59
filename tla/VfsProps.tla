------------------------------ MODULE VfsProps -----------------------------
(***************************************************************************)
(* The correctness properties of Vfs, and the abstract specifications that *)
(* it implements.                                                          *)
(***************************************************************************)
EXTENDS Vfs

Live == {i \in Index : index[i] = 1}
Listed == {i \in Index : dir[i].name # 0}      \* entries a restart would find

(* Types of the state that every operation indexes: an array holds as many
   pointers as its size says and no more than its capacity (arr.c:172). *)
TypeOK ==
  /\ phase \in {"closed", "init", "open", "aborted", "faulted"}
  /\ DOMAIN dir = Index /\ DOMAIN file = Index
  /\ index \in [Index -> {0, 1}]
  /\ scan \in 0 .. IndexLen
  /\ IsArray(o_list, Index) /\ o_list.size <= IndexLen
  /\ IsArray(n_list, Index) /\ n_list.size <= IndexLen

(* In both arrays the element at position k carries k as its o_index or
   n_index, and a file that is in neither carries -1: so delete_file, which
   removes by these indices (myfilesystem.c:545), removes its own file. *)
BackPointers == PointsBack(o_list, Index) /\ PointsBack(n_list, Index)

(* Between two calls the in-memory file_t structs and dir_table say the
   same: the same entries are in use, with the same names and lengths, and
   every file but a newly created empty one has the same offset in both, so
   a restart finds what the running program had. *)
EntriesAgree ==
  phase = "open" =>
    /\ Listed = Live
    /\ \A i \in Live :
         /\ dir[i].name = file[i].name /\ dir[i].length = file[i].length
         /\ file[i].offset < MAX_FILE_DATA_LEN => dir[i].offset = file[i].offset

(* When create_file's test of index_count passes (myfilesystem.c:254), no
   assertion on its way can fail: there is a free entry for new_file_index
   (myfilesystem.c:161), and neither array is full (arr.c:172, arr.c:282) nor
   holds a file of that entry already. *)
RoomForEntry ==
  phase = "open" /\ index_count < IndexLen =>
    /\ \E i \in Index : index[i] = 0
    /\ index[new_file_index] = 0
    /\ o_list.size < IndexLen /\ o_list.pos[new_file_index] = -1
    /\ n_list.size < IndexLen /\ n_list.pos[new_file_index] = -1

(* No byte of file_data belongs to two files (new_file_offset,
   resize_file_helper and repack_helper place them). *)
Disjoint ==
  \A i, j \in Listed :
    i # j /\ dir[i].length > 0 /\ dir[j].length > 0 =>
      \/ dir[i].offset + dir[i].length <= dir[j].offset
      \/ dir[j].offset + dir[j].length <= dir[i].offset

(* The offset array is in ascending order of offset, which the gap search
   and the repack loop take for granted. *)
OffsetsSorted ==
  \A j, k \in 0 .. o_list.size - 1 :
    j < k => OffsetAt(j, o_list, file) <= OffsetAt(k, o_list, file)

(* The name array is in strictly ascending order of name, which its binary
   search takes for granted. *)
NamesSorted ==
  \A j, k \in 0 .. n_list.size - 1 :
    j < k => file[n_list.list[j]].name < file[n_list.list[k]].name

(* "used" and "index_count", which the space checks rely on, are the bytes
   and the entries that are really in use, also after a restart. *)
SpaceAccounted ==
  phase = "open" =>
    /\ used = SumFunction([i \in Live |-> file[i].length])
    /\ index_count = Cardinality(Live)
    /\ used <= FileDataLen

(* No assertion of the program fails: arr_remove's on its index and
   write_null_byte's on its count. *)
NoAssertionFails == phase # "aborted"

----------------------------------------------------------------------------
(* Steps *)

BlocksOf(f) ==
  IF f.length = 0 THEN {}
  ELSE f.offset \div BLOCK_LEN .. (f.offset + f.length - 1) \div BLOCK_LEN

Fresh(b) == hash[b] = BlockHash(block(data, b))

(* Every byte of file i can be read without a hash error. *)
Readable(i) == \A b \in BlocksOf(file[i]) : Fresh(b)

(* Files whose data a repack inside the step moved: another file grew, or
   repack was called. *)
Repacked ==
  {i \in Live : /\ phase' = "open" /\ file'[i].length = file[i].length
                /\ file'[i].offset # file[i].offset}

(* A file that the repack inside resize_file, write_file, create_file or
   repack moved can be read afterwards: the range that is rehashed reaches
   from the first byte moved to the last. *)
RepackedFilesReadable ==
  [][phase = "open" => \A i \in Repacked : Readable(i)']_vars

(* The file whose growth moved it to another place. *)
Relocated(i) ==
  /\ phase' = "open" /\ i \in Live
  /\ file'[i].length > file[i].length /\ file'[i].offset # file[i].offset

(* A leaf hash becomes stale only when resize_file or write_file relocates
   a file (myfilesystem.c:367 copies bytes that no caller rehashes), and then
   only in a block that holds a byte of that file. *)
StaleOnlyByRelocation ==
  [][\A b \in Block : Fresh(b) /\ ~ Fresh(b)' =>
       \E i \in Index : Relocated(i) /\ b \in BlocksOf(file'[i])]_vars

(* After a call that grows a file all its blocks have their hash. *)
GrownFileReadable ==
  [][\A i \in Live :
       phase = "open" /\ phase' = "open" /\ file'[i].length > file[i].length /\ Readable(i)
         => Readable(i)']_vars

----------------------------------------------------------------------------
(* The abstract specifications, read from what the mapped files hold *)

SizeOf ==
  [n \in {dir[i].name : i \in Listed} |->
     dir[CHOOSE i \in Listed : dir[i].name = n].length]

ContentOf ==
  [n \in {dir[i].name : i \in Listed} |->
     LET i == CHOOSE e \in Listed : dir[e].name = n
     IN  read_bytes(data, dir[i].offset, dir[i].length)]

S == INSTANCE SizeStore
       WITH size <- SizeOf, Capacity <- FileDataLen, Slots <- IndexLen,
            WriteCounts <- {Len(b) : b \in Buffers}

F == INSTANCE FlatStore
       WITH store <- ContentOf, Capacity <- FileDataLen, Slots <- IndexLen

(* What dir_table holds changes as a table of names and lengths should: one
   entry of the table per successful call, none for any other step, and
   closing or reopening the filesystem changes nothing. *)
ImplementsSizes == S!Spec

(* What dir_table and file_data hold together changes as a table of byte
   sequences should: growth fills with null bytes, a write replaces what it
   covers, and no repack, relocation or restart changes any file. *)
ImplementsContents == F!Spec

(* The calls return the codes of the abstract table ("Return 1 if ...",
   "Return 2 if ..." in myfilesystem.c): the search of the name array and
   the counters "used" and "index_count" never mislead them. *)
CodesAgree ==
  phase = "open" =>
    \A a \in FileName :
      /\ \A length \in CreateLengths : create_code(a, length) = S!create_code(a, length)
      /\ \A length \in ResizeLengths : resize_code(a, length) = S!resize_code(a, length)
      /\ \A b \in FileName : rename_code(a, b) = S!rename_code(a, b)
      /\ \A offset \in WriteOffsets, buf \in Buffers :
           write_code(a, offset, Len(buf)) = S!write_code(a, offset, Len(buf))
      /\ delete_code(a) = S!delete_code(a)

(* read_file returns the code and the bytes that the abstract table gives.
   It never returns the code 3 of a failed verification either when file_data
   is a single block, as in the run: whatever is rehashed then is all of it.
   GrownFileReadable is the same question about several blocks. *)
ReadsBack ==
  phase = "open" =>
    \A a \in FileName, offset \in WriteOffsets, count \in 0 .. FileDataLen :
      read_file(a, offset, count) = F!read_file(a, offset, count)
=============================================================================
