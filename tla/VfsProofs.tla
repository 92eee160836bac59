----------------------------- MODULE VfsProofs ------------------------------
(***************************************************************************)
(* Proofs about Vfs, for every size of file_data and dir_table and every   *)
(* set of calls: TypeOK, BackPointers and EntriesAgree are invariants, the *)
(* bytes in use are counted right (SpaceAccounted), and the search for a   *)
(* free range, growth in place, the repack and the loop of init_fs keep    *)
(* the files apart (Disjoint) and the offset array in order                *)
(* (OffsetsSorted).                                                        *)
(*                                                                         *)
(* The inductive invariant IInv says of every step of init_fs what the     *)
(* properties say between calls: an entry of dir_table is in use exactly   *)
(* when init_fs has passed it and it has a name, and only such entries are *)
(* in the arrays.  SizedInv adds the bytes that "used" counts, LayoutInv   *)
(* where the files are.                                                    *)
(*                                                                         *)
(* Two hypotheses keep out what the program gets wrong: file_data is       *)
(* shorter than 2^32 bytes (LengthFits), since a file of 2^32 bytes has    *)
(* length 0 in the uint32_t fields; and, for the layout, no file is created*)
(* empty or resized to 0 bytes (NoEmptyFiles).                             *)
(***************************************************************************)
EXTENDS VfsProps, DataLemmas

IsFile(f) == f = [name |-> f.name, offset |-> f.offset, length |-> f.length]

IsTable(t) == DOMAIN t = Index /\ \A i \in Index : IsFile(t[i])

(* The file_t f and the entry e of dir_table say the same. *)
SameOffset(f, e) == f.offset < MAX_FILE_DATA_LEN => e.offset = f.offset
Agree(f, e) == e.name = f.name /\ e.length = f.length /\ SameOffset(f, e)

Placed(arr) == IsArray(arr, Index) /\ PointsBack(arr, Index)

(* The entries that the program has taken from dir_table. *)
Scanned == IF phase = "init" THEN 0 .. scan - 1
           ELSE IF phase = "open" THEN Index ELSE {}

ControlInv ==
  /\ phase \in {"closed", "init", "open", "aborted", "faulted"}
  /\ scan \in 0 .. IndexLen /\ (phase # "init" => scan = 0)
  /\ index \in [Index -> {0, 1}]

TablesInv == IsTable(dir) /\ IsTable(file)

ArraysInv ==
  /\ Placed(o_list) /\ Placed(n_list)
  /\ \A i \in Index : o_list.pos[i] # -1 \/ n_list.pos[i] # -1 => index[i] = 1

EntriesInv ==
  \A i \in Index :
    /\ index[i] = 1 <=> i \in Scanned /\ dir[i].name # 0
    /\ index[i] = 1 => Agree(file[i], dir[i])

CountInv == index_count = Cardinality(Live)

IInv == ControlInv /\ TablesInv /\ ArraysInv /\ EntriesInv /\ CountInv

----------------------------------------------------------------------------
(* Lemmas about the helpers *)

LEMMA IndexFinite == IndexLen \in Nat /\ IsFiniteSet(Index) /\ Cardinality(Index) = IndexLen
  <1>1. IndexLen \in Nat /\ 0 \in Int /\ IndexLen - 1 \in Int
    BY VfsAssumption
  <1>2. /\ IsFiniteSet(0 .. IndexLen - 1)
        /\ Cardinality(0 .. IndexLen - 1) = IF 0 > IndexLen - 1 THEN 0 ELSE IndexLen - 1 - 0 + 1
    BY <1>1, FS_Interval
  <1> QED BY <1>1, <1>2 DEF Index

(* A set of natural numbers has a least element. *)
LEMMA MinOfNaturals ==
  ASSUME NEW T \in SUBSET Nat, T # {}
  PROVE  Min(T) \in T /\ \A y \in T : Min(T) <= y
  BY LeastNatural DEF Min

(* arr_init: an empty array is well formed and holds no file. *)
LEMMA EmptyArray ==
  Placed(arr_init(Index)) /\ \A i \in Index : arr_init(Index).pos[i] = -1
  BY DEF Placed, arr_init, IsArray, PointsBack

(* arr_sorted_insert keeps the array right, whatever position the search
   returned. *)
LEMMA SortedInsertKeeps ==
  ASSUME NEW arr, Placed(arr), NEW f \in Index, arr.pos[f] = -1, NEW position
  PROVE  LET new == arr_sorted_insert(position, f, arr)
         IN  /\ Placed(new)
             /\ \A g \in Index : g # f => (new.pos[g] = -1 <=> arr.pos[g] = -1)
  BY InsertKeeps DEF Placed, arr_sorted_insert

LEMMA InsertByOffsetKeeps ==
  ASSUME NEW arr, Placed(arr), NEW f \in Index, arr.pos[f] = -1, NEW files
  PROVE  LET new == insert_by_offset(f, files, arr)
         IN  /\ Placed(new)
             /\ \A g \in Index : g # f => (new.pos[g] = -1 <=> arr.pos[g] = -1)
  BY SortedInsertKeeps, ZenonT(30) DEF insert_by_offset

LEMMA InsertByNameKeeps ==
  ASSUME NEW arr, Placed(arr), NEW f \in Index, arr.pos[f] = -1, NEW files
  PROVE  LET new == insert_by_name(f, files, arr)
         IN  /\ Placed(new)
             /\ \A g \in Index : g # f => (new.pos[g] = -1 <=> arr.pos[g] = -1)
  BY SortedInsertKeeps DEF insert_by_name

LEMMA ArrRemoveKeeps ==
  ASSUME NEW arr, Placed(arr), NEW f \in Index, arr.pos[f] # -1
  PROVE  LET new == arr_remove(arr.pos[f], arr)
         IN  /\ Placed(new) /\ new.pos[f] = -1
             /\ \A g \in Index : g # f => (new.pos[g] = -1 <=> arr.pos[g] = -1)
  BY RemoveKeeps DEF Placed

(* repack_helper changes offsets only, and the same ones in the file_t
   structs and in dir_table. *)
LEMMA RepackKeeps ==
  ASSUME NEW o, NEW files, NEW entries, NEW bytes, NEW u,
         IsTable(files), IsTable(entries)
  PROVE  LET r == repack_helper(o, files, entries, bytes, u)
         IN  /\ IsTable(r.file) /\ IsTable(r.dir)
             /\ \A i \in Index :
                  /\ r.file[i].name = files[i].name /\ r.file[i].length = files[i].length
                  /\ r.dir[i].name = entries[i].name /\ r.dir[i].length = entries[i].length
                  /\ SameOffset(files[i], entries[i]) => SameOffset(r.file[i], r.dir[i])
  <1> DEFINE new == RepackedOffsets(o, files)
             moved == {k \in 0 .. o.size - 1 : new[k] # OffsetAt(k, o, files)}
             F1 == {o.list[k] : k \in moved}
             r == repack_helper(o, files, entries, bytes, u)
             packedFile == [i \in DOMAIN files |->
                        IF i \in F1 THEN update_offset(files[i], new[o.pos[i]])
                        ELSE files[i]]
             packedDir == [i \in DOMAIN entries |->
                       IF i \in F1 THEN update_offset(entries[i], dir_offset(new[o.pos[i]]))
                       ELSE entries[i]]
             Good == /\ IsTable(r.file) /\ IsTable(r.dir)
                     /\ \A i \in Index :
                          /\ r.file[i].name = files[i].name
                          /\ r.file[i].length = files[i].length
                          /\ r.dir[i].name = entries[i].name
                          /\ r.dir[i].length = entries[i].length
                          /\ SameOffset(files[i], entries[i]) => SameOffset(r.file[i], r.dir[i])
  <1>1. \/ r.file = files /\ r.dir = entries
        \/ r.file = packedFile /\ r.dir = packedDir
    BY DEF repack_helper
  <1> HIDE DEF r, F1, new
  <1>2. ASSUME r.file = files, r.dir = entries PROVE Good
    BY <1>2
  <1>3. ASSUME r.file = packedFile, r.dir = packedDir PROVE Good
    <2>1. ASSUME NEW i \in Index
          PROVE  /\ IsFile(packedFile[i]) /\ IsFile(packedDir[i])
                 /\ packedFile[i].name = files[i].name
                 /\ packedFile[i].length = files[i].length
                 /\ packedDir[i].name = entries[i].name
                 /\ packedDir[i].length = entries[i].length
                 /\ SameOffset(files[i], entries[i])
                      => SameOffset(packedFile[i], packedDir[i])
      <3>1. IsFile(files[i]) /\ IsFile(entries[i]) /\ i \in DOMAIN files /\ i \in DOMAIN entries
        BY DEF IsTable
      <3>2. CASE i \in F1
        <4>1. packedFile[i] = [name |-> files[i].name, offset |-> new[o.pos[i]],
                               length |-> files[i].length]
          BY <3>1, <3>2 DEF update_offset
        <4>2. packedDir[i] = [name |-> entries[i].name, offset |-> dir_offset(new[o.pos[i]]),
                              length |-> entries[i].length]
          BY <3>1, <3>2 DEF update_offset
        <4>3. PICK f, e : f = packedFile[i] /\ e = packedDir[i]
          OBVIOUS
        <4>4. /\ IsFile(f) /\ IsFile(e) /\ f.name = files[i].name /\ f.length = files[i].length
              /\ e.name = entries[i].name /\ e.length = entries[i].length
          BY <4>1, <4>2, <4>3, SMTT(30) DEF IsFile
        <4>5. SameOffset(f, e)
          BY <4>1, <4>2, <4>3 DEF SameOffset, dir_offset
        <4> QED BY <4>3, <4>4, <4>5
      <3>3. CASE i \notin F1
        BY <3>1, <3>3
      <3> QED BY <3>2, <3>3
    <2>2. DOMAIN packedFile = Index /\ DOMAIN packedDir = Index
      BY DEF IsTable
    <2> QED BY <1>3, <2>1, <2>2 DEF IsTable
  <1>4. Good
    BY <1>1, <1>2, <1>3
  <1> QED BY <1>4 DEF r

(* lookup returns a file in use, or None. *)
LEMMA LookupLive ==
  ASSUME IInv, NEW a, lookup(a) # None
  PROVE  lookup(a) \in Index /\ index[lookup(a)] = 1
  <1> DEFINE k == arr_get_index([m \in 0 .. n_list.size - 1 |->
                                   cmp_name(update_file_name(a), file[n_list.list[m]])],
                                n_list.size, FALSE)
  <1>1. lookup(a) = IF k \in 0 .. n_list.size - 1 THEN n_list.list[k] ELSE None
    BY DEF lookup
  <1> HIDE DEF k
  <1>2. k \in 0 .. n_list.size - 1 /\ lookup(a) = n_list.list[k]
    BY <1>1
  <1>3. /\ n_list.list \in [0 .. n_list.size - 1 -> Index]
        /\ n_list.pos[n_list.list[k]] = k /\ k # -1
    BY <1>2 DEF IInv, ArraysInv, Placed, IsArray, PointsBack
  <1>4. lookup(a) \in Index /\ n_list.pos[lookup(a)] # -1
    BY <1>2, <1>3
  <1> QED BY <1>4 DEF IInv, ArraysInv

(* new_file_index finds a free entry when index_count says there is one: its
   assertion holds. *)
LEMMA NewIndexFree ==
  ASSUME IInv, ~ (index_count >= IndexLen)
  PROVE  new_file_index \in Index /\ index[new_file_index] = 0
  <1> DEFINE Free == {i \in Index : index[i] = 0}
  <1>1. Free # {}
    <2> SUFFICES ASSUME Free = {} PROVE FALSE
      OBVIOUS
    <2>1. Live = Index
      BY DEF Live, IInv, ControlInv
    <2> QED BY <2>1, IndexFinite DEF IInv, CountInv
  <1>2. Free \in SUBSET Nat
    BY IndexFinite DEF Index
  <1>3. Min(Free) \in Free
    BY <1>1, <1>2, MinOfNaturals
  <1> QED BY <1>3 DEF new_file_index

LEMMA LiveFinite == IsFiniteSet(Live) /\ Cardinality(Live) \in Nat
  BY IndexFinite, FS_Subset, FS_CardinalityType DEF Live

(* A step that leaves no entry in use. *)
LEMMA LostKeeps ==
  ASSUME IInv, MemoryLost, IsTable(dir'), phase' \in {"closed", "aborted", "faulted"}
  PROVE  IInv'
  <1>1. /\ file' = [i \in Index |-> NoFile] /\ scan' = 0
        /\ o_list' = arr_init(Index) /\ n_list' = arr_init(Index)
        /\ index' = [i \in Index |-> 0] /\ index_count' = 0
    BY DEF MemoryLost
  <1>2. ControlInv'
    BY <1>1, IndexFinite DEF ControlInv
  <1>3. TablesInv'
    BY <1>1 DEF TablesInv, IsTable, IsFile, NoFile
  <1>4. ArraysInv'
    BY <1>1, EmptyArray DEF ArraysInv
  <1>5. EntriesInv'
    BY <1>1 DEF EntriesInv, Scanned
  <1>6. CountInv'
    <2>1. Live' = {}
      BY <1>1 DEF Live
    <2> QED BY <1>1, <2>1, FS_EmptySet DEF CountInv
  <1> QED BY <1>2, <1>3, <1>4, <1>5, <1>6 DEF IInv

----------------------------------------------------------------------------
(* The steps *)

LEMMA InitHolds == Init => IInv
  <1> SUFFICES ASSUME Init PROVE IInv
    OBVIOUS
  <1>1. ControlInv
    BY IndexFinite DEF Init, ControlInv
  <1>2. TablesInv
    BY DEF Init, TablesInv, IsTable, IsFile, NoFile
  <1>3. ArraysInv
    BY EmptyArray DEF Init, ArraysInv
  <1>4. EntriesInv
    BY DEF Init, EntriesInv, Scanned
  <1>5. CountInv
    <2>1. Live = {}
      BY DEF Init, Live
    <2> QED BY <2>1, FS_EmptySet DEF Init, CountInv
  <1> QED BY <1>1, <1>2, <1>3, <1>4, <1>5 DEF IInv

LEMMA BeginStep ==
  ASSUME IInv, init_fs_begin
  PROVE  IInv'
  <1>1. /\ phase \in {"closed", "aborted"} /\ phase' = "init" /\ dir' = dir /\ file' = file
        /\ o_list' = o_list /\ n_list' = n_list /\ index' = index
        /\ index_count' = index_count /\ scan' = scan /\ scan = 0
    BY DEF init_fs_begin, disk, mem, IInv, ControlInv
  <1>2. Scanned' = Scanned
    BY <1>1 DEF Scanned
  <1> QED
    BY <1>1, <1>2
    DEF IInv, ControlInv, TablesInv, ArraysInv, EntriesInv, CountInv, Live

LEMMA EntryStep ==
  ASSUME IInv, init_fs_entry
  PROVE  IInv'
  <1> DEFINE entry == dir[scan]
             files == [file EXCEPT ![scan] =
                         update_offset(entry, IF entry.length = 0 THEN MAX_FILE_DATA_LEN
                                              ELSE entry.offset)]
  <1>1. /\ phase = "init" /\ phase' = "init" /\ scan \in Index /\ scan' = scan + 1
        /\ scan' \in 0 .. IndexLen /\ scan \in Nat /\ dir' = dir
    BY IndexFinite DEF init_fs_entry, disk, IInv, ControlInv, Index
  <1>2. index[scan] = 0
    <2>1. scan \notin Scanned
      BY <1>1 DEF Scanned
    <2>2. index[scan] \in {0, 1}
      BY <1>1 DEF IInv, ControlInv
    <2> QED BY <1>1, <2>1, <2>2 DEF IInv, EntriesInv
  <1>3. \A i \in Index : i \in Scanned' <=> i \in Scanned \/ i = scan
    BY <1>1, IndexFinite DEF Scanned, Index
  <1>4. CASE entry.name = 0
    <2>1. /\ file' = file /\ o_list' = o_list /\ n_list' = n_list
          /\ index' = index /\ index_count' = index_count
      BY <1>4 DEF init_fs_entry
    <2>2. ControlInv' /\ TablesInv' /\ ArraysInv' /\ CountInv'
      BY <1>1, <2>1 DEF IInv, ControlInv, TablesInv, ArraysInv, CountInv, Live
    <2>3. EntriesInv'
      BY <1>1, <1>2, <1>3, <1>4, <2>1 DEF IInv, EntriesInv
    <2> QED BY <2>2, <2>3 DEF IInv
  <1>5. CASE entry.name # 0
    <2>1. /\ file' = files
          /\ o_list' = insert_by_offset(scan, files, o_list)
          /\ n_list' = insert_by_name(scan, files, n_list)
          /\ index' = [index EXCEPT ![scan] = 1]
          /\ index_count' = index_count + 1
      BY <1>5 DEF init_fs_entry
    <2>2. /\ IsTable(dir) /\ IsTable(file) /\ index \in [Index -> {0, 1}]
          /\ Placed(o_list) /\ Placed(n_list)
          /\ o_list.pos[scan] = -1 /\ n_list.pos[scan] = -1
      BY <1>1, <1>2 DEF IInv, ControlInv, TablesInv, ArraysInv
    <2>3. ControlInv'
      BY <1>1, <2>1, <2>2 DEF ControlInv
    <2>4. TablesInv'
      BY <1>1, <2>1, <2>2 DEF TablesInv, IsTable, IsFile, update_offset
    <2>5. ArraysInv'
      <3> HIDE DEF files
      <3>1. /\ Placed(o_list')
            /\ \A g \in Index : g # scan => (o_list'.pos[g] = -1 <=> o_list.pos[g] = -1)
        BY <1>1, <2>1, <2>2, InsertByOffsetKeeps
      <3>2. /\ Placed(n_list')
            /\ \A g \in Index : g # scan => (n_list'.pos[g] = -1 <=> n_list.pos[g] = -1)
        BY <1>1, <2>1, <2>2, InsertByNameKeeps
      <3> QED BY <3>1, <3>2, <1>1, <2>1, <2>2 DEF IInv, ArraysInv
    <2>6. EntriesInv'
      <3> SUFFICES ASSUME NEW i \in Index
                   PROVE  /\ index'[i] = 1 <=> i \in Scanned' /\ dir[i].name # 0
                          /\ index'[i] = 1 => Agree(file'[i], dir[i])
        BY <1>1 DEF EntriesInv
      <3>1. CASE i = scan
        <4>1. file'[i] = update_offset(entry, IF entry.length = 0 THEN MAX_FILE_DATA_LEN
                                              ELSE entry.offset)
          BY <3>1, <1>1, <2>1, <2>2 DEF IsTable
        <4>2. Agree(file'[i], dir[i])
          BY <4>1, <3>1, LengthAssumption DEF Agree, SameOffset, update_offset
        <4> QED BY <4>2, <3>1, <1>1, <1>3, <1>5, <2>1, <2>2
      <3>2. CASE i # scan
        BY <3>2, <1>1, <1>3, <2>1, <2>2 DEF IInv, EntriesInv, IsTable
      <3> QED BY <3>1, <3>2
    <2>7. CountInv'
      <3>1. Live' = Live \cup {scan} /\ scan \notin Live
        BY <1>1, <1>2, <2>1, <2>2 DEF Live
      <3> QED BY <3>1, <2>1, LiveFinite, FS_AddElement DEF IInv, CountInv
    <2> QED BY <2>3, <2>4, <2>5, <2>6, <2>7 DEF IInv
  <1> QED BY <1>4, <1>5

LEMMA ReturnStep ==
  ASSUME IInv, init_fs_return
  PROVE  IInv'
  <1>1. /\ phase = "init" /\ scan = IndexLen /\ phase' = "open" /\ scan' = 0
        /\ dir' = dir /\ file' = file /\ o_list' = o_list /\ n_list' = n_list
        /\ index' = index /\ index_count' = index_count
    BY DEF init_fs_return, disk
  <1>2. Scanned' = Scanned
    BY <1>1 DEF Scanned, Index
  <1> QED
    BY <1>1, <1>2, IndexFinite
    DEF IInv, ControlInv, TablesInv, ArraysInv, EntriesInv, CountInv, Live

LEMMA CloseStep ==
  ASSUME IInv, close_fs
  PROVE  IInv'
  BY LostKeeps DEF close_fs, disk, IInv, TablesInv

(* A call that keeps the files and their names in use. *)
LEMMA UpdateKeeps ==
  ASSUME IInv, phase = "open", UNCHANGED <<phase, n_list, index, index_count, scan>>,
         IsTable(dir'), IsTable(file'), Placed(o_list'),
         \A i \in Index : o_list'.pos[i] # -1 => index[i] = 1,
         \A i \in Index : dir'[i].name # 0 <=> dir[i].name # 0,
         \A i \in Index : index[i] = 1 => Agree(file'[i], dir'[i])
  PROVE  IInv'
  <1>1. Scanned = Index /\ Scanned' = Index
    BY DEF Scanned
  <1>2. ControlInv' /\ TablesInv' /\ CountInv'
    BY DEF IInv, ControlInv, TablesInv, CountInv, Live
  <1>3. ArraysInv'
    BY DEF IInv, ArraysInv
  <1>4. EntriesInv'
    BY <1>1 DEF IInv, EntriesInv
  <1> QED BY <1>2, <1>3, <1>4 DEF IInv

LEMMA AbortKeeps ==
  ASSUME IInv, NEW dirNow, NEW dataNow, Abort(dirNow, dataNow), IsTable(dirNow)
  PROVE  IInv'
  BY LostKeeps DEF Abort

LEMMA FaultKeeps ==
  ASSUME IInv, Fault
  PROVE  IInv'
  BY LostKeeps DEF Fault, disk, IInv, TablesInv

(* The offset array and both tables are as right after resize_file_helper as
   before it, and only the length of file i changes besides offsets. *)
ResizedRight(r) ==
  /\ IsTable(r.file) /\ IsTable(r.dir) /\ Placed(r.o_list)
  /\ \A j \in Index : r.o_list.pos[j] # -1 => index[j] = 1
  /\ \A j \in Index : r.dir[j].name = dir[j].name
  /\ \A j \in Index : index[j] = 1 => Agree(r.file[j], r.dir[j])

LEMMA ResizeKeeps ==
  ASSUME IInv, NEW i \in Index, index[i] = 1, NEW length, NEW copy,
         ~ detach_fails(i, length)
  PROVE  LET r == resize_file_helper(i, length, copy)
         IN  /\ ResizedRight(r)
             /\ r.file[i].length = uint32(length) /\ r.dir[i].length = uint32(length)
             /\ \A j \in Index : r.file[j].name = file[j].name
             /\ \A j \in Index : j # i => /\ r.file[j].length = file[j].length
                                         /\ r.dir[j].length = dir[j].length
  <1> DEFINE others == arr_remove(o_list.pos[i], o_list)
             moves == detached(i, length)
             packs == moves /\ repack_required(i, length)
             kept == [file |-> file, dir |-> dir, data |-> data, hash_offset |-> -1]
             base == IF packs THEN repack_helper(others, file, dir, data, used) ELSE kept
             offset == IF packs THEN used - file[i].length
                       ELSE IF moves THEN 0 ELSE file[i].offset
             files == [base.file EXCEPT ![i] = update_offset(@, offset)]
             r == resize_file_helper(i, length, copy)
  <1>1. /\ r.file = [files EXCEPT ![i] = update_length(@, uint32(length))]
        /\ r.dir = [base.dir EXCEPT ![i] =
                      update_length(IF moves THEN update_offset(@, dir_offset(offset)) ELSE @,
                                    uint32(length))]
        /\ r.o_list = IF moves THEN insert_by_offset(i, files, others) ELSE o_list
    BY DEF resize_file_helper
  <1>2. /\ IsTable(dir) /\ IsTable(file) /\ Placed(o_list)
        /\ \A j \in Index : o_list.pos[j] # -1 => index[j] = 1
        /\ \A j \in Index : index[j] = 1 => Agree(file[j], dir[j])
    BY DEF IInv, TablesInv, ArraysInv, EntriesInv
  <1>3. /\ IsTable(base.file) /\ IsTable(base.dir)
        /\ \A j \in Index : /\ base.file[j].name = file[j].name
                            /\ base.file[j].length = file[j].length
                            /\ base.dir[j].name = dir[j].name
                            /\ base.dir[j].length = dir[j].length
                            /\ SameOffset(file[j], dir[j])
                                 => SameOffset(base.file[j], base.dir[j])
    <2>1. CASE packs
      <3>1. base = repack_helper(others, file, dir, data, used)
        BY <2>1
      <3> HIDE DEF base, others
      <3> QED BY <3>1, <1>2, RepackKeeps
    <2>2. CASE ~ packs
      BY <2>2, <1>2
    <2> QED BY <2>1, <2>2
  <1>4. moves \/ (~ packs /\ base = kept /\ offset = file[i].offset)
    OBVIOUS
  <1>5. moves => o_list.pos[i] # -1
    BY DEF detach_fails
  <1> HIDE DEF packs, offset, moves, base
  <1>6. Placed(r.o_list) /\ \A j \in Index : r.o_list.pos[j] # -1 => index[j] = 1
    <2>1. CASE moves
      <3>1. /\ Placed(others) /\ others.pos[i] = -1
            /\ \A g \in Index : g # i => (others.pos[g] = -1 <=> o_list.pos[g] = -1)
        BY <2>1, <1>2, <1>5, ArrRemoveKeeps
      <3>2. r.o_list = insert_by_offset(i, files, others)
        BY <2>1, <1>1
      <3> HIDE DEF others, files, r
      <3>3. /\ Placed(r.o_list)
            /\ \A g \in Index : g # i => (r.o_list.pos[g] = -1 <=> others.pos[g] = -1)
        BY <3>1, <3>2, InsertByOffsetKeeps
      <3> QED BY <3>1, <3>3, <1>2
    <2>2. CASE ~ moves
      BY <2>2, <1>1, <1>2
    <2> QED BY <2>1, <2>2
  <1>7. /\ \A j \in Index : j # i => r.file[j] = base.file[j] /\ r.dir[j] = base.dir[j]
        /\ r.file[i] = [name |-> base.file[i].name, offset |-> offset,
                        length |-> uint32(length)]
        /\ r.dir[i] = [name |-> base.dir[i].name,
                       offset |-> IF moves THEN dir_offset(offset) ELSE base.dir[i].offset,
                       length |-> uint32(length)]
        /\ DOMAIN r.file = Index /\ DOMAIN r.dir = Index
    BY <1>1, <1>3 DEF IsTable, update_offset, update_length
  <1> HIDE DEF r
  <1>8. IsTable(r.file) /\ IsTable(r.dir)
    <2>1. IsFile(r.file[i]) /\ IsFile(r.dir[i])
      BY <1>7 DEF IsFile
    <2> QED BY <2>1, <1>3, <1>7 DEF IsTable
  <1>9. \A j \in Index : r.dir[j].name = dir[j].name
    BY <1>3, <1>7
  <1>10. ASSUME NEW j \in Index, index[j] = 1 PROVE Agree(r.file[j], r.dir[j])
    <2>1. Agree(file[j], dir[j]) /\ SameOffset(base.file[j], base.dir[j])
      BY <1>2, <1>3, <1>10 DEF Agree
    <2>2. CASE j # i
      BY <2>1, <2>2, <1>3, <1>7 DEF Agree
    <2>3. CASE j = i
      <3>1. /\ r.file[j].name = r.dir[j].name /\ r.file[j].length = r.dir[j].length
            /\ r.file[j].offset = offset
        BY <2>1, <2>3, <1>3, <1>7 DEF Agree
      <3>2. SameOffset(r.file[j], r.dir[j])
        <4>1. CASE moves
          BY <4>1, <2>3, <1>7 DEF SameOffset, dir_offset
        <4>2. CASE ~ moves
          <5>1. base.file[j].offset = offset /\ r.dir[j].offset = base.dir[j].offset
            BY <4>2, <2>3, <1>4, <1>7
          <5> QED BY <5>1, <3>1, <2>1 DEF SameOffset
        <4> QED BY <4>1, <4>2
      <3> QED BY <3>1, <3>2 DEF Agree
    <2> QED BY <2>2, <2>3
  <1>11. /\ r.file[i].length = uint32(length) /\ r.dir[i].length = uint32(length)
         /\ \A j \in Index : r.file[j].name = file[j].name
         /\ \A j \in Index : j # i => /\ r.file[j].length = file[j].length
                                     /\ r.dir[j].length = dir[j].length
    BY <1>3, <1>7
  <1>12. ResizedRight(r)
    BY <1>6, <1>8, <1>9, <1>10 DEF ResizedRight
  <1> QED BY <1>11, <1>12 DEF r

LEMMA ResizeStep ==
  ASSUME IInv, NEW a, NEW length, resize_file(a, length)
  PROVE  IInv'
  <1> DEFINE i == lookup(a)
             r == resize_file_helper(i, length, file[i].length)
  <1>1. i \in Index /\ index[i] = 1 /\ phase = "open"
    BY LookupLive DEF resize_file, resize_code
  <1>2. IsTable(dir)
    BY DEF IInv, TablesInv
  <1> HIDE DEF i
  <1>3. CASE detach_fails(i, length)
    <2>1. Abort(dir, data)
      BY <1>3 DEF resize_file, i
    <2> QED BY <2>1, <1>2, AbortKeeps
  <1>4. CASE ~ detach_fails(i, length)
    <2>1. ResizedRight(r)
      BY <1>1, <1>4, ResizeKeeps
    <2>2. \/ Abort(r.dir, r.data)
          \/ Fault
          \/ /\ file' = r.file /\ dir' = r.dir /\ o_list' = r.o_list
             /\ UNCHANGED <<phase, n_list, index, index_count, scan>>
      BY <1>4 DEF resize_file, i
    <2> HIDE DEF r
    <2>3. CASE Abort(r.dir, r.data)
      BY <2>1, <2>3, AbortKeeps DEF ResizedRight
    <2>4. CASE Fault
      BY <2>4, FaultKeeps
    <2>5. CASE /\ file' = r.file /\ dir' = r.dir /\ o_list' = r.o_list
               /\ UNCHANGED <<phase, n_list, index, index_count, scan>>
      BY <2>1, <2>5, <1>1, UpdateKeeps DEF ResizedRight
    <2> QED BY <2>2, <2>3, <2>4, <2>5
  <1> QED BY <1>3, <1>4

LEMMA WriteStep ==
  ASSUME IInv, NEW a, NEW offset, NEW buf, write_file(a, offset, buf)
  PROVE  IInv'
  <1> DEFINE i == lookup(a)
             end == offset + Len(buf)
             grows == end > file[i].length
             r == IF grows THEN resize_file_helper(i, end, offset)
                  ELSE [file |-> file, dir |-> dir, data |-> data, o_list |-> o_list,
                        hash_offset |-> -1]
  <1>1. i \in Index /\ index[i] = 1 /\ phase = "open"
    BY LookupLive DEF write_file, write_code
  <1>2. /\ IsTable(dir) /\ IsTable(file) /\ Placed(o_list)
        /\ \A j \in Index : o_list.pos[j] # -1 => index[j] = 1
        /\ \A j \in Index : index[j] = 1 => Agree(file[j], dir[j])
    BY DEF IInv, TablesInv, ArraysInv, EntriesInv
  <1> HIDE DEF i
  <1>3. \/ grows /\ detach_fails(i, end) /\ Abort(dir, data)
        \/ Fault
        \/ /\ ~ (grows /\ detach_fails(i, end))
           /\ file' = r.file /\ dir' = r.dir /\ o_list' = r.o_list
           /\ UNCHANGED <<phase, n_list, index, index_count, scan>>
    BY DEF write_file, i
  <1>4. CASE Abort(dir, data)
    BY <1>2, <1>4, AbortKeeps
  <1>5. CASE Fault
    BY <1>5, FaultKeeps
  <1>6. CASE /\ ~ (grows /\ detach_fails(i, end))
             /\ file' = r.file /\ dir' = r.dir /\ o_list' = r.o_list
             /\ UNCHANGED <<phase, n_list, index, index_count, scan>>
    <2>1. ResizedRight(r)
      <3>1. CASE grows
        <4>1. r = resize_file_helper(i, end, offset)
          BY <3>1
        <4> HIDE DEF r, end
        <4> QED BY <4>1, <3>1, <1>1, <1>6, ResizeKeeps
      <3>2. CASE ~ grows
        BY <3>2, <1>2 DEF ResizedRight
      <3> QED BY <3>1, <3>2
    <2> HIDE DEF r
    <2> QED BY <2>1, <1>1, <1>6, UpdateKeeps DEF ResizedRight
  <1> QED BY <1>3, <1>4, <1>5, <1>6

LEMMA RenameStep ==
  ASSUME IInv, NEW a \in FileName, NEW b \in FileName, rename_file(a, b)
  PROVE  IInv'
  <1> DEFINE i == lookup(a)
  <1>1. i \in Index /\ index[i] = 1 /\ phase = "open"
    BY LookupLive DEF rename_file, rename_code
  <1>2. /\ IsTable(dir) /\ IsTable(file) /\ Placed(o_list)
        /\ \A j \in Index : o_list.pos[j] # -1 => index[j] = 1
        /\ \A j \in Index : index[j] = 1 => dir[j].name # 0 /\ Agree(file[j], dir[j])
    BY DEF IInv, TablesInv, ArraysInv, EntriesInv
  <1>3. /\ file' = [file EXCEPT ![i] = update_name(@, update_file_name(b))]
        /\ dir' = [dir EXCEPT ![i] = update_name(@, update_file_name(b))]
        /\ o_list' = o_list /\ UNCHANGED <<phase, n_list, index, index_count, scan>>
    BY DEF rename_file
  <1> HIDE DEF i
  <1>4. update_file_name(b) # 0
    BY VfsAssumption DEF update_file_name
  <1>5. /\ IsTable(dir') /\ IsTable(file')
        /\ \A j \in Index : j # i => dir'[j] = dir[j] /\ file'[j] = file[j]
        /\ dir'[i] = update_name(dir[i], update_file_name(b))
        /\ file'[i] = update_name(file[i], update_file_name(b))
    BY <1>1, <1>2, <1>3 DEF IsTable, IsFile, update_name
  <1>6. /\ dir'[i].name = update_file_name(b) /\ Agree(file[i], dir[i])
        /\ Agree(file'[i], dir'[i])
    BY <1>1, <1>2, <1>5 DEF Agree, SameOffset, update_name
  <1>7. /\ \A j \in Index : dir'[j].name # 0 <=> dir[j].name # 0
        /\ \A j \in Index : index[j] = 1 => Agree(file'[j], dir'[j])
    BY <1>1, <1>2, <1>4, <1>5, <1>6
  <1> QED BY <1>1, <1>2, <1>3, <1>5, <1>7, UpdateKeeps

LEMMA RepackStep ==
  ASSUME IInv, repack
  PROVE  IInv'
  <1> DEFINE r == repack_helper(o_list, file, dir, data, used)
  <1>1. /\ phase = "open" /\ file' = r.file /\ dir' = r.dir
        /\ o_list' = o_list /\ UNCHANGED <<phase, n_list, index, index_count, scan>>
    BY DEF repack
  <1>2. /\ IsTable(dir) /\ IsTable(file) /\ Placed(o_list)
        /\ \A j \in Index : o_list.pos[j] # -1 => index[j] = 1
        /\ \A j \in Index : index[j] = 1 => Agree(file[j], dir[j])
    BY DEF IInv, TablesInv, ArraysInv, EntriesInv
  <1>3. /\ IsTable(r.file) /\ IsTable(r.dir)
        /\ \A j \in Index :
             /\ r.file[j].name = file[j].name /\ r.file[j].length = file[j].length
             /\ r.dir[j].name = dir[j].name /\ r.dir[j].length = dir[j].length
             /\ SameOffset(file[j], dir[j]) => SameOffset(r.file[j], r.dir[j])
    BY <1>2, RepackKeeps
  <1> HIDE DEF r
  <1>4. \A j \in Index : index[j] = 1 => Agree(r.file[j], r.dir[j])
    BY <1>2, <1>3 DEF Agree
  <1> QED BY <1>1, <1>2, <1>3, <1>4, UpdateKeeps

LEMMA HashSteps ==
  ASSUME IInv, compute_hash_tree \/ \E b \in Block : compute_hash_block(b)
  PROVE  IInv'
  <1>1. phase = "open" /\ UNCHANGED <<phase, dir, mem>>
    BY DEF compute_hash_tree, compute_hash_block
  <1> QED
    BY <1>1, UpdateKeeps DEF mem, IInv, TablesInv, ArraysInv, EntriesInv

LEMMA DeleteStep ==
  ASSUME IInv, NEW a, delete_file(a)
  PROVE  IInv'
  <1> DEFINE i == lookup(a)
  <1>1. i \in Index /\ index[i] = 1 /\ phase = "open"
    BY LookupLive DEF delete_file, delete_code
  <1>2. /\ IsTable(dir) /\ IsTable(file) /\ Placed(o_list) /\ Placed(n_list)
        /\ index \in [Index -> {0, 1}]
    BY DEF IInv, ControlInv, TablesInv, ArraysInv
  <1>3. CASE o_list.pos[i] < 0 \/ n_list.pos[i] < 0
    <2>1. Abort(dir, data)
      BY <1>3 DEF delete_file
    <2> QED BY <2>1, <1>2, AbortKeeps
  <1>4. CASE ~ (o_list.pos[i] < 0 \/ n_list.pos[i] < 0)
    <2>1. /\ phase' = "open" /\ scan' = scan
          /\ index' = [index EXCEPT ![i] = 0] /\ index_count' = index_count - 1
          /\ o_list' = arr_remove(o_list.pos[i], o_list)
          /\ n_list' = arr_remove(n_list.pos[i], n_list)
          /\ dir' = [dir EXCEPT ![i] = NoFile] /\ file' = [file EXCEPT ![i] = NoFile]
      BY <1>1, <1>4 DEF delete_file
    <2> HIDE DEF i
    <2>2. o_list.pos[i] # -1 /\ n_list.pos[i] # -1
      BY <1>4
    <2>3. ControlInv'
      BY <1>1, <1>2, <2>1 DEF IInv, ControlInv
    <2>4. TablesInv'
      BY <1>1, <1>2, <2>1 DEF TablesInv, IsTable, IsFile, NoFile
    <2>5. ArraysInv'
      <3>1. /\ Placed(o_list') /\ o_list'.pos[i] = -1
            /\ \A g \in Index : g # i => (o_list'.pos[g] = -1 <=> o_list.pos[g] = -1)
        BY <1>1, <1>2, <2>1, <2>2, ArrRemoveKeeps
      <3>2. /\ Placed(n_list') /\ n_list'.pos[i] = -1
            /\ \A g \in Index : g # i => (n_list'.pos[g] = -1 <=> n_list.pos[g] = -1)
        BY <1>1, <1>2, <2>1, <2>2, ArrRemoveKeeps
      <3> QED BY <3>1, <3>2, <1>2, <2>1 DEF IInv, ArraysInv
    <2>6. EntriesInv'
      <3>1. Scanned = Index /\ Scanned' = Index
        BY <1>1, <2>1 DEF Scanned
      <3> QED BY <3>1, <1>1, <1>2, <2>1 DEF IInv, EntriesInv, IsTable, NoFile
    <2>7. CountInv'
      <3>1. Live' = Live \ {i} /\ i \in Live
        BY <1>1, <1>2, <2>1 DEF Live
      <3> QED BY <3>1, <2>1, LiveFinite, FS_RemoveElement DEF IInv, CountInv
    <2> QED BY <2>3, <2>4, <2>5, <2>6, <2>7 DEF IInv
  <1> QED BY <1>3, <1>4

LEMMA CreateStep ==
  ASSUME IInv, NEW a \in FileName, NEW length, create_file(a, length)
  PROVE  IInv'
  <1> DEFINE i == new_file_index
             place == new_file_offset(length, o_list, file)
             packed == repack_helper(o_list, file, dir, data, used)
             base == IF place.repack THEN packed
                     ELSE [file |-> file, dir |-> dir, data |-> data, hash_offset |-> -1]
             offset == IF place.repack THEN used ELSE place.offset
             name == update_file_name(a)
             f == [name |-> name, offset |-> offset, length |-> uint32(length)]
             e == [name |-> name, offset |-> dir_offset(offset), length |-> uint32(length)]
             files == [base.file EXCEPT ![i] = f]
             dirNow == [base.dir EXCEPT ![i] = e]
  <1>1. i \in Index /\ index[i] = 0 /\ phase = "open" /\ name # 0
    BY NewIndexFree, VfsAssumption DEF create_file, create_code, update_file_name
  <1>2. /\ IsTable(dir) /\ IsTable(file) /\ Placed(o_list) /\ Placed(n_list)
        /\ o_list.pos[i] = -1 /\ n_list.pos[i] = -1 /\ index \in [Index -> {0, 1}]
    BY <1>1 DEF IInv, ControlInv, TablesInv, ArraysInv
  <1>3. \/ Abort(dirNow, base.data)
        \/ Fault
        \/ /\ file' = files /\ dir' = dirNow
           /\ o_list' = insert_by_offset(i, files, o_list)
           /\ n_list' = insert_by_name(i, files, n_list)
           /\ index' = [index EXCEPT ![i] = 1] /\ index_count' = index_count + 1
           /\ phase' = phase /\ scan' = scan
    BY DEF create_file
  <1> HIDE DEF i, place, offset, name
  <1>4. /\ IsTable(base.file) /\ IsTable(base.dir)
        /\ \A j \in Index : /\ base.file[j].name = file[j].name
                            /\ base.file[j].length = file[j].length
                            /\ base.dir[j].name = dir[j].name
                            /\ base.dir[j].length = dir[j].length
                            /\ SameOffset(file[j], dir[j])
                                 => SameOffset(base.file[j], base.dir[j])
    <2>1. CASE place.repack
      <3>1. base = packed
        BY <2>1
      <3> HIDE DEF base
      <3> QED BY <3>1, <1>2, RepackKeeps
    <2>2. CASE ~ place.repack
      BY <2>2, <1>2
    <2> QED BY <2>1, <2>2
  <1> HIDE DEF base
  <1>5. IsFile(f) /\ IsFile(e) /\ Agree(f, e) /\ e.name # 0
    BY <1>1 DEF IsFile, Agree, SameOffset, dir_offset
  <1> HIDE DEF f, e
  <1>6. /\ IsTable(files) /\ IsTable(dirNow) /\ files[i] = f /\ dirNow[i] = e
        /\ \A j \in Index : j # i => files[j] = base.file[j] /\ dirNow[j] = base.dir[j]
    BY <1>1, <1>4, <1>5 DEF IsTable
  <1> HIDE DEF files, dirNow
  <1>7. CASE Abort(dirNow, base.data)
    BY <1>6, <1>7, AbortKeeps
  <1>8. CASE Fault
    BY <1>8, FaultKeeps
  <1>9. CASE /\ file' = files /\ dir' = dirNow
             /\ o_list' = insert_by_offset(i, files, o_list)
             /\ n_list' = insert_by_name(i, files, n_list)
             /\ index' = [index EXCEPT ![i] = 1] /\ index_count' = index_count + 1
             /\ phase' = phase /\ scan' = scan
    <2>1. ControlInv'
      BY <1>1, <1>2, <1>9 DEF IInv, ControlInv
    <2>2. TablesInv'
      BY <1>6, <1>9 DEF TablesInv
    <2>3. ArraysInv'
      <3>1. /\ Placed(o_list')
            /\ \A g \in Index : g # i => (o_list'.pos[g] = -1 <=> o_list.pos[g] = -1)
        BY <1>1, <1>2, <1>9, InsertByOffsetKeeps
      <3>2. /\ Placed(n_list')
            /\ \A g \in Index : g # i => (n_list'.pos[g] = -1 <=> n_list.pos[g] = -1)
        BY <1>1, <1>2, <1>9, InsertByNameKeeps
      <3> QED BY <3>1, <3>2, <1>1, <1>2, <1>9 DEF IInv, ArraysInv
    <2>4. EntriesInv'
      <3>1. Scanned = Index /\ Scanned' = Index
        BY <1>1, <1>9 DEF Scanned
      <3>2. ASSUME NEW j \in Index
            PROVE  /\ index'[j] = 1 <=> dirNow[j].name # 0
                   /\ index'[j] = 1 => Agree(files[j], dirNow[j])
        <4>1. CASE j = i
          BY <4>1, <1>1, <1>2, <1>5, <1>6, <1>9
        <4>2. CASE j # i
          <5>1. index'[j] = index[j] /\ files[j] = base.file[j] /\ dirNow[j] = base.dir[j]
            BY <4>2, <1>2, <1>6, <1>9
          <5>2. /\ index[j] = 1 <=> dir[j].name # 0
                /\ index[j] = 1 => Agree(file[j], dir[j])
            BY <3>1 DEF IInv, EntriesInv
          <5> QED BY <5>1, <5>2, <1>4 DEF Agree
        <4> QED BY <4>1, <4>2
      <3> QED BY <3>1, <3>2, <1>9 DEF EntriesInv
    <2>5. CountInv'
      <3>1. Live' = Live \cup {i} /\ i \notin Live
        BY <1>1, <1>2, <1>9 DEF Live
      <3> QED BY <3>1, <1>9, LiveFinite, FS_AddElement DEF IInv, CountInv
    <2> QED BY <2>1, <2>2, <2>3, <2>4, <2>5 DEF IInv
  <1> QED BY <1>3, <1>7, <1>8, <1>9

LEMMA NextStep ==
  ASSUME IInv, [Next]_vars
  PROVE  IInv'
  <1>1. CASE init_fs_begin \/ init_fs_entry \/ init_fs_return \/ close_fs
    BY <1>1, BeginStep, EntryStep, ReturnStep, CloseStep
  <1>2. CASE \E a \in FileName, length \in CreateLengths : create_file(a, length)
    BY <1>2, CreateStep
  <1>3. CASE \E a \in FileName, length \in ResizeLengths : resize_file(a, length)
    BY <1>3, ResizeStep
  <1>4. CASE \E a \in FileName, offset \in WriteOffsets, buf \in Buffers :
               write_file(a, offset, buf)
    BY <1>4, WriteStep
  <1>5. CASE \E a \in FileName : delete_file(a)
    BY <1>5, DeleteStep
  <1>6. CASE \E c \in Renames : rename_file(c[1], c[2])
    <2>1. PICK c \in Renames : rename_file(c[1], c[2])
      BY <1>6
    <2>2. c[1] \in FileName /\ c[2] \in FileName
      BY <2>1, VfsAssumption
    <2> QED BY <2>1, <2>2, RenameStep
  <1>7. CASE repack
    BY <1>7, RepackStep
  <1>8. CASE compute_hash_tree \/ \E b \in Block : compute_hash_block(b)
    BY <1>8, HashSteps
  <1>9. CASE UNCHANGED vars
    <2>1. UNCHANGED <<phase, dir, file, o_list, n_list, index, index_count, scan>>
      BY <1>9 DEF vars, disk, mem
    <2>2. Scanned' = Scanned
      BY <2>1 DEF Scanned
    <2> QED
      BY <2>1, <2>2
      DEF IInv, ControlInv, TablesInv, ArraysInv, EntriesInv, CountInv, Live
  <1> QED BY <1>1, <1>2, <1>3, <1>4, <1>5, <1>6, <1>7, <1>8, <1>9 DEF Next

LEMMA Invariance == Spec => []IInv
  BY InitHolds, NextStep, PTL DEF Spec

----------------------------------------------------------------------------
(* The theorems *)

(* arr.c:172 asserts that an array never exceeds its capacity, and every
   index that the operations use is one of dir_table. *)
THEOREM TypeCorrect == Spec => []TypeOK
  <1>1. IInv => TypeOK
    <2> SUFFICES ASSUME IInv PROVE TypeOK
      OBVIOUS
    <2>1. Placed(o_list) /\ Placed(n_list)
      BY DEF IInv, ArraysInv
    <2>2. o_list.size <= IndexLen /\ n_list.size <= IndexLen
      BY <2>1, IndexFinite, ArraySize DEF Placed
    <2> QED BY <2>1, <2>2 DEF TypeOK, IInv, ControlInv, TablesInv, IsTable, Placed
  <1> QED BY <1>1, Invariance, PTL

(* o_index and n_index of every file_t point back to its element. *)
THEOREM BackPointersRight == Spec => []BackPointers
  <1>1. IInv => BackPointers
    BY DEF IInv, ArraysInv, Placed, BackPointers
  <1> QED BY <1>1, Invariance, PTL

(* What runs in memory and what a restart would find in dir_table agree after
   every call, for every order of calls, moves by repack included. *)
THEOREM MemoryMatchesDisk == Spec => []EntriesAgree
  <1>1. IInv => EntriesAgree
    <2> SUFFICES ASSUME IInv, phase = "open"
                 PROVE  /\ Listed = Live
                        /\ \A i \in Live : Agree(file[i], dir[i])
      BY DEF EntriesAgree, Agree, SameOffset
    <2> QED BY DEF IInv, EntriesInv, Scanned, Listed, Live
  <1> QED BY <1>1, Invariance, PTL

(* What create_file tests protects every assertion that it can meet. *)
THEOREM CreateHasRoom == Spec => []RoomForEntry
  <1>1. ASSUME IInv PROVE RoomForEntry
    <2> SUFFICES ASSUME index_count < IndexLen
                 PROVE  /\ \E i \in Index : index[i] = 0
                        /\ index[new_file_index] = 0
                        /\ o_list.size < IndexLen /\ o_list.pos[new_file_index] = -1
                        /\ n_list.size < IndexLen /\ n_list.pos[new_file_index] = -1
      BY DEF RoomForEntry
    <2>1. index_count \in Nat
      BY <1>1, LiveFinite DEF IInv, CountInv
    <2>2. new_file_index \in Index /\ index[new_file_index] = 0
      BY <1>1, <2>1, IndexFinite, NewIndexFree
    <2>3. /\ Placed(o_list) /\ o_list.pos[new_file_index] = -1
          /\ Placed(n_list) /\ n_list.pos[new_file_index] = -1
      BY <1>1, <2>2 DEF IInv, ArraysInv
    <2>4. o_list.size < IndexLen /\ n_list.size < IndexLen
      BY <2>2, <2>3, IndexFinite, ArraySize DEF Placed
    <2> QED BY <2>2, <2>3, <2>4
  <1> QED BY <1>1, Invariance, PTL

----------------------------------------------------------------------------
(* What each step does to the names and the lengths *)

LengthFits == FileDataLen < MAX_FILE_DATA_LEN

SameEntry(e, f) == e.name = f.name /\ e.length = f.length

(* dir_table and the file_t structs keep every name and every length but
   those of file i. *)
OthersSame(i) ==
  \A j \in Index : j # i => SameEntry(dir'[j], dir[j]) /\ SameEntry(file'[j], file[j])

(* A step that ends the process; dir_table keeps its names and lengths. *)
Ends ==
  /\ phase' \in {"closed", "aborted", "faulted"} /\ MemoryLost
  /\ \A j \in Index : SameEntry(dir'[j], dir[j])

(* File i, which stays where it is in the name array, gets the length, and
   the bytes in use change with it. *)
Resizes(i, length) ==
  /\ phase' = "open" /\ UNCHANGED <<n_list, index, index_count, scan>>
  /\ dir'[i].name = dir[i].name /\ file'[i].name = file[i].name
  /\ dir'[i].length = length /\ file'[i].length = length
  /\ OthersSame(i)
  /\ used' = used + length - file[i].length

Creates(i, name, length) ==
  /\ phase' = "open" /\ scan' = scan
  /\ index' = [index EXCEPT ![i] = 1] /\ index_count' = index_count + 1
  /\ n_list' = insert_by_name(i, file', n_list)
  /\ dir'[i].name = name /\ file'[i].name = name
  /\ dir'[i].length = length /\ file'[i].length = length
  /\ OthersSame(i)
  /\ used' = used + length

Deletes(i) ==
  /\ phase' = "open" /\ scan' = scan
  /\ index' = [index EXCEPT ![i] = 0] /\ index_count' = index_count - 1
  /\ n_list' = arr_remove(n_list.pos[i], n_list)
  /\ SameEntry(dir'[i], NoFile) /\ SameEntry(file'[i], NoFile)
  /\ OthersSame(i)
  /\ used' = used - file[i].length

Relabels(i, name) ==
  /\ phase' = "open" /\ UNCHANGED <<n_list, index, index_count, scan, used>>
  /\ dir'[i].name = name /\ file'[i].name = name
  /\ dir'[i].length = dir[i].length /\ file'[i].length = file[i].length
  /\ OthersSame(i)

(* Every name and length stays. *)
Keeps ==
  /\ phase' = "open" /\ UNCHANGED <<n_list, index, index_count, scan, used>>
  /\ \A j \in Index : SameEntry(dir'[j], dir[j]) /\ SameEntry(file'[j], file[j])

LEMMA Uint32Fits == LengthFits => \A length \in 0 .. FileDataLen : uint32(length) = length
  BY LengthAssumption DEF LengthFits, uint32

(* The sizes of all live files are accounted for in "used". *)
AllBytes == [i \in Index |-> dir[i].length]
ScannedBytes == [i \in Index |-> IF i \in Scanned THEN dir[i].length ELSE 0]

SizedInv ==
  /\ \A i \in Index : dir[i].length \in Nat /\ (dir[i].name = 0 => dir[i].length = 0)
  /\ SumFunctionOnSet(AllBytes, Index) <= FileDataLen
  /\ used = SumFunctionOnSet(ScannedBytes, Index)

(* Between calls "used" is the sum of all lengths in dir_table, and no file
   is longer. *)
LEMMA UsedWhenOpen ==
  ASSUME IInv, SizedInv, phase = "open"
  PROVE  /\ used = SumFunctionOnSet(AllBytes, Index)
         /\ used \in 0 .. FileDataLen
         /\ \A i \in Index : dir[i].length \in 0 .. used
         /\ \A i \in Index : index[i] = 1 => file[i].length = dir[i].length
  <1>1. Scanned = Index
    BY DEF Scanned
  <1>2. \A i \in Index : ScannedBytes[i] = AllBytes[i]
    BY <1>1 DEF ScannedBytes, AllBytes
  <1>3. used = SumFunctionOnSet(AllBytes, Index)
    BY <1>2, IndexFinite, SumSame DEF SizedInv
  <1>4. \A i \in Index : AllBytes[i] \in Nat /\ AllBytes[i] = dir[i].length
    BY DEF AllBytes, SizedInv
  <1>5. SumFunctionOnSet(AllBytes, Index) \in Nat
    BY <1>4, IndexFinite, SumSplit
  <1>6. \A i \in Index : AllBytes[i] <= SumFunctionOnSet(AllBytes, Index)
    BY <1>4, IndexFinite, SumChange
  <1>7. \A i \in Index : index[i] = 1 => file[i].length = dir[i].length
    BY DEF IInv, EntriesInv, Agree
  <1> HIDE DEF AllBytes
  <1>8. FileDataLen \in Nat
    BY LengthAssumption
  <1> QED BY <1>3, <1>4, <1>5, <1>6, <1>7, <1>8 DEF SizedInv

(* What the tests of the calls leave of the lengths. *)
LEMMA CodesBound ==
  ASSUME IInv, SizedInv, phase = "open", NEW a
  PROVE  /\ \A length \in Nat : create_code(a, length) = 0 => length \in 0 .. FileDataLen
         /\ \A length \in Nat : resize_code(a, length) = 0 => length \in 0 .. FileDataLen
         /\ \A offset \in Nat, count \in Nat : write_code(a, offset, count) = 0 =>
              offset + count \in 0 .. FileDataLen
  <1>1. used \in 0 .. FileDataLen /\ FileDataLen \in Nat
    BY UsedWhenOpen, LengthAssumption
  <1>2. lookup(a) # None => file[lookup(a)].length \in 0 .. used
    BY LookupLive, UsedWhenOpen
  <1> QED BY <1>1, <1>2 DEF create_code, resize_code, write_code

LEMMA CreateEffect ==
  ASSUME IInv, SizedInv, LengthFits, NEW a \in FileName, NEW length \in Nat,
         create_file(a, length)
  PROVE  \/ Ends
         \/ /\ new_file_index \in Index /\ index[new_file_index] = 0
            /\ create_code(a, length) = 0 /\ phase = "open"
            /\ Creates(new_file_index, Kept[a], length)
  <1> DEFINE i == new_file_index
             place == new_file_offset(length, o_list, file)
             packed == repack_helper(o_list, file, dir, data, used)
             base == IF place.repack THEN packed
                     ELSE [file |-> file, dir |-> dir, data |-> data, hash_offset |-> -1]
             offset == IF place.repack THEN used ELSE place.offset
             name == update_file_name(a)
             f == [name |-> name, offset |-> offset, length |-> uint32(length)]
             e == [name |-> name, offset |-> dir_offset(offset), length |-> uint32(length)]
             files == [base.file EXCEPT ![i] = f]
             dirNow == [base.dir EXCEPT ![i] = e]
  <1>1. i \in Index /\ index[i] = 0 /\ phase = "open" /\ create_code(a, length) = 0
    BY NewIndexFree DEF create_file, create_code
  <1>2. length \in 0 .. FileDataLen /\ uint32(length) = length /\ ~ (length >= MAX_FILE_DATA_LEN)
    <2>1. length \in 0 .. FileDataLen
      BY <1>1, CodesBound
    <2> QED BY <2>1, Uint32Fits, LengthAssumption DEF LengthFits
  <1>3. \/ Fault
        \/ /\ file' = files /\ dir' = dirNow
           /\ n_list' = insert_by_name(i, files, n_list)
           /\ index' = [index EXCEPT ![i] = 1] /\ index_count' = index_count + 1
           /\ phase' = phase /\ scan' = scan /\ used' = used + length
    BY <1>2 DEF create_file
  <1>4. CASE Fault
    BY <1>4 DEF Fault, Ends, disk, SameEntry
  <1>5. CASE ~ Fault
    <2>1. IsTable(dir) /\ IsTable(file)
      BY DEF IInv, TablesInv
    <2>2. name = Kept[a]
      BY DEF update_file_name
    <2> HIDE DEF i, place, offset, name
    <2>3. /\ IsTable(base.file) /\ IsTable(base.dir)
          /\ \A j \in Index : SameEntry(base.dir[j], dir[j]) /\ SameEntry(base.file[j], file[j])
      <3>1. CASE place.repack
        <4>1. base = packed
          BY <3>1
        <4> HIDE DEF base
        <4> QED BY <4>1, <2>1, RepackKeeps DEF SameEntry
      <3>2. CASE ~ place.repack
        BY <3>2, <2>1 DEF SameEntry
      <3> QED BY <3>1, <3>2
    <2> HIDE DEF base
    <2>4. /\ f.name = Kept[a] /\ e.name = Kept[a] /\ f.length = length /\ e.length = length
      BY <1>2, <2>2
    <2> HIDE DEF f, e
    <2>5. /\ files[i] = f /\ dirNow[i] = e
          /\ \A j \in Index : j # i => files[j] = base.file[j] /\ dirNow[j] = base.dir[j]
      BY <1>1, <2>3 DEF IsTable
    <2> HIDE DEF files, dirNow
    <2>6. file' = files /\ dir' = dirNow
      BY <1>3, <1>5
    <2>7. OthersSame(i)
      BY <2>3, <2>5, <2>6 DEF OthersSame
    <2>8. Creates(i, Kept[a], length)
      BY <1>1, <1>3, <1>5, <2>4, <2>5, <2>6, <2>7 DEF Creates
    <2> QED BY <1>1, <2>8 DEF i
  <1> QED BY <1>4, <1>5

LEMMA ResizeEffect ==
  ASSUME IInv, SizedInv, LengthFits, NEW a \in FileName, NEW length \in Nat,
         resize_file(a, length)
  PROVE  \/ Ends
         \/ /\ lookup(a) \in Index /\ index[lookup(a)] = 1
            /\ resize_code(a, length) = 0 /\ phase = "open"
            /\ Resizes(lookup(a), length)
  <1> DEFINE i == lookup(a)
             r == resize_file_helper(i, length, file[i].length)
  <1>1. i \in Index /\ index[i] = 1 /\ phase = "open" /\ resize_code(a, length) = 0
    BY LookupLive DEF resize_file, resize_code
  <1>2. length \in 0 .. FileDataLen /\ uint32(length) = length
    BY <1>1, CodesBound, Uint32Fits
  <1>3. ~ (length - file[i].length >= MAX_FILE_DATA_LEN)
    <2>1. file[i].length \in Nat
      BY <1>1, UsedWhenOpen
    <2> HIDE DEF i
    <2> QED BY <1>2, <2>1, LengthAssumption DEF LengthFits
  <1>4. \/ Abort(dir, data) \/ Fault
        \/ /\ ~ detach_fails(i, length) /\ file' = r.file /\ dir' = r.dir
           /\ UNCHANGED <<phase, n_list, index, index_count, scan>>
           /\ used' = used + length - file[i].length
    BY <1>3 DEF resize_file
  <1> HIDE DEF i
  <1>5. CASE Abort(dir, data)
    BY <1>5 DEF Abort, Ends, SameEntry
  <1>6. CASE Fault
    BY <1>6 DEF Fault, Ends, disk, SameEntry
  <1>7. CASE /\ ~ detach_fails(i, length) /\ file' = r.file /\ dir' = r.dir
             /\ UNCHANGED <<phase, n_list, index, index_count, scan>>
             /\ used' = used + length - file[i].length
    <2>1. /\ ResizedRight(r) /\ r.file[i].length = length /\ r.dir[i].length = length
          /\ \A j \in Index : r.file[j].name = file[j].name
          /\ \A j \in Index : j # i => /\ r.file[j].length = file[j].length
                                      /\ r.dir[j].length = dir[j].length
      BY <1>1, <1>2, <1>7, ResizeKeeps
    <2>2. \A j \in Index : r.dir[j].name = dir[j].name
      BY <2>1 DEF ResizedRight
    <2> HIDE DEF r
    <2>3. Resizes(i, length)
      BY <1>1, <1>7, <2>1, <2>2 DEF Resizes, OthersSame, SameEntry
    <2> QED BY <1>1, <2>3 DEF i
  <1> QED BY <1>4, <1>5, <1>6, <1>7

LEMMA WriteEffect ==
  ASSUME IInv, SizedInv, LengthFits, NEW a \in FileName, NEW offset \in Nat,
         NEW buf \in Buffers, write_file(a, offset, buf)
  PROVE  \/ Ends
         \/ /\ lookup(a) \in Index /\ index[lookup(a)] = 1 /\ phase = "open"
            /\ write_code(a, offset, Len(buf)) = 0
            /\ IF offset + Len(buf) > file[lookup(a)].length
               THEN Resizes(lookup(a), offset + Len(buf))
               ELSE Keeps
  <1> DEFINE i == lookup(a)
             end == offset + Len(buf)
             grows == end > file[i].length
             grown == resize_file_helper(i, end, offset)
             r == IF grows THEN grown
                  ELSE [file |-> file, dir |-> dir, data |-> data, o_list |-> o_list,
                        hash_offset |-> -1]
  <1>1. /\ i \in Index /\ index[i] = 1 /\ phase = "open"
        /\ write_code(a, offset, Len(buf)) = 0
    BY LookupLive DEF write_file, write_code
  <1>2. Len(buf) \in Nat
    BY VfsAssumption
  <1>3. end \in 0 .. FileDataLen /\ uint32(end) = end
    BY <1>1, <1>2, CodesBound, Uint32Fits
  <1>4. \/ Abort(dir, data) \/ Fault
        \/ /\ ~ (grows /\ detach_fails(i, end)) /\ file' = r.file /\ dir' = r.dir
           /\ UNCHANGED <<phase, n_list, index, index_count, scan>>
           /\ used' = IF grows THEN used + end - file[i].length ELSE used
    BY DEF write_file
  <1> HIDE DEF i, end
  <1>5. CASE Abort(dir, data)
    BY <1>5 DEF Abort, Ends, SameEntry
  <1>6. CASE Fault
    BY <1>6 DEF Fault, Ends, disk, SameEntry
  <1>7. CASE /\ ~ (grows /\ detach_fails(i, end)) /\ file' = r.file /\ dir' = r.dir
             /\ UNCHANGED <<phase, n_list, index, index_count, scan>>
             /\ used' = IF grows THEN used + end - file[i].length ELSE used
    <2>1. CASE grows
      <3>1. file' = grown.file /\ dir' = grown.dir /\ ~ detach_fails(i, end)
        BY <1>7, <2>1
      <3>2. /\ ResizedRight(grown)
            /\ grown.file[i].length = end /\ grown.dir[i].length = end
            /\ \A j \in Index : grown.file[j].name = file[j].name
            /\ \A j \in Index : j # i => /\ grown.file[j].length = file[j].length
                                        /\ grown.dir[j].length = dir[j].length
        BY <1>1, <1>3, <3>1, ResizeKeeps
      <3>3. \A j \in Index : grown.dir[j].name = dir[j].name
        BY <3>2 DEF ResizedRight
      <3> HIDE DEF r, grown
      <3>4. Resizes(i, end)
        BY <1>1, <1>7, <2>1, <3>1, <3>2, <3>3 DEF Resizes, OthersSame, SameEntry
      <3> QED BY <1>1, <2>1, <3>4 DEF i, end
    <2>2. CASE ~ grows
      <3>1. Keeps
        BY <1>1, <1>7, <2>2 DEF Keeps, SameEntry
      <3> QED BY <1>1, <2>2, <3>1 DEF i, end
    <2> QED BY <2>1, <2>2
  <1> QED BY <1>4, <1>5, <1>6, <1>7

LEMMA DeleteEffect ==
  ASSUME IInv, NEW a \in FileName, delete_file(a)
  PROVE  \/ Ends
         \/ /\ lookup(a) \in Index /\ index[lookup(a)] = 1
            /\ delete_code(a) = 0 /\ phase = "open"
            /\ n_list.pos[lookup(a)] # -1 /\ Deletes(lookup(a))
  <1> DEFINE i == lookup(a)
  <1>1. i \in Index /\ index[i] = 1 /\ phase = "open" /\ delete_code(a) = 0
    BY LookupLive DEF delete_file, delete_code
  <1>2. \/ Abort(dir, data)
        \/ /\ ~ (o_list.pos[i] < 0 \/ n_list.pos[i] < 0)
           /\ phase' = "open" /\ scan' = scan /\ used' = used - file[i].length
           /\ index' = [index EXCEPT ![i] = 0] /\ index_count' = index_count - 1
           /\ n_list' = arr_remove(n_list.pos[i], n_list)
           /\ dir' = [dir EXCEPT ![i] = NoFile] /\ file' = [file EXCEPT ![i] = NoFile]
    BY <1>1 DEF delete_file
  <1>3. IsTable(dir) /\ IsTable(file)
    BY DEF IInv, TablesInv
  <1> HIDE DEF i
  <1>4. CASE Abort(dir, data)
    BY <1>4 DEF Abort, Ends, SameEntry
  <1>5. CASE ~ Abort(dir, data)
    <2>1. n_list.pos[i] # -1
      BY <1>2, <1>5
    <2>2. Deletes(i)
      BY <1>1, <1>2, <1>3, <1>5 DEF Deletes, OthersSame, SameEntry, IsTable
    <2> QED BY <1>1, <2>1, <2>2 DEF i
  <1> QED BY <1>4, <1>5

LEMMA RenameEffect ==
  ASSUME IInv, NEW a \in FileName, NEW b \in FileName, rename_file(a, b)
  PROVE  /\ lookup(a) \in Index /\ index[lookup(a)] = 1 /\ phase = "open"
         /\ rename_code(a, b) = 0 /\ a # b /\ lookup(b) = None
         /\ Relabels(lookup(a), Kept[b])
  <1> DEFINE i == lookup(a)
  <1>1. /\ i \in Index /\ index[i] = 1 /\ phase = "open" /\ rename_code(a, b) = 0
        /\ a # b /\ lookup(b) = None
    BY LookupLive DEF rename_file, rename_code
  <1>2. IsTable(dir) /\ IsTable(file)
    BY DEF IInv, TablesInv
  <1>3. /\ file' = [file EXCEPT ![i] = update_name(@, Kept[b])]
        /\ dir' = [dir EXCEPT ![i] = update_name(@, Kept[b])]
        /\ UNCHANGED <<phase, n_list, index, index_count, scan, used>>
    BY DEF rename_file, update_file_name
  <1> HIDE DEF i
  <1>4. Relabels(i, Kept[b])
    BY <1>1, <1>2, <1>3 DEF Relabels, OthersSame, SameEntry, IsTable, update_name
  <1> QED BY <1>1, <1>4 DEF i

LEMMA RepackEffect == IInv /\ repack => phase = "open" /\ Keeps
  <1> SUFFICES ASSUME IInv, repack PROVE phase = "open" /\ Keeps
    OBVIOUS
  <1> DEFINE r == repack_helper(o_list, file, dir, data, used)
  <1>1. /\ phase = "open" /\ file' = r.file /\ dir' = r.dir
        /\ UNCHANGED <<phase, n_list, index, index_count, scan, used>>
    BY DEF repack
  <1>2. \A j \in Index : SameEntry(r.dir[j], dir[j]) /\ SameEntry(r.file[j], file[j])
    <2>1. IsTable(dir) /\ IsTable(file)
      BY DEF IInv, TablesInv
    <2> QED BY <2>1, RepackKeeps DEF SameEntry
  <1> HIDE DEF r
  <1> QED BY <1>1, <1>2 DEF Keeps

LEMMA HashEffect ==
  compute_hash_tree \/ (\E b \in Block : compute_hash_block(b)) => phase = "open" /\ Keeps
  BY DEF compute_hash_tree, compute_hash_block, mem, Keeps, SameEntry

(* An iteration of the loop of init_fs takes entry "scan", if it has a name. *)
Takes ==
  /\ phase = "init" /\ phase' = "init" /\ scan' = scan + 1 /\ dir' = dir
  /\ scan \in Index
  /\ IF dir[scan].name = 0
     THEN UNCHANGED <<file, n_list, used, index, index_count>>
     ELSE /\ SameEntry(file'[scan], dir[scan])
          /\ \A j \in Index : j # scan => file'[j] = file[j]
          /\ n_list' = insert_by_name(scan, file', n_list)
          /\ used' = used + dir[scan].length
          /\ index' = [index EXCEPT ![scan] = 1]
          /\ index_count' = index_count + 1

LEMMA EntryEffect == IInv /\ init_fs_entry => Takes
  <1> SUFFICES ASSUME IInv, init_fs_entry PROVE Takes
    OBVIOUS
  <1> DEFINE f == update_offset(dir[scan], IF dir[scan].length = 0 THEN MAX_FILE_DATA_LEN
                                           ELSE dir[scan].offset)
             files == [file EXCEPT ![scan] = f]
  <1>1. /\ phase = "init" /\ phase' = "init" /\ scan \in Index /\ scan' = scan + 1
        /\ dir' = dir /\ IsTable(file)
    BY IndexFinite DEF init_fs_entry, disk, IInv, ControlInv, Index, TablesInv
  <1>2. IF dir[scan].name = 0
        THEN UNCHANGED <<file, n_list, used, index, index_count>>
        ELSE /\ file' = files
             /\ n_list' = insert_by_name(scan, files, n_list)
             /\ used' = used + dir[scan].length
             /\ index' = [index EXCEPT ![scan] = 1]
             /\ index_count' = index_count + 1
    BY DEF init_fs_entry
  <1>3. SameEntry(f, dir[scan])
    BY DEF SameEntry, update_offset
  <1> HIDE DEF f
  <1>4. files[scan] = f /\ \A j \in Index : j # scan => files[j] = file[j]
    BY <1>1 DEF IsTable
  <1> HIDE DEF files
  <1>5. CASE dir[scan].name = 0
    BY <1>1, <1>2, <1>5 DEF Takes
  <1>6. CASE dir[scan].name # 0
    BY <1>1, <1>2, <1>3, <1>4, <1>6 DEF Takes
  <1> QED BY <1>5, <1>6

(* init_fs begins or returns, or nothing happens: the entries taken stay. *)
Waits ==
  /\ UNCHANGED <<dir, file, n_list, used, index, index_count>>
  /\ Scanned' = Scanned

LEMMA WaitEffect ==
  IInv /\ (init_fs_begin \/ init_fs_return \/ UNCHANGED vars) => Waits
  <1>1. IInv /\ init_fs_begin => Waits
    BY DEF IInv, ControlInv, init_fs_begin, disk, mem, Waits, Scanned
  <1>2. IInv /\ init_fs_return => Waits
    BY DEF init_fs_return, disk, Waits, Scanned, Index
  <1>3. UNCHANGED vars => Waits
    BY DEF vars, disk, mem, Waits, Scanned
  <1> QED BY <1>1, <1>2, <1>3

LEMMA CloseEffect == close_fs => phase = "open" /\ Ends
  BY DEF close_fs, Ends, disk, SameEntry

(* Every step is one of these. *)
Effect ==
  \/ Ends \/ Takes \/ Waits
  \/ phase = "open" /\ Keeps
  \/ \E a \in FileName, length \in CreateLengths :
       /\ phase = "open" /\ create_code(a, length) = 0
       /\ new_file_index \in Index /\ index[new_file_index] = 0
       /\ Creates(new_file_index, Kept[a], length)
  \/ \E a \in FileName, length \in ResizeLengths :
       /\ phase = "open" /\ resize_code(a, length) = 0
       /\ lookup(a) \in Index /\ index[lookup(a)] = 1
       /\ Resizes(lookup(a), length)
  \/ \E a \in FileName, offset \in WriteOffsets, buf \in Buffers :
       /\ phase = "open" /\ write_code(a, offset, Len(buf)) = 0
       /\ lookup(a) \in Index /\ index[lookup(a)] = 1
       /\ offset + Len(buf) > file[lookup(a)].length
       /\ Resizes(lookup(a), offset + Len(buf))
  \/ \E a \in FileName :
       /\ phase = "open" /\ delete_code(a) = 0
       /\ lookup(a) \in Index /\ index[lookup(a)] = 1
       /\ n_list.pos[lookup(a)] # -1 /\ Deletes(lookup(a))
  \/ \E r \in Renames :
       /\ r[1] \in FileName /\ r[2] \in FileName /\ r[1] # r[2]
       /\ phase = "open" /\ rename_code(r[1], r[2]) = 0 /\ lookup(r[2]) = None
       /\ lookup(r[1]) \in Index /\ index[lookup(r[1])] = 1
       /\ Relabels(lookup(r[1]), Kept[r[2]])

LEMMA NextEffect ==
  ASSUME IInv, SizedInv, LengthFits, [Next]_vars
  PROVE  Effect
  <1>1. CASE \/ init_fs_begin \/ init_fs_entry \/ init_fs_return \/ close_fs
             \/ repack \/ compute_hash_tree \/ \E b \in Block : compute_hash_block(b)
             \/ UNCHANGED vars
    BY <1>1, WaitEffect, EntryEffect, CloseEffect, RepackEffect, HashEffect DEF Effect
  <1>2. CASE \E a \in FileName, length \in CreateLengths : create_file(a, length)
    <2>1. PICK a \in FileName, length \in CreateLengths : create_file(a, length)
      BY <1>2
    <2>2. length \in Nat
      BY VfsAssumption
    <2> QED BY <2>1, <2>2, CreateEffect DEF Effect
  <1>3. CASE \E a \in FileName, length \in ResizeLengths : resize_file(a, length)
    <2>1. PICK a \in FileName, length \in ResizeLengths : resize_file(a, length)
      BY <1>3
    <2>2. length \in Nat
      BY VfsAssumption
    <2> QED BY <2>1, <2>2, ResizeEffect DEF Effect
  <1>4. CASE \E a \in FileName, offset \in WriteOffsets, buf \in Buffers :
               write_file(a, offset, buf)
    <2>1. PICK a \in FileName, offset \in WriteOffsets, buf \in Buffers :
            write_file(a, offset, buf)
      BY <1>4
    <2>2. offset \in Nat
      BY VfsAssumption
    <2> QED BY <2>1, <2>2, WriteEffect DEF Effect
  <1>5. CASE \E a \in FileName : delete_file(a)
    BY <1>5, DeleteEffect DEF Effect
  <1>6. CASE \E r \in Renames : rename_file(r[1], r[2])
    <2>1. PICK r \in Renames : rename_file(r[1], r[2])
      BY <1>6
    <2>2. r[1] \in FileName /\ r[2] \in FileName
      BY VfsAssumption
    <2> QED BY <2>1, <2>2, RenameEffect DEF Effect
  <1> QED BY <1>1, <1>2, <1>3, <1>4, <1>5, <1>6 DEF Next

----------------------------------------------------------------------------
(* The bytes in use *)

(* The lengths stay, and "used" is 0 or what it was. *)
LEMMA SameSizes ==
  ASSUME SizedInv, \A j \in Index : SameEntry(dir'[j], dir[j]),
         \/ used' = used /\ Scanned' = Scanned
         \/ used' = 0 /\ Scanned' = {}
  PROVE  SizedInv'
  <1>1. \A j \in Index : dir'[j].length = dir[j].length /\ dir'[j].name = dir[j].name
    BY DEF SameEntry
  <1>2. AllBytes' = AllBytes
    BY <1>1 DEF AllBytes
  <1>3. used' = SumFunctionOnSet(ScannedBytes', Index)
    <2>1. CASE used' = used /\ Scanned' = Scanned
      <3>1. ScannedBytes' = ScannedBytes
        BY <1>1, <2>1 DEF ScannedBytes
      <3> QED BY <2>1, <3>1 DEF SizedInv
    <2>2. CASE used' = 0 /\ Scanned' = {}
      <3>1. \A j \in Index : ScannedBytes'[j] = 0
        BY <2>2 DEF ScannedBytes
      <3>2. PICK f : f = ScannedBytes'
        OBVIOUS
      <3>3. SumFunctionOnSet(f, Index) = SumFunctionOnSet(f, {})
        BY <3>1, <3>2, IndexFinite, SumZeros
      <3> QED BY <2>2, <3>2, <3>3, SumNothing
    <2> QED BY <2>1, <2>2
  <1> QED BY <1>1, <1>2, <1>3 DEF SizedInv

(* A call changes the length of one entry, and "used" by the difference. *)
LEMMA OneSize ==
  ASSUME IInv, SizedInv, phase = "open", phase' = "open", NEW i \in Index,
         \A j \in Index : j # i => SameEntry(dir'[j], dir[j]),
         dir'[i].length \in Nat, dir'[i].name = 0 => dir'[i].length = 0,
         used' = used - dir[i].length + dir'[i].length, used' <= FileDataLen
  PROVE  SizedInv'
  <1> DEFINE g == [j \in Index |-> dir'[j].length]
  <1>1. Scanned' = Index
    BY DEF Scanned
  <1>2. AllBytes' = g
    BY DEF AllBytes
  <1>3. ScannedBytes' = g
    BY <1>1 DEF ScannedBytes
  <1>4. \A j \in Index : /\ dir'[j].length \in Nat
                         /\ dir'[j].name = 0 => dir'[j].length = 0
                         /\ j # i => dir'[j].length = dir[j].length
    BY DEF SizedInv, SameEntry
  <1>5. \A j \in Index : g[j] = dir'[j].length /\ AllBytes[j] = dir[j].length
    BY DEF AllBytes
  <1>6. /\ \A j \in Index : AllBytes[j] \in Nat /\ g[j] \in Nat
        /\ \A j \in Index : j # i => g[j] = AllBytes[j]
    BY <1>4, <1>5 DEF SizedInv
  <1> HIDE DEF g
  <1>7. SumFunctionOnSet(g, Index)
          = SumFunctionOnSet(AllBytes, Index) - AllBytes[i] + g[i]
    BY <1>6, IndexFinite, SumChange
  <1>8. used = SumFunctionOnSet(AllBytes, Index)
    BY UsedWhenOpen
  <1>9. used' = SumFunctionOnSet(g, Index)
    BY <1>5, <1>7, <1>8
  <1> QED BY <1>2, <1>3, <1>4, <1>9 DEF SizedInv

(* init_fs counts the entry that it takes. *)
LEMMA TakenSize ==
  ASSUME IInv, SizedInv, Takes
  PROVE  SizedInv'
  <1> DEFINE g == [j \in Index |-> IF j \in Scanned \/ j = scan THEN dir[j].length ELSE 0]
  <1>1. /\ phase = "init" /\ phase' = "init" /\ scan' = scan + 1 /\ dir' = dir
        /\ scan \in Index /\ used' = used + dir[scan].length
    <2>1. used \in Int
      <3>1. \A j \in Index : ScannedBytes[j] \in Nat
        BY DEF ScannedBytes, SizedInv
      <3>2. SumFunctionOnSet(ScannedBytes, Index) \in Nat
        BY <3>1, IndexFinite, SumSplit
      <3> QED BY <3>2 DEF SizedInv
    <2>2. dir[scan].name = 0 => dir[scan].length = 0
      BY DEF Takes, SizedInv
    <2> QED BY <2>1, <2>2 DEF Takes
  <1>2. Scanned' = Scanned \cup {scan} /\ scan \notin Scanned
    BY <1>1, IndexFinite DEF Scanned, Index
  <1>3. ScannedBytes' = g
    BY <1>1, <1>2 DEF ScannedBytes
  <1>4. \A j \in Index : dir[j].length \in Nat
    BY DEF SizedInv
  <1>5. /\ \A j \in Index : ScannedBytes[j] \in Nat /\ g[j] \in Nat
        /\ \A j \in Index : j # scan => g[j] = ScannedBytes[j]
        /\ g[scan] = dir[scan].length /\ ScannedBytes[scan] = 0
    BY <1>1, <1>2, <1>4 DEF ScannedBytes
  <1> HIDE DEF g
  <1>6. /\ SumFunctionOnSet(ScannedBytes, Index) \in Nat
        /\ SumFunctionOnSet(g, Index)
             = SumFunctionOnSet(ScannedBytes, Index) - ScannedBytes[scan] + g[scan]
    BY <1>1, <1>5, IndexFinite, SumChange
  <1>7. used' = SumFunctionOnSet(g, Index)
    BY <1>1, <1>4, <1>5, <1>6 DEF SizedInv
  <1>8. AllBytes' = AllBytes
    BY <1>1 DEF AllBytes
  <1> QED BY <1>1, <1>3, <1>7, <1>8 DEF SizedInv

LEMMA InitSized == Init => SizedInv
  <1> SUFFICES ASSUME Init PROVE SizedInv
    OBVIOUS
  <1>1. /\ \A j \in Index : dir[j].length = 0 /\ AllBytes[j] = 0 /\ ScannedBytes[j] = 0
        /\ used = 0
    BY DEF Init, NoFile, AllBytes, ScannedBytes
  <1>2. /\ SumFunctionOnSet(AllBytes, Index) = SumFunctionOnSet(AllBytes, {})
        /\ SumFunctionOnSet(ScannedBytes, Index) = SumFunctionOnSet(ScannedBytes, {})
    <2> HIDE DEF AllBytes, ScannedBytes
    <2> QED BY <1>1, IndexFinite, SumZeros
  <1> QED BY <1>1, <1>2, SumNothing, LengthAssumption DEF SizedInv

LEMMA StepSized ==
  ASSUME IInv, SizedInv, LengthFits, [Next]_vars
  PROVE  SizedInv'
  <1>1. Effect
    BY NextEffect
  <1>2. phase = "open" =>
          /\ used \in 0 .. FileDataLen /\ FileDataLen \in Nat
          /\ \A i \in Index : dir[i].length \in 0 .. used
          /\ \A i \in Index : index[i] = 1 <=> dir[i].name # 0
          /\ \A i \in Index : index[i] = 1 => file[i].length = dir[i].length
    BY UsedWhenOpen, LengthAssumption DEF IInv, EntriesInv, Scanned
  <1>3. CASE Ends
    <2>1. used' = 0 /\ Scanned' = {} /\ \A j \in Index : SameEntry(dir'[j], dir[j])
      BY <1>3 DEF Ends, MemoryLost, Scanned
    <2> QED BY <2>1, SameSizes
  <1>4. CASE Takes
    BY <1>4, TakenSize
  <1>5. CASE Waits
    <2>1. used' = used /\ Scanned' = Scanned /\ \A j \in Index : SameEntry(dir'[j], dir[j])
      BY <1>5 DEF Waits, SameEntry
    <2> QED BY <2>1, SameSizes
  <1>6. CASE phase = "open" /\ Keeps
    <2>1. used' = used /\ Scanned' = Scanned /\ \A j \in Index : SameEntry(dir'[j], dir[j])
      BY <1>6 DEF Keeps, Scanned
    <2> QED BY <2>1, SameSizes
  <1>7. ASSUME NEW a \in FileName, NEW length \in CreateLengths,
               phase = "open", create_code(a, length) = 0,
               new_file_index \in Index, index[new_file_index] = 0,
               Creates(new_file_index, Kept[a], length)
        PROVE  SizedInv'
    <2>1. PICK i \in Index : i = new_file_index
      BY <1>7
    <2>2. length \in Nat /\ used + length <= FileDataLen
      BY <1>7, VfsAssumption, <1>2 DEF create_code
    <2>3. dir[i].length = 0
      BY <1>2, <1>7, <2>1 DEF SizedInv
    <2>4. /\ phase' = "open" /\ dir'[i].length = length /\ dir'[i].name # 0
          /\ used' = used + length /\ \A j \in Index : j # i => SameEntry(dir'[j], dir[j])
      BY <1>7, <2>1, VfsAssumption DEF Creates, OthersSame
    <2>5. used' = used - dir[i].length + dir'[i].length /\ used' <= FileDataLen
      BY <1>2, <1>7, <2>2, <2>3, <2>4
    <2> QED BY <1>7, <2>2, <2>4, <2>5, OneSize
  <1>8. ASSUME phase = "open", NEW i \in Index, index[i] = 1, NEW length \in Nat,
               Resizes(i, length), used + length - file[i].length <= FileDataLen
        PROVE  SizedInv'
    <2>1. /\ phase' = "open" /\ dir'[i].length = length /\ dir'[i].name # 0
          /\ used' = used + length - file[i].length /\ file[i].length = dir[i].length
          /\ \A j \in Index : j # i => SameEntry(dir'[j], dir[j])
      BY <1>2, <1>8 DEF Resizes, OthersSame
    <2>2. used' = used - dir[i].length + dir'[i].length /\ used' <= FileDataLen
      BY <1>2, <1>8, <2>1
    <2> QED BY <1>8, <2>1, <2>2, OneSize
  <1>9. ASSUME NEW i \in Index, phase = "open", index[i] = 1, Deletes(i)
        PROVE  SizedInv'
    <2>1. /\ phase' = "open" /\ dir'[i].length = 0
          /\ used' = used - file[i].length /\ file[i].length = dir[i].length
          /\ \A j \in Index : j # i => SameEntry(dir'[j], dir[j])
      BY <1>2, <1>9 DEF Deletes, OthersSame, SameEntry, NoFile
    <2>2. used' = used - dir[i].length + dir'[i].length /\ used' <= FileDataLen
      BY <1>2, <1>9, <2>1
    <2> QED BY <1>9, <2>1, <2>2, OneSize
  <1>10. ASSUME NEW i \in Index, phase = "open", NEW name, name # 0, Relabels(i, name)
         PROVE  SizedInv'
    <2>1. /\ phase' = "open" /\ dir'[i].length = dir[i].length /\ dir'[i].name # 0
          /\ used' = used /\ \A j \in Index : j # i => SameEntry(dir'[j], dir[j])
      BY <1>10 DEF Relabels, OthersSame
    <2>2. /\ used' = used - dir[i].length + dir'[i].length /\ used' <= FileDataLen
          /\ dir'[i].length \in Nat
      BY <1>2, <1>10, <2>1
    <2> QED BY <1>10, <2>1, <2>2, OneSize
  <1>11. ASSUME NEW a \in FileName, NEW length \in ResizeLengths,
                phase = "open", resize_code(a, length) = 0,
                lookup(a) \in Index, index[lookup(a)] = 1, Resizes(lookup(a), length)
         PROVE  SizedInv'
    <2>1. used + length - file[lookup(a)].length <= FileDataLen /\ length \in Nat
      <3>1. lookup(a) # None
        BY <1>11 DEF resize_code
      <3>2. ~ (used + length - file[lookup(a)].length > FileDataLen)
        BY <3>1, <1>11 DEF resize_code
      <3>3. length \in Nat /\ file[lookup(a)].length \in Nat /\ used \in Nat
        BY <1>2, <1>11, VfsAssumption
      <3> QED BY <1>2, <1>11, <3>2, <3>3
    <2> QED BY <1>8, <1>11, <2>1
  <1>12. ASSUME NEW a \in FileName, NEW offset \in WriteOffsets, NEW buf \in Buffers,
                phase = "open", write_code(a, offset, Len(buf)) = 0,
                lookup(a) \in Index, index[lookup(a)] = 1,
                Resizes(lookup(a), offset + Len(buf))
         PROVE  SizedInv'
    <2>1. offset \in Nat /\ Len(buf) \in Nat
      BY VfsAssumption
    <2>2. used + (offset + Len(buf)) - file[lookup(a)].length <= FileDataLen
      <3>1. lookup(a) # None
        BY <1>12 DEF write_code
      <3>2. ~ (used + offset + Len(buf) - file[lookup(a)].length > FileDataLen)
        BY <3>1, <1>12 DEF write_code
      <3>3. file[lookup(a)].length \in Nat /\ used \in Nat
        BY <1>2, <1>12
      <3> QED BY <1>2, <1>12, <2>1, <3>2, <3>3
    <2>3. offset + Len(buf) \in Nat
      BY <2>1
    <2> QED BY <1>8, <1>12, <2>2, <2>3
  <1>13. ASSUME NEW r \in Renames, r[2] \in FileName, phase = "open",
                lookup(r[1]) \in Index, Relabels(lookup(r[1]), Kept[r[2]])
         PROVE  SizedInv'
    <2>1. Kept[r[2]] # 0
      BY <1>13, VfsAssumption
    <2> QED BY <1>10, <1>13, <2>1
  <1> QED BY <1>1, <1>3, <1>4, <1>5, <1>6, <1>7, <1>9, <1>11, <1>12, <1>13 DEF Effect

LEMMA SizesInvariant == ASSUME LengthFits PROVE Spec => [](IInv /\ SizedInv)
  <1>1. Init => IInv /\ SizedInv
    BY InitHolds, InitSized
  <1>2. IInv /\ SizedInv /\ [Next]_vars => (IInv /\ SizedInv)'
    BY NextStep, StepSized
  <1> QED BY <1>1, <1>2, PTL DEF Spec

(* "used" is the sum of the lengths of the files in use, "index_count" their
   number, and the files fit into file_data: after any calls and restarts. *)
THEOREM SpaceAlwaysAccounted == ASSUME LengthFits PROVE Spec => []SpaceAccounted
  <1>1. ASSUME IInv, SizedInv PROVE SpaceAccounted
    <2> SUFFICES ASSUME phase = "open"
                 PROVE  /\ used = SumFunction([i \in Live |-> file[i].length])
                        /\ index_count = Cardinality(Live)
                        /\ used <= FileDataLen
      BY DEF SpaceAccounted
    <2>1. /\ used = SumFunctionOnSet(AllBytes, Index) /\ used \in 0 .. FileDataLen
          /\ \A i \in Index : index[i] = 1 => file[i].length = dir[i].length
      BY <1>1, UsedWhenOpen
    <2>2. Live \in SUBSET Index /\ IsFiniteSet(Live)
      BY LiveFinite DEF Live
    <2>3. \A i \in Index : AllBytes[i] = dir[i].length /\ dir[i].length \in Nat
      BY <1>1 DEF AllBytes, SizedInv
    <2>4. \A i \in Index \ Live : AllBytes[i] = 0
      BY <1>1, <2>3 DEF IInv, EntriesInv, ControlInv, SizedInv, Scanned, Live
    <2> HIDE DEF AllBytes
    <2>5. SumFunctionOnSet(AllBytes, Index) = SumFunctionOnSet(AllBytes, Live)
      BY <2>2, <2>3, <2>4, IndexFinite, SumZeros
    <2> DEFINE f == [i \in Live |-> file[i].length]
    <2>6. \A i \in Live : f[i] = AllBytes[i]
      BY <2>1, <2>3 DEF Live
    <2>7. SumFunction(f) = SumFunctionOnSet(f, Live)
      BY DEF SumFunction
    <2> HIDE DEF f
    <2>8. SumFunctionOnSet(f, Live) = SumFunctionOnSet(AllBytes, Live)
      BY <2>2, <2>6, SumSame
    <2>9. FileDataLen \in Nat
      BY LengthAssumption
    <2> QED BY <1>1, <2>1, <2>5, <2>7, <2>8, <2>9 DEF IInv, CountInv, f
  <1>2. LengthFits
    OBVIOUS
  <1> QED BY <1>1, <1>2, SizesInvariant, PTL

----------------------------------------------------------------------------
(* Where the files are *)

NoEmptyFiles == 0 \notin CreateLengths \cup ResizeLengths

(* The file lies in file_data, and holds at least a byte. *)
Fits(f) ==
  /\ f.offset \in Nat /\ f.length \in Nat \ {0}
  /\ f.offset + f.length <= FileDataLen

Apart(f, g) == f.offset + f.length <= g.offset \/ g.offset + g.length <= f.offset

(* The files of the set lie in file_data and share no byte. *)
LaidOut(T, files) ==
  /\ \A i \in T : Fits(files[i])
  /\ \A i, j \in T : i # j => Apart(files[i], files[j])

OffsetsOf(files) == [i \in Index |-> files[i].offset]

(* The files that the array holds. *)
Held(o) == {f \in Index : o.pos[f] # -1}

(* The array holds files that share no byte, in the order of their offsets. *)
Arranged(o, files) ==
  /\ Placed(o) /\ LaidOut(Held(o), files) /\ Ascending(o, OffsetsOf(files))

(* The files found on disk are laid out, memory has the same offsets, and
   the offset array holds all of them in order. *)
LayoutInv ==
  /\ LaidOut(Listed, dir)
  /\ \A i \in Live : file[i].offset = dir[i].offset /\ o_list.pos[i] # -1
  /\ Ascending(o_list, OffsetsOf(file))

----------------------------------------------------------------------------
(* Arrays of files that are laid out *)

(* What the order of the array says of the files at its positions: each one
   ends before the next begins. *)
LEMMA ArrangedPositions ==
  ASSUME NEW o, NEW files, Arranged(o, files)
  PROVE  /\ o.size \in Nat
         /\ \A k \in 0 .. o.size - 1 :
              /\ o.list[k] \in Held(o) /\ o.pos[o.list[k]] = k
              /\ OffsetAt(k, o, files) \in Nat /\ LengthAt(k, o, files) \in Nat \ {0}
              /\ OffsetAt(k, o, files) < MAX_FILE_DATA_LEN
              /\ EndAt(k, o, files) = OffsetAt(k, o, files) + LengthAt(k, o, files)
              /\ EndAt(k, o, files) <= FileDataLen
         /\ \A j, k \in 0 .. o.size - 1 :
              j < k => EndAt(j, o, files) <= OffsetAt(k, o, files)
         /\ \A f \in Held(o) : o.pos[f] \in 0 .. o.size - 1 /\ o.list[o.pos[f]] = f
  <1>1. /\ o.size \in Nat /\ o.list \in [0 .. o.size - 1 -> Index]
        /\ \A k \in 0 .. o.size - 1 : o.pos[o.list[k]] = k
        /\ \A f \in Index : o.pos[f] # -1 =>
             o.pos[f] \in 0 .. o.size - 1 /\ o.list[o.pos[f]] = f
    BY DEF Arranged, Placed, IsArray, PointsBack
  <1>2. \A k \in 0 .. o.size - 1 : o.list[k] \in Held(o) /\ o.list[k] \in Index
    <2> SUFFICES ASSUME NEW k \in 0 .. o.size - 1
                 PROVE  o.list[k] \in Held(o) /\ o.list[k] \in Index
      OBVIOUS
    <2>1. o.list[k] \in Index /\ o.pos[o.list[k]] = k /\ k # -1
      BY <1>1
    <2> QED BY <2>1 DEF Held
  <1>3. \A f \in Held(o) : Fits(files[f])
    BY DEF Arranged, LaidOut
  <1>4. FileDataLen \in Nat /\ MAX_FILE_DATA_LEN \in Nat /\ FileDataLen <= MAX_FILE_DATA_LEN
    BY LengthAssumption
  <1>5. \A k \in 0 .. o.size - 1 :
              /\ OffsetAt(k, o, files) \in Nat /\ LengthAt(k, o, files) \in Nat \ {0}
              /\ EndAt(k, o, files) = OffsetAt(k, o, files) + LengthAt(k, o, files)
              /\ EndAt(k, o, files) <= FileDataLen
    BY <1>2, <1>3 DEF Fits, OffsetAt, LengthAt, EndAt
  <1>6. \A k \in 0 .. o.size - 1 : OffsetAt(k, o, files) < MAX_FILE_DATA_LEN
    BY <1>4, <1>5
  <1>7. ASSUME NEW j \in 0 .. o.size - 1, NEW k \in 0 .. o.size - 1, j < k
        PROVE  EndAt(j, o, files) <= OffsetAt(k, o, files)
    <2>1. o.list[j] # o.list[k]
      BY <1>1, <1>7
    <2>2. Apart(files[o.list[j]], files[o.list[k]])
      BY <1>2, <2>1 DEF Arranged, LaidOut
    <2>3. OffsetAt(j, o, files) < OffsetAt(k, o, files)
      BY <1>2, <1>7 DEF Arranged, Ascending, OffsetsOf, OffsetAt
    <2>4. \/ EndAt(j, o, files) <= OffsetAt(k, o, files)
          \/ EndAt(k, o, files) <= OffsetAt(j, o, files)
      BY <2>2 DEF Apart, EndAt, OffsetAt, LengthAt
    <2> QED BY <2>3, <2>4, <1>5
  <1>8. \A f \in Held(o) : o.pos[f] \in 0 .. o.size - 1 /\ o.list[o.pos[f]] = f
    BY <1>1 DEF Held
  <1> QED BY <1>1, <1>2, <1>5, <1>6, <1>7, <1>8

(* With no empty file in the array every position has data. *)
LEMMA NextWithData ==
  ASSUME NEW o, NEW files, Arranged(o, files), NEW from \in Nat
  PROVE  find_next_nonzero_file(from, o, files) = IF from < o.size THEN from ELSE NoPosition
  <1> DEFINE seen == {k \in from .. o.size - 1 :
                        \A j \in from .. k : OffsetAt(j, o, files) < MAX_FILE_DATA_LEN}
             found == {k \in seen : LengthAt(k, o, files) > 0}
  <1>1. /\ o.size \in Nat
        /\ \A k \in from .. o.size - 1 :
             OffsetAt(k, o, files) < MAX_FILE_DATA_LEN /\ LengthAt(k, o, files) > 0
    BY ArrangedPositions
  <1>2. found = from .. o.size - 1
    BY <1>1
  <1>3. find_next_nonzero_file(from, o, files) = IF found = {} THEN NoPosition ELSE Min(found)
    BY DEF find_next_nonzero_file
  <1> HIDE DEF found, seen
  <1>4. CASE from < o.size
    <2>1. from \in found /\ found \in SUBSET Nat /\ \A k \in found : from <= k
      BY <1>1, <1>2, <1>4
    <2>2. Min(found) \in found /\ Min(found) <= from
      BY <2>1, MinOfNaturals
    <2>3. Min(found) \in Nat /\ Min(found) >= from
      BY <2>1, <2>2
    <2> QED BY <1>3, <1>4, <2>1, <2>2, <2>3
  <1>5. CASE ~ (from < o.size)
    BY <1>1, <1>2, <1>3, <1>5
  <1> QED BY <1>4, <1>5

(* length bytes from the offset are in file_data and belong to no file of
   the set. *)
Free(offset, length, T, files) ==
  /\ offset \in Nat /\ offset + length <= FileDataLen
  /\ \A i \in T : \/ files[i].offset + files[i].length <= offset
                  \/ offset + length <= files[i].offset

(* new_file_offset returns the offset of a free range. *)
LEMMA FoundFree ==
  ASSUME NEW o, NEW files, Arranged(o, files), NEW length \in 1 .. FileDataLen,
         NEW place, place = new_file_offset(length, o, files), ~ place.repack
  PROVE  Free(place.offset, length, Held(o), files)
  <1> DEFINE first == find_next_nonzero_file(0, o, files)
             chain == {k \in 0 .. o.size - 1 :
                  /\ LengthAt(k, o, files) > 0
                  /\ \A j \in 0 .. k : OffsetAt(j, o, files) < MAX_FILE_DATA_LEN}
             limit(k) == IF find_next_nonzero_file(k + 1, o, files) = NoPosition
                         THEN FileDataLen
                         ELSE OffsetAt(find_next_nonzero_file(k + 1, o, files), o, files)
             gaps == {k \in chain : Room(EndAt(k, o, files), limit(k), length)}
  <1>1. place = IF length = 0 THEN [offset |-> MAX_FILE_DATA_LEN, repack |-> FALSE]
                ELSE IF first = NoPosition \/ OffsetAt(first, o, files) >= length
                THEN [offset |-> 0, repack |-> FALSE]
                ELSE IF gaps = {} THEN [offset |-> 0, repack |-> TRUE]
                ELSE [offset |-> EndAt(Min(gaps), o, files), repack |-> FALSE]
    BY DEF new_file_offset
  <1>2. /\ o.size \in Nat
        /\ \A k \in 0 .. o.size - 1 :
              /\ OffsetAt(k, o, files) \in Nat /\ LengthAt(k, o, files) \in Nat \ {0}
              /\ EndAt(k, o, files) = OffsetAt(k, o, files) + LengthAt(k, o, files)
              /\ EndAt(k, o, files) <= FileDataLen
        /\ \A j, k \in 0 .. o.size - 1 :
              j < k => EndAt(j, o, files) <= OffsetAt(k, o, files)
    BY ArrangedPositions
  <1>3. FileDataLen \in Nat
    BY LengthAssumption
  <1>4. \A k \in 0 .. o.size - 1 :
          limit(k) = IF k + 1 < o.size THEN OffsetAt(k + 1, o, files) ELSE FileDataLen
    <2> SUFFICES ASSUME NEW k \in 0 .. o.size - 1
                 PROVE  limit(k) = IF k + 1 < o.size THEN OffsetAt(k + 1, o, files)
                                   ELSE FileDataLen
      OBVIOUS
    <2>1. k + 1 \in Nat /\ k + 1 # NoPosition
      BY DEF NoPosition
    <2>2. find_next_nonzero_file(k + 1, o, files) =
            IF k + 1 < o.size THEN k + 1 ELSE NoPosition
      BY <2>1, NextWithData
    <2> QED BY <2>1, <2>2
  <1>5. first = IF 0 < o.size THEN 0 ELSE NoPosition
    BY NextWithData
  <1>6. gaps \in SUBSET (0 .. o.size - 1)
    OBVIOUS
  <1>7. \A k \in gaps : Room(EndAt(k, o, files), limit(k), length)
    OBVIOUS
  <1> HIDE DEF first, chain, limit, gaps
  (* A position p such that the files before p end, and those from p on
     begin, outside the range. *)
  <1>8. ASSUME NEW offset \in Nat, offset + length <= FileDataLen, NEW p \in 0 .. o.size,
               \A k \in 0 .. o.size - 1 : k < p => EndAt(k, o, files) <= offset,
               \A k \in 0 .. o.size - 1 : k >= p => offset + length <= OffsetAt(k, o, files)
        PROVE  Free(offset, length, Held(o), files)
    <2> SUFFICES ASSUME NEW i \in Held(o)
                 PROVE  \/ files[i].offset + files[i].length <= offset
                        \/ offset + length <= files[i].offset
      BY <1>8 DEF Free
    <2>1. PICK k \in 0 .. o.size - 1 : o.list[k] = i
      BY ArrangedPositions
    <2>2. k < p \/ k >= p
      BY <1>2
    <2> QED BY <1>8, <2>1, <2>2 DEF OffsetAt, LengthAt, EndAt
  <1>9. CASE first = NoPosition \/ OffsetAt(first, o, files) >= length
    <2>1. place.offset = 0
      BY <1>1, <1>9
    <2>2. \A k \in 0 .. o.size - 1 : 0 + length <= OffsetAt(k, o, files)
      <3> SUFFICES ASSUME NEW k \in 0 .. o.size - 1 PROVE length <= OffsetAt(k, o, files)
        OBVIOUS
      <3>1. 0 \in 0 .. o.size - 1 /\ OffsetAt(0, o, files) >= length
        BY <1>2, <1>5, <1>9 DEF NoPosition
      <3>2. k = 0 \/ EndAt(0, o, files) <= OffsetAt(k, o, files)
        BY <3>1, <1>2
      <3> QED BY <3>1, <3>2, <1>2
    <2> QED BY <1>2, <1>3, <1>8, <2>1, <2>2
  <1>10. CASE ~ (first = NoPosition \/ OffsetAt(first, o, files) >= length)
    <2>1. gaps # {} /\ place.offset = EndAt(Min(gaps), o, files)
      BY <1>1, <1>10
    <2>2. gaps \in SUBSET Nat
      BY <1>6
    <2>3. PICK g : g = Min(gaps)
      OBVIOUS
    <2>4. g \in gaps
      BY <2>1, <2>2, <2>3, MinOfNaturals
    <2>5. /\ g \in 0 .. o.size - 1 /\ place.offset = EndAt(g, o, files)
          /\ EndAt(g, o, files) \in Nat
      BY <2>1, <2>3, <2>4, <1>6, <1>2
    <2>6. limit(g) \in Nat /\ limit(g) <= FileDataLen /\ limit(g) >= EndAt(g, o, files)
      <3>1. CASE g + 1 < o.size
        <4>1. g + 1 \in 0 .. o.size - 1 /\ g < g + 1 /\ limit(g) = OffsetAt(g + 1, o, files)
          BY <2>5, <3>1, <1>2, <1>4
        <4> QED BY <4>1, <2>5, <1>2, <1>3
      <3>2. CASE ~ (g + 1 < o.size)
        BY <3>2, <2>5, <1>2, <1>3, <1>4
      <3> QED BY <3>1, <3>2
    <2>7. EndAt(g, o, files) + length <= limit(g)
      BY <2>4, <2>5, <2>6, <1>7 DEF Room
    <2>8. \A k \in 0 .. o.size - 1 : k < g + 1 => EndAt(k, o, files) <= EndAt(g, o, files)
      <3> SUFFICES ASSUME NEW k \in 0 .. o.size - 1, k < g + 1
                   PROVE  EndAt(k, o, files) <= EndAt(g, o, files)
        OBVIOUS
      <3>1. k = g \/ k < g
        BY <2>5
      <3>2. k < g => EndAt(k, o, files) <= OffsetAt(g, o, files)
        BY <2>5, <1>2
      <3> QED BY <3>1, <3>2, <2>5, <1>2
    <2>9. \A k \in 0 .. o.size - 1 : k >= g + 1 =>
            EndAt(g, o, files) + length <= OffsetAt(k, o, files)
      <3> SUFFICES ASSUME NEW k \in 0 .. o.size - 1, k >= g + 1
                   PROVE  EndAt(g, o, files) + length <= OffsetAt(k, o, files)
        OBVIOUS
      <3>1. g + 1 \in 0 .. o.size - 1 /\ limit(g) = OffsetAt(g + 1, o, files)
        BY <2>5, <1>2, <1>4
      <3>2. k = g + 1 \/ EndAt(g + 1, o, files) <= OffsetAt(k, o, files)
        BY <3>1, <1>2
      <3> QED BY <3>1, <3>2, <2>5, <2>6, <2>7, <1>2
    <2>10. g + 1 \in 0 .. o.size /\ EndAt(g, o, files) + length <= FileDataLen
      BY <2>5, <2>6, <2>7, <1>3, <1>2
    <2> QED BY <1>8, <2>5, <2>8, <2>9, <2>10
  <1> QED BY <1>9, <1>10

(* A file that is added to the array, at an offset that no file has. *)
LEMMA InsertInPlace ==
  ASSUME NEW o, Placed(o), NEW f \in Index, o.pos[f] = -1, NEW files,
         Ascending(o, OffsetsOf(files)), files[f].length # 0, files[f].offset \in Nat,
         \A g \in Held(o) : files[g].offset \in Nat /\ files[g].offset # files[f].offset
  PROVE  LET new == insert_by_offset(f, files, o)
         IN  /\ Placed(new) /\ Ascending(new, OffsetsOf(files))
             /\ Held(new) = Held(o) \cup {f}
  <1> DEFINE cmp == [m \in 0 .. o.size - 1 |->
                       cmp_offset(files[f].offset, files[o.list[m]], MAX_FILE_DATA_LEN)]
  <1>1. PICK r, K, new : /\ r = arr_get_index(cmp, o.size, TRUE) /\ K = OffsetsOf(files)
                         /\ new = arr_insert(r, f, o)
    OBVIOUS
  <1>2. /\ o.size \in Nat /\ IsArray(o, Index) /\ PointsBack(o, Index)
        /\ o.list \in [0 .. o.size - 1 -> Index]
        /\ \A k \in 0 .. o.size - 1 : o.pos[o.list[k]] = k
    BY DEF Placed, IsArray, PointsBack
  <1>3. /\ K[f] = files[f].offset
        /\ \A k \in 0 .. o.size - 1 : K[o.list[k]] = files[o.list[k]].offset
    BY <1>1, <1>2 DEF OffsetsOf
  <1>4. Compares(cmp, f, o, K)
    <2>1. ASSUME NEW k \in 0 .. o.size - 1
          PROVE  /\ files[o.list[k]].offset \in Nat
                 /\ files[o.list[k]].offset # files[f].offset
                 /\ cmp[k] = IF files[f].offset < files[o.list[k]].offset THEN -1 ELSE 1
      <3>1. o.list[k] \in Index /\ o.pos[o.list[k]] = k /\ k # -1
        BY <1>2
      <3>2. o.list[k] \in Held(o)
        BY <3>1 DEF Held
      <3> QED BY <3>2 DEF cmp_offset
    <2>2. cmp \in [0 .. o.size - 1 -> Int]
      <3>1. \A k \in 0 .. o.size - 1 : cmp[k] \in Int
        BY <2>1
      <3> QED BY <3>1
    <2> HIDE DEF cmp
    <2> QED BY <1>3, <2>1, <2>2 DEF Compares
  <1>5. Ascending(o, K)
    BY <1>1
  <1>6. insert_by_offset(f, files, o) = arr_sorted_insert(r, f, o)
    BY <1>1 DEF insert_by_offset
  <1>7. r = arr_get_index(cmp, o.size, TRUE) /\ new = arr_insert(r, f, o)
    BY <1>1
  <1> HIDE DEF cmp
  <1>8. r \in 0 .. o.size /\ Ascending(new, K)
    <2>1. Gap(cmp, o.size, r)
      BY <1>2, <1>4, <1>7, InsertPosition
    <2> QED BY <1>2, <1>4, <1>5, <1>7, <2>1, InsertAscending
  <1>9. /\ Placed(new) /\ new.pos[f] = r
        /\ \A g \in Index : g # f => (new.pos[g] = -1 <=> o.pos[g] = -1)
    <2>1. IsArray(o, Index) /\ PointsBack(o, Index) /\ r \in 0 .. o.size
      BY <1>2, <1>8
    <2>2. new = arr_insert(r, f, o)
      BY <1>7
    <2> QED BY <2>1, <2>2, InsertKeeps DEF Placed
  <1>10. r # -1
    BY <1>2, <1>8
  <1>11. Held(new) = Held(o) \cup {f}
    BY <1>9, <1>10 DEF Held
  <1>12. insert_by_offset(f, files, o) = new
    BY <1>6, <1>7, <1>8 DEF arr_sorted_insert
  <1> QED BY <1>1, <1>8, <1>9, <1>11, <1>12

(* A file that leaves the array. *)
LEMMA RemoveArranged ==
  ASSUME NEW o, NEW files, Arranged(o, files), NEW f \in Held(o)
  PROVE  LET new == arr_remove(o.pos[f], o)
         IN  Arranged(new, files) /\ Held(new) = Held(o) \ {f}
  <1>1. PICK new : new = arr_remove(o.pos[f], o)
    OBVIOUS
  <1>2. /\ Placed(o) /\ f \in Index /\ o.pos[f] # -1 /\ o.size \in Nat
        /\ o.pos[f] \in 0 .. o.size - 1
    BY ArrangedPositions DEF Arranged, Held
  <1>3. /\ Placed(new) /\ new.pos[f] = -1
        /\ \A g \in Index : g # f => (new.pos[g] = -1 <=> o.pos[g] = -1)
    BY <1>1, <1>2, ArrRemoveKeeps
  <1>4. Held(new) = Held(o) \ {f}
    BY <1>3 DEF Held
  <1>5. Ascending(o, OffsetsOf(files))
    BY DEF Arranged
  <1>6. Ascending(new, OffsetsOf(files))
    BY <1>1, <1>2, <1>5, RemoveAscending
  <1>7. LaidOut(Held(new), files)
    BY <1>4 DEF Arranged, LaidOut
  <1> QED BY <1>1, <1>3, <1>4, <1>6, <1>7 DEF Arranged

(* The same files with the same offsets and lengths. *)
LEMMA SameArranged ==
  ASSUME NEW o, NEW files, Arranged(o, files), NEW others,
         \A f \in Held(o) : /\ others[f].offset = files[f].offset
                            /\ others[f].length = files[f].length
  PROVE  Arranged(o, others)
  <1>1. LaidOut(Held(o), others)
    BY DEF Arranged, LaidOut, Fits, Apart
  <1>2. Ascending(o, OffsetsOf(others))
    <2>1. \A k \in 0 .. o.size - 1 : o.list[k] \in Held(o) /\ o.list[k] \in Index
      BY ArrangedPositions DEF Held
    <2>2. \A k \in 0 .. o.size - 1 : OffsetsOf(others)[o.list[k]] = OffsetsOf(files)[o.list[k]]
      BY <2>1 DEF OffsetsOf
    <2> QED BY <2>2 DEF Arranged, Ascending
  <1> QED BY <1>1, <1>2 DEF Arranged

(* A file in a free range. *)
LEMMA AddLaidOut ==
  ASSUME NEW T, NEW files, LaidOut(T, files), NEW f, files[f].length \in Nat \ {0},
         Free(files[f].offset, files[f].length, T, files)
  PROVE  LaidOut(T \cup {f}, files)
  BY DEF LaidOut, Free, Fits, Apart

(* A new file, or one that was moved, in a free range: file_t's "old" while
   it enters the array, "files" afterwards. *)
LEMMA EnterArranged ==
  ASSUME NEW o, NEW old, Arranged(o, old), NEW f \in Index, o.pos[f] = -1, NEW files,
         old[f].length # 0, old[f].offset = files[f].offset,
         \A g \in Held(o) : /\ files[g].offset = old[g].offset
                            /\ files[g].length = old[g].length,
         files[f].length \in Nat \ {0},
         Free(files[f].offset, files[f].length, Held(o), files)
  PROVE  LET new == insert_by_offset(f, old, o)
         IN  Arranged(new, files) /\ Held(new) = Held(o) \cup {f}
  <1>1. PICK new : new = insert_by_offset(f, old, o)
    OBVIOUS
  <1>2. f \notin Held(o) /\ Held(o) \subseteq Index
    BY DEF Held
  <1>3. Arranged(o, files)
    BY SameArranged
  <1>4. \A g \in Held(o) : Fits(files[g])
    BY <1>3 DEF Arranged, LaidOut
  <1>5. /\ files[f].offset \in Nat
        /\ \A g \in Held(o) : files[g].offset \in Nat /\ files[g].offset # files[f].offset
    <2>1. files[f].offset \in Nat
      BY DEF Free
    <2> SUFFICES ASSUME NEW g \in Held(o)
                 PROVE  files[g].offset \in Nat /\ files[g].offset # files[f].offset
      BY <2>1
    <2>2. files[g].offset \in Nat /\ files[g].length \in Nat \ {0}
      BY <1>4 DEF Fits
    <2>3. \/ files[g].offset + files[g].length <= files[f].offset
          \/ files[f].offset + files[f].length <= files[g].offset
      BY DEF Free
    <2> QED BY <2>1, <2>2, <2>3
  <1>6. /\ Placed(new) /\ Ascending(new, OffsetsOf(old)) /\ Held(new) = Held(o) \cup {f}
    <2>1. Placed(o) /\ Ascending(o, OffsetsOf(old))
      BY DEF Arranged
    <2>2. /\ old[f].offset \in Nat
          /\ \A g \in Held(o) : old[g].offset \in Nat /\ old[g].offset # old[f].offset
      BY <1>5
    <2> QED BY <1>1, <2>1, <2>2, InsertInPlace
  <1>7. \A g \in Held(new) : OffsetsOf(files)[g] = OffsetsOf(old)[g]
    BY <1>6, <1>2 DEF OffsetsOf
  <1>8. \A k \in 0 .. new.size - 1 : new.list[k] \in Held(new)
    <2> SUFFICES ASSUME NEW k \in 0 .. new.size - 1 PROVE new.list[k] \in Held(new)
      OBVIOUS
    <2>1. new.list[k] \in Index /\ new.pos[new.list[k]] = k /\ k # -1
      BY <1>6 DEF Placed, IsArray, PointsBack
    <2> QED BY <2>1 DEF Held
  <1>9. Ascending(new, OffsetsOf(files))
    BY <1>6, <1>7, <1>8 DEF Ascending
  <1>10. LaidOut(Held(new), files)
    <2>1. LaidOut(Held(o) \cup {f}, files)
      BY <1>3, AddLaidOut DEF Arranged
    <2> QED BY <2>1, <1>6
  <1> QED BY <1>1, <1>6, <1>9, <1>10 DEF Arranged

----------------------------------------------------------------------------
(* The repack *)

(* One iteration of its loop, with the offset of the file before it. *)
PackBody(new, k, o, files, stop) ==
  IF k = 0 THEN 0
  ELSE IF k >= stop THEN OffsetAt(k, o, files)
  ELSE Min({OffsetAt(k, o, files), new[k - 1] + LengthAt(k - 1, o, files)})

LEMMA RepackUnfold ==
  ASSUME NEW o, NEW files
  PROVE  RepackedOffsets(o, files) =
           CHOOSE new : new = [k \in 0 .. o.size - 1 |->
             PackBody(new, k, o, files,
                      Min({o.size} \cup
                          {m \in 1 .. o.size - 1 : OffsetAt(m, o, files) >= MAX_FILE_DATA_LEN}))]
  BY DEF RepackedOffsets, PackBody

LengthsOf(files) == [i \in Index |-> files[i].length]

(* The bytes in the files before position k of the array. *)
BytesBefore(k, o, files) ==
  SumFunctionOnSet([m \in 0 .. o.size - 1 |-> LengthAt(m, o, files)], 0 .. k - 1)

LEMMA BytesAdd ==
  ASSUME NEW o, NEW files, Arranged(o, files)
  PROVE  /\ \A k \in 0 .. o.size : BytesBefore(k, o, files) \in Nat
         /\ BytesBefore(0, o, files) = 0
         /\ \A k \in 0 .. o.size - 1 :
              BytesBefore(k + 1, o, files) = BytesBefore(k, o, files) + LengthAt(k, o, files)
         /\ BytesBefore(o.size, o, files) = SumFunctionOnSet(LengthsOf(files), Held(o))
  <1>1. PICK lens : lens = [m \in 0 .. o.size - 1 |-> LengthAt(m, o, files)]
    OBVIOUS
  <1>2. /\ o.size \in Nat
        /\ \A m \in 0 .. o.size - 1 : /\ lens[m] \in Nat /\ lens[m] = LengthAt(m, o, files)
                                      /\ o.list[m] \in Held(o) /\ o.pos[o.list[m]] = m
        /\ \A f \in Held(o) : o.pos[f] \in 0 .. o.size - 1 /\ o.list[o.pos[f]] = f
    BY <1>1, ArrangedPositions
  <1>3. \A k : BytesBefore(k, o, files) = SumFunctionOnSet(lens, 0 .. k - 1)
    BY <1>1 DEF BytesBefore
  <1>4. IsFiniteSet(0 .. o.size - 1)
    <2>1. 0 \in Int /\ o.size - 1 \in Int
      BY <1>2
    <2> QED BY <2>1, FS_Interval
  <1>5. ASSUME NEW k \in 0 .. o.size - 1
        PROVE  /\ BytesBefore(k, o, files) \in Nat
               /\ BytesBefore(k + 1, o, files) = BytesBefore(k, o, files) + LengthAt(k, o, files)
    <2>1. PICK T : T = 0 .. k - 1
      OBVIOUS
    <2>2. T \subseteq 0 .. o.size - 1 /\ k \notin T /\ T \cup {k} = 0 .. (k + 1) - 1
      BY <2>1, <1>2
    <2>3. IsFiniteSet(T)
      BY <2>2, <1>4, FS_Subset
    <2>4. \A y \in T \cup {k} : lens[y] \in Nat
      BY <2>2, <1>2
    <2>5. /\ SumFunctionOnSet(lens, T) \in Nat
          /\ SumFunctionOnSet(lens, T \cup {k}) = lens[k] + SumFunctionOnSet(lens, T)
      BY <2>2, <2>3, <2>4, SumAdd
    <2>6. BytesBefore(k, o, files) = SumFunctionOnSet(lens, T)
      BY <2>1, <1>3
    <2>7. BytesBefore(k + 1, o, files) = SumFunctionOnSet(lens, 0 .. (k + 1) - 1)
      BY <1>3
    <2>8. BytesBefore(k + 1, o, files) = SumFunctionOnSet(lens, T \cup {k})
      BY <2>2, <2>7
    <2>9. lens[k] \in Nat /\ lens[k] = LengthAt(k, o, files)
      BY <1>2
    <2> QED BY <2>5, <2>6, <2>8, <2>9
  <1>6. BytesBefore(0, o, files) = 0
    <2>1. 0 .. 0 - 1 = {}
      OBVIOUS
    <2> QED BY <2>1, <1>3, SumNothing
  <1>7. /\ BytesBefore(o.size, o, files) = SumFunctionOnSet(LengthsOf(files), Held(o))
        /\ BytesBefore(o.size, o, files) \in Nat
    <2>1. PICK U, g, h : U = 0 .. o.size - 1 /\ g = LengthsOf(files) /\ h = o.list
      OBVIOUS
    <2>2. \A m \in U : lens[m] \in Nat /\ g[h[m]] = lens[m]
      BY <1>2, <2>1 DEF LengthsOf, LengthAt, Held
    <2>3. \A m, n \in U : h[m] = h[n] => m = n
      BY <1>2, <2>1
    <2>4. SumFunctionOnSet(g, {h[m] : m \in U}) = SumFunctionOnSet(lens, U)
      <3>1. IsFiniteSet(U)
        BY <1>4, <2>1
      <3> QED BY <3>1, <2>2, <2>3, SumRenamed
    <2>5. {h[m] : m \in U} = Held(o)
      BY <1>2, <2>1
    <2>6. SumFunctionOnSet(lens, U) \in Nat
      BY <1>4, <2>1, <2>2, SumSplit
    <2> QED BY <1>3, <2>1, <2>4, <2>5, <2>6
  <1> QED BY <1>2, <1>5, <1>6, <1>7

(* The files before a position take no more space than they had. *)
LEMMA BytesBelow ==
  ASSUME NEW o, NEW files, Arranged(o, files)
  PROVE  \A k \in 0 .. o.size - 1 : BytesBefore(k, o, files) <= OffsetAt(k, o, files)
  <1> DEFINE Good == {k \in 0 .. o.size - 1 : BytesBefore(k, o, files) <= OffsetAt(k, o, files)}
  <1>1. /\ o.size \in Nat
        /\ \A k \in 0 .. o.size - 1 :
              /\ OffsetAt(k, o, files) \in Nat /\ LengthAt(k, o, files) \in Nat \ {0}
              /\ EndAt(k, o, files) = OffsetAt(k, o, files) + LengthAt(k, o, files)
        /\ \A j, k \in 0 .. o.size - 1 :
              j < k => EndAt(j, o, files) <= OffsetAt(k, o, files)
    BY ArrangedPositions
  <1>2. CASE o.size = 0
    BY <1>2
  <1>3. CASE o.size # 0
    <2>1. 0 \in Good
      BY <1>1, <1>3, BytesAdd
    <2>2. ASSUME NEW m \in 0 .. (o.size - 1) - 1, m \in Good PROVE m + 1 \in Good
      <3>1. m \in 0 .. o.size - 1 /\ m + 1 \in 0 .. o.size - 1 /\ m < m + 1
        BY <1>1
      <3>2. /\ BytesBefore(m + 1, o, files) = BytesBefore(m, o, files) + LengthAt(m, o, files)
            /\ BytesBefore(m, o, files) \in Nat
        BY <3>1, <1>1, BytesAdd
      <3>3. /\ BytesBefore(m, o, files) <= OffsetAt(m, o, files)
            /\ EndAt(m, o, files) <= OffsetAt(m + 1, o, files)
        BY <2>2, <3>1, <1>1
      <3>4. BytesBefore(m + 1, o, files) <= OffsetAt(m + 1, o, files)
        BY <3>1, <3>2, <3>3, <1>1
      <3> QED BY <3>1, <3>4
    <2>3. o.size - 1 \in Nat
      BY <1>1, <1>3
    <2> HIDE DEF Good
    <2>4. 0 .. o.size - 1 \subseteq Good
      BY <2>1, <2>2, <2>3, BoundedInduction
    <2> QED BY <2>4 DEF Good
  <1> QED BY <1>2, <1>3

(* The loop moves every file down to the end of the one before it. *)
LEMMA RepackedRight ==
  ASSUME NEW o, NEW files, Arranged(o, files)
  PROVE  \A k \in 0 .. o.size - 1 : RepackedOffsets(o, files)[k] = BytesBefore(k, o, files)
  <1>1. PICK stop : stop = Min({o.size} \cup
                    {m \in 1 .. o.size - 1 : OffsetAt(m, o, files) >= MAX_FILE_DATA_LEN})
    OBVIOUS
  <1>2. /\ o.size \in Nat /\ MAX_FILE_DATA_LEN \in Nat
        /\ \A k \in 0 .. o.size - 1 :
             /\ OffsetAt(k, o, files) \in Nat /\ LengthAt(k, o, files) \in Nat
             /\ OffsetAt(k, o, files) < MAX_FILE_DATA_LEN
    BY ArrangedPositions, LengthAssumption
  <1>3. stop = o.size
    <2>1. PICK T : T = {o.size} \cup
                    {m \in 1 .. o.size - 1 : OffsetAt(m, o, files) >= MAX_FILE_DATA_LEN}
      OBVIOUS
    <2>2. \A m \in 1 .. o.size - 1 : ~ (OffsetAt(m, o, files) >= MAX_FILE_DATA_LEN)
      BY <1>2
    <2>3. T = {o.size}
      BY <2>1, <2>2
    <2>4. T \in SUBSET Nat /\ T # {}
      BY <2>3, <1>2
    <2> QED BY <1>1, <2>1, <2>3, <2>4, MinOfNaturals
  <1>4. RepackedOffsets(o, files) =
          CHOOSE new : new = [k \in 0 .. o.size - 1 |-> PackBody(new, k, o, files, stop)]
    BY <1>1, RepackUnfold
  <1>5. ASSUME NEW k \in 0 .. o.size - 1, NEW new,
               k # 0 => new[k - 1] = BytesBefore(k - 1, o, files)
        PROVE  PackBody(new, k, o, files, stop) = BytesBefore(k, o, files)
    <2>1. CASE k = 0
      BY <2>1, BytesAdd DEF PackBody
    <2>2. CASE k # 0
      <3>1. k - 1 \in 0 .. o.size - 1 /\ k - 1 \in 0 .. o.size /\ (k - 1) + 1 = k /\ ~ (k >= stop)
        BY <2>2, <1>2, <1>3
      <3>2. /\ BytesBefore(k, o, files) =
                 BytesBefore(k - 1, o, files) + LengthAt(k - 1, o, files)
            /\ BytesBefore(k - 1, o, files) \in Nat
        BY <3>1, BytesAdd
      <3>3. BytesBefore(k, o, files) <= OffsetAt(k, o, files)
        BY BytesBelow
      <3>4. PICK a, b : a = OffsetAt(k, o, files) /\ b = BytesBefore(k, o, files)
        OBVIOUS
      <3>5. PackBody(new, k, o, files, stop) = Min({a, b})
        BY <1>5, <2>2, <3>1, <3>2, <3>4 DEF PackBody
      <3>6. a \in Nat /\ b \in Nat /\ b <= a
        BY <1>2, <3>1, <3>2, <3>3, <3>4
      <3>7. {a, b} \in SUBSET Nat /\ {a, b} # {}
        BY <3>6
      <3>8. Min({a, b}) \in {a, b} /\ Min({a, b}) <= b
        BY <3>7, MinOfNaturals
      <3>9. Min({a, b}) = b
        BY <3>6, <3>8
      <3> QED BY <3>4, <3>5, <3>9
    <2> QED BY <2>1, <2>2
  <1>6. PICK new : new = RepackedOffsets(o, files)
    OBVIOUS
  <1>7. new = [k \in 0 .. o.size - 1 |-> PackBody(new, k, o, files, stop)]
    <2>1. PICK w : w = [k \in 0 .. o.size - 1 |-> BytesBefore(k, o, files)]
      OBVIOUS
    <2>2. \A k \in 0 .. o.size - 1 : PackBody(w, k, o, files, stop) = BytesBefore(k, o, files)
      <3> SUFFICES ASSUME NEW k \in 0 .. o.size - 1
                   PROVE  PackBody(w, k, o, files, stop) = BytesBefore(k, o, files)
        OBVIOUS
      <3>1. k # 0 => k - 1 \in 0 .. o.size - 1
        BY <1>2
      <3>2. k # 0 => w[k - 1] = BytesBefore(k - 1, o, files)
        BY <2>1, <3>1
      <3> QED BY <3>2, <1>5
    <2>3. w = [k \in 0 .. o.size - 1 |-> PackBody(w, k, o, files, stop)]
      BY <2>1, <2>2
    <2> QED BY <1>4, <1>6, <2>3
  <1>8. CASE o.size = 0
    BY <1>8
  <1>9. CASE o.size # 0
    <2> DEFINE Good == {k \in 0 .. o.size - 1 : new[k] = BytesBefore(k, o, files)}
    <2>1. \A k \in 0 .. o.size - 1 : new[k] = PackBody(new, k, o, files, stop)
      BY <1>7
    <2>2. 0 \in Good
      <3>1. 0 \in 0 .. o.size - 1
        BY <1>2, <1>9
      <3> QED BY <3>1, <2>1, <1>5
    <2>3. ASSUME NEW m \in 0 .. (o.size - 1) - 1, m \in Good PROVE m + 1 \in Good
      <3>1. m + 1 \in 0 .. o.size - 1 /\ (m + 1) - 1 = m
        BY <1>2
      <3>2. new[(m + 1) - 1] = BytesBefore((m + 1) - 1, o, files)
        BY <3>1, <2>3
      <3> QED BY <3>1, <3>2, <2>1, <1>5
    <2>4. o.size - 1 \in Nat
      BY <1>2, <1>9
    <2> HIDE DEF Good
    <2>5. 0 .. o.size - 1 \subseteq Good
      BY <2>2, <2>3, <2>4, BoundedInduction
    <2> QED BY <2>5, <1>6 DEF Good
  <1> QED BY <1>8, <1>9

(* After a repack the files of the array follow each other from the start of
   file_data on; no other file_t changes. *)
LEMMA RepackArranged ==
  ASSUME NEW o, NEW files, Arranged(o, files), IsTable(files),
         NEW entries, NEW bytes, NEW u \in Nat, u > 0 \/ o.size = 0,
         NEW total, total = SumFunctionOnSet(LengthsOf(files), Held(o))
  PROVE  LET r == repack_helper(o, files, entries, bytes, u)
         IN  /\ Arranged(o, r.file)
             /\ \A i \in Held(o) : /\ r.file[i].offset + r.file[i].length <= total
                                   /\ r.file[i].length = files[i].length
                                   /\ r.file[i].offset = BytesBefore(o.pos[i], o, files)
             /\ \A i \in Index \ Held(o) : r.file[i] = files[i]
  <1> DEFINE new == RepackedOffsets(o, files)
             moved == {k \in 0 .. o.size - 1 : new[k] # OffsetAt(k, o, files)}
             F1 == {o.list[k] : k \in moved}
             packed == [i \in DOMAIN files |->
                        IF i \in F1 THEN update_offset(files[i], new[o.pos[i]])
                        ELSE files[i]]
  <1>1. PICK rf : rf = repack_helper(o, files, entries, bytes, u).file
    OBVIOUS
  <1>2. rf = IF u <= 0 \/ o.size <= 0 THEN files ELSE packed
    BY <1>1 DEF repack_helper
  <1>3. /\ o.size \in Nat /\ Held(o) \subseteq Index
        /\ \A k \in 0 .. o.size - 1 :
              /\ o.list[k] \in Held(o) /\ o.pos[o.list[k]] = k
              /\ OffsetAt(k, o, files) \in Nat /\ LengthAt(k, o, files) \in Nat \ {0}
              /\ EndAt(k, o, files) = OffsetAt(k, o, files) + LengthAt(k, o, files)
              /\ EndAt(k, o, files) <= FileDataLen
        /\ \A f \in Held(o) : o.pos[f] \in 0 .. o.size - 1 /\ o.list[o.pos[f]] = f
    BY ArrangedPositions DEF Held
  <1>4. DOMAIN files = Index /\ \A i \in Index : IsFile(files[i])
    BY DEF IsTable
  <1>5. \A k \in 0 .. o.size - 1 : new[k] = BytesBefore(k, o, files)
    BY RepackedRight
  <1> HIDE DEF new
  <1>6. CASE o.size = 0
    <2>1. rf = files /\ Held(o) = {}
      BY <1>2, <1>3, <1>6
    <2> QED BY <1>1, <2>1
  <1>7. CASE o.size # 0
    <2>1. rf = packed
      BY <1>2, <1>3, <1>7
    <2>2. \A i \in Held(o) : /\ rf[i].offset = BytesBefore(o.pos[i], o, files)
                             /\ rf[i].length = files[i].length
      <3> SUFFICES ASSUME NEW i \in Held(o)
                   PROVE  /\ rf[i].offset = BytesBefore(o.pos[i], o, files)
                          /\ rf[i].length = files[i].length
        OBVIOUS
      <3>1. /\ i \in Index /\ i = o.list[o.pos[i]] /\ o.pos[i] \in 0 .. o.size - 1
            /\ new[o.pos[i]] = BytesBefore(o.pos[i], o, files)
        BY <1>3, <1>5
      <3>2. CASE i \in F1
        <4>1. rf[i] = update_offset(files[i], new[o.pos[i]])
          BY <2>1, <3>1, <3>2, <1>4
        <4> QED BY <4>1, <3>1 DEF update_offset
      <3>3. CASE i \notin F1
        <4>1. rf[i] = files[i]
          BY <2>1, <3>1, <3>3, <1>4
        <4>2. new[o.pos[i]] = OffsetAt(o.pos[i], o, files)
          BY <3>1, <3>3
        <4> QED BY <4>1, <4>2, <3>1 DEF OffsetAt
      <3> QED BY <3>2, <3>3
    <2>3. \A i \in Index \ Held(o) : rf[i] = files[i]
      <3> SUFFICES ASSUME NEW i \in Index, i \notin Held(o) PROVE rf[i] = files[i]
        OBVIOUS
      <3>1. i \notin F1
        BY <1>3
      <3> QED BY <3>1, <2>1, <1>4
    <2> HIDE DEF F1, moved, packed
    <2>4. /\ \A k \in 0 .. o.size : BytesBefore(k, o, files) \in Nat
          /\ \A k \in 0 .. o.size - 1 :
               BytesBefore(k + 1, o, files) = BytesBefore(k, o, files) + LengthAt(k, o, files)
          /\ BytesBefore(o.size, o, files) = total
      BY BytesAdd
    <2>5. ASSUME NEW j \in 0 .. o.size - 1
          PROVE  \A k \in j + 1 .. o.size :
                   BytesBefore(j, o, files) + LengthAt(j, o, files) <= BytesBefore(k, o, files)
      <3> DEFINE Good == {d \in 0 .. o.size - (j + 1) :
                    BytesBefore(j, o, files) + LengthAt(j, o, files)
                      <= BytesBefore(j + 1 + d, o, files)}
      <3>1. 0 \in Good
        <4>1. j + 1 + 0 = j + 1 /\ j + 1 \in 0 .. o.size /\ 0 \in 0 .. o.size - (j + 1)
          BY <1>3
        <4>2. /\ BytesBefore(j + 1, o, files) = BytesBefore(j, o, files) + LengthAt(j, o, files)
              /\ BytesBefore(j + 1, o, files) \in Nat
          BY <4>1, <2>4
        <4> QED BY <4>1, <4>2
      <3>2. ASSUME NEW d \in 0 .. (o.size - (j + 1)) - 1, d \in Good PROVE d + 1 \in Good
        <4>1. /\ j + 1 + d \in 0 .. o.size - 1 /\ j + 1 + (d + 1) = (j + 1 + d) + 1
              /\ d + 1 \in 0 .. o.size - (j + 1) /\ j \in 0 .. o.size
              /\ j + 1 + d \in 0 .. o.size
          BY <1>3
        <4>2. BytesBefore(j + 1 + (d + 1), o, files) =
                BytesBefore(j + 1 + d, o, files) + LengthAt(j + 1 + d, o, files)
          BY <4>1, <2>4
        <4>3. /\ LengthAt(j + 1 + d, o, files) \in Nat /\ LengthAt(j, o, files) \in Nat
              /\ BytesBefore(j + 1 + d, o, files) \in Nat /\ BytesBefore(j, o, files) \in Nat
          BY <4>1, <1>3, <2>4
        <4>4. BytesBefore(j, o, files) + LengthAt(j, o, files)
                      <= BytesBefore(j + 1 + d, o, files)
          BY <3>2
        <4>5. BytesBefore(j, o, files) + LengthAt(j, o, files)
                      <= BytesBefore(j + 1 + (d + 1), o, files)
          BY <4>2, <4>3, <4>4
        <4> QED BY <4>1, <4>5
      <3>3. o.size - (j + 1) \in Nat
        BY <1>3
      <3> HIDE DEF Good
      <3>4. 0 .. o.size - (j + 1) \subseteq Good
        BY <3>1, <3>2, <3>3, BoundedInduction
      <3> SUFFICES ASSUME NEW k \in j + 1 .. o.size
                   PROVE  BytesBefore(j, o, files) + LengthAt(j, o, files)
                            <= BytesBefore(k, o, files)
        OBVIOUS
      <3>5. k - (j + 1) \in 0 .. o.size - (j + 1) /\ j + 1 + (k - (j + 1)) = k
        BY <1>3
      <3>6. k - (j + 1) \in Good
        BY <3>4, <3>5
      <3> QED BY <3>5, <3>6 DEF Good
    <2>6. /\ 0 \in 0 .. o.size - 1 /\ total \in Nat /\ total <= FileDataLen
      <3>1. /\ o.size - 1 \in 0 .. o.size - 1 /\ (o.size - 1) + 1 = o.size
            /\ o.size \in 0 .. o.size
        BY <1>3, <1>7
      <3>2. /\ total = BytesBefore(o.size - 1, o, files) + LengthAt(o.size - 1, o, files)
            /\ total \in Nat
        BY <3>1, <2>4
      <3>3. /\ BytesBefore(o.size - 1, o, files) <= OffsetAt(o.size - 1, o, files)
            /\ BytesBefore(o.size - 1, o, files) \in Nat
        BY <3>1, <2>4, BytesBelow
      <3>4. FileDataLen \in Nat
        BY LengthAssumption
      <3>5. /\ OffsetAt(o.size - 1, o, files) \in Nat
            /\ LengthAt(o.size - 1, o, files) \in Nat
            /\ OffsetAt(o.size - 1, o, files) + LengthAt(o.size - 1, o, files) <= FileDataLen
        BY <3>1, <1>3
      <3> QED BY <3>1, <3>2, <3>3, <3>4, <3>5, <1>3, <1>7
    <2>7. ASSUME NEW i \in Held(o)
          PROVE  /\ rf[i].offset \in Nat /\ rf[i].length \in Nat \ {0}
                 /\ rf[i].offset + rf[i].length <= total
                 /\ \A g \in Held(o) : o.pos[i] < o.pos[g] =>
                      rf[i].offset + rf[i].length <= rf[g].offset
      <3>1. /\ o.pos[i] \in 0 .. o.size - 1 /\ o.pos[i] \in 0 .. o.size
            /\ o.size \in o.pos[i] + 1 .. o.size
            /\ o.list[o.pos[i]] = i
        BY <1>3
      <3>2. /\ rf[i].offset = BytesBefore(o.pos[i], o, files)
            /\ rf[i].length = LengthAt(o.pos[i], o, files)
        BY <2>2, <3>1 DEF LengthAt
      <3>3. ASSUME NEW g \in Held(o), o.pos[i] < o.pos[g]
            PROVE  rf[i].offset + rf[i].length <= rf[g].offset
        <4>1. o.pos[g] \in o.pos[i] + 1 .. o.size
          BY <3>1, <3>3, <1>3
        <4> QED BY <4>1, <3>1, <3>2, <2>2, <2>5
      <3> QED BY <3>1, <3>2, <3>3, <1>3, <2>4, <2>5
    <2>8. LaidOut(Held(o), rf)
      <3>1. \A i \in Held(o) : Fits(rf[i])
        <4>1. FileDataLen \in Nat
          BY LengthAssumption
        <4> QED BY <4>1, <2>6, <2>7 DEF Fits
      <3>2. ASSUME NEW i \in Held(o), NEW g \in Held(o), i # g PROVE Apart(rf[i], rf[g])
        <4>1. o.pos[i] < o.pos[g] \/ o.pos[g] < o.pos[i]
          BY <3>2, <1>3
        <4> QED BY <4>1, <2>7 DEF Apart
      <3> QED BY <3>1, <3>2 DEF LaidOut
    <2>9. Ascending(o, OffsetsOf(rf))
      <3> SUFFICES ASSUME NEW j \in 0 .. o.size - 1, NEW k \in 0 .. o.size - 1, j < k
                   PROVE  OffsetsOf(rf)[o.list[j]] < OffsetsOf(rf)[o.list[k]]
        BY DEF Ascending
      <3>1. /\ o.list[j] \in Held(o) /\ o.list[k] \in Held(o)
            /\ o.pos[o.list[j]] < o.pos[o.list[k]]
        BY <1>3
      <3>2. /\ rf[o.list[j]].offset \in Nat /\ rf[o.list[k]].offset \in Nat
            /\ rf[o.list[j]].length \in Nat \ {0}
            /\ rf[o.list[j]].offset + rf[o.list[j]].length <= rf[o.list[k]].offset
        BY <3>1, <2>7
      <3>3. rf[o.list[j]].offset < rf[o.list[k]].offset
        BY <3>2
      <3> QED BY <3>1, <3>3, <1>3 DEF OffsetsOf
    <2>10. Arranged(o, rf)
      BY <2>8, <2>9 DEF Arranged
    <2> QED BY <1>1, <2>2, <2>3, <2>7, <2>10
  <1> QED BY <1>6, <1>7

----------------------------------------------------------------------------
(* The filesystem when the files are laid out *)

LEMMA HeldFiles ==
  ASSUME IInv, LayoutInv
  PROVE  /\ Held(o_list) = Live /\ Arranged(o_list, file)
         /\ Live \subseteq Listed /\ Listed \subseteq Index
         /\ \A i \in Live : /\ file[i].offset = dir[i].offset
                            /\ file[i].length = dir[i].length
  <1>1. Held(o_list) = Live
    BY DEF Held, Live, IInv, ArraysInv, LayoutInv
  <1>2. Live \subseteq Listed /\ Listed \subseteq Index
    BY DEF Live, Listed, IInv, EntriesInv
  <1>3. \A i \in Live : /\ file[i].offset = dir[i].offset
                        /\ file[i].length = dir[i].length
    BY DEF Live, IInv, EntriesInv, Agree, LayoutInv
  <1>4. LaidOut(Live, file)
    BY <1>2, <1>3 DEF LayoutInv, LaidOut, Fits, Apart
  <1>5. Arranged(o_list, file)
    BY <1>1, <1>4 DEF Arranged, IInv, ArraysInv, LayoutInv
  <1> QED BY <1>1, <1>2, <1>3, <1>5

(* "used" is the sum of the lengths of the files in the array. *)
LEMMA HeldBytes ==
  ASSUME IInv, SizedInv, LayoutInv, phase = "open"
  PROVE  /\ used \in Nat /\ used = SumFunctionOnSet(LengthsOf(file), Live)
         /\ used > 0 \/ o_list.size = 0
         /\ \A i \in Live : /\ file[i].length \in 1 .. used
                            /\ used - file[i].length =
                                 SumFunctionOnSet(LengthsOf(file), Live \ {i})
  <1>1. /\ used = SumFunctionOnSet(AllBytes, Index) /\ used \in Nat
        /\ \A i \in Index : dir[i].length \in 0 .. used
    BY UsedWhenOpen
  <1>2. PICK g, T : g = LengthsOf(file) /\ T = Live
    OBVIOUS
  <1>3. T \subseteq Index /\ IsFiniteSet(T)
    BY <1>2, LiveFinite DEF Live
  <1>4. \A i \in Index : /\ AllBytes[i] \in Nat /\ AllBytes[i] = dir[i].length
                         /\ i \in Index \ T => AllBytes[i] = 0
    BY <1>2 DEF AllBytes, SizedInv, Live, IInv, EntriesInv, Scanned
  <1>5. \A i \in T : g[i] = dir[i].length /\ g[i] = AllBytes[i] /\ g[i] = file[i].length
    <2>1. \A i \in T : file[i].length = dir[i].length
      BY <1>2, HeldFiles
    <2> QED BY <1>2, <1>3, <1>4, <2>1 DEF LengthsOf
  <1>6. used = SumFunctionOnSet(g, T)
    <2>1. SumFunctionOnSet(AllBytes, Index) = SumFunctionOnSet(AllBytes, T)
      <3> HIDE DEF AllBytes
      <3>1. /\ \A x \in Index : AllBytes[x] \in Nat
            /\ \A x \in Index \ T : AllBytes[x] = 0
            /\ IsFiniteSet(Index) /\ T \in SUBSET Index
        BY <1>3, <1>4, IndexFinite
      <3> QED BY <3>1, SumZeros
    <2>2. SumFunctionOnSet(g, T) = SumFunctionOnSet(AllBytes, T)
      BY <1>3, <1>5, SumSame
    <2> QED BY <1>1, <2>1, <2>2
  <1>7. \A i \in T : file[i].length \in 1 .. used
    <2> SUFFICES ASSUME NEW i \in T PROVE file[i].length \in 1 .. used
      OBVIOUS
    <2>1. Fits(file[i])
      BY <1>2, HeldFiles DEF Arranged, LaidOut
    <2>2. file[i].length \in Nat \ {0} /\ file[i].length \in 0 .. used
      BY <1>1, <1>3, <1>5, <2>1 DEF Fits
    <2> QED BY <2>2
  <1>8. \A i \in T : used - file[i].length = SumFunctionOnSet(g, T \ {i})
    <2> SUFFICES ASSUME NEW i \in T
                 PROVE  used - file[i].length = SumFunctionOnSet(g, T \ {i})
      OBVIOUS
    <2>1. \A x \in T : g[x] \in Nat
      BY <1>3, <1>4, <1>5
    <2>2. SumFunctionOnSet(g, T) = g[i] + SumFunctionOnSet(g, T \ {i})
      BY <1>3, <2>1, SumSplit
    <2>3. SumFunctionOnSet(g, T \ {i}) \in Nat /\ g[i] \in Nat
      <3>1. T \in SUBSET T /\ T \ {i} \in SUBSET T
        OBVIOUS
      <3> QED BY <3>1, <1>3, <2>1, SumSplit
    <2>4. g[i] = file[i].length
      BY <1>5
    <2> QED BY <1>6, <2>2, <2>3, <2>4
  <1>9. used > 0 \/ o_list.size = 0
    <2> SUFFICES ASSUME o_list.size # 0 PROVE used > 0
      OBVIOUS
    <2>1. /\ o_list.size \in Nat
          /\ \A k \in 0 .. o_list.size - 1 : o_list.list[k] \in Held(o_list)
      BY HeldFiles, ArrangedPositions
    <2>2. o_list.list[0] \in T
      BY <2>1, <1>2, HeldFiles
    <2> QED BY <1>1, <1>7, <2>2
  <1> QED BY <1>1, <1>2, <1>6, <1>7, <1>8, <1>9

(* Between calls LayoutInv speaks only of the offset array. *)
LayoutWhenOpen ==
  phase = "open" /\ Arranged(o_list, file) /\ Live \subseteq Held(o_list)

LEMMA OpenLayout == IInv /\ LayoutWhenOpen => LayoutInv
  <1> SUFFICES ASSUME IInv, LayoutWhenOpen PROVE LayoutInv
    OBVIOUS
  <1>1. phase = "open" /\ Arranged(o_list, file) /\ Live \subseteq Held(o_list)
    BY DEF LayoutWhenOpen
  <1>2. Listed = Live /\ Live \subseteq Index
    BY <1>1 DEF Listed, Live, IInv, EntriesInv, Scanned
  <1>3. FileDataLen \in Nat /\ MAX_FILE_DATA_LEN \in Nat /\ FileDataLen <= MAX_FILE_DATA_LEN
    BY LengthAssumption
  <1>4. ASSUME NEW i \in Live
        PROVE  /\ o_list.pos[i] # -1 /\ Fits(file[i])
               /\ file[i].offset = dir[i].offset /\ file[i].length = dir[i].length
    <2>1. i \in Held(o_list) /\ Fits(file[i])
      BY <1>1 DEF Arranged, LaidOut
    <2>2. file[i].offset < MAX_FILE_DATA_LEN
      BY <2>1, <1>3 DEF Fits
    <2>3. Agree(file[i], dir[i])
      BY <1>4 DEF Live, IInv, EntriesInv
    <2> QED BY <2>1, <2>2, <2>3 DEF Held, Agree, SameOffset
  <1>5. LaidOut(Listed, dir)
    <2>1. \A i \in Live : Fits(dir[i])
      BY <1>4 DEF Fits
    <2>2. \A i, j \in Live : i # j => Apart(file[i], file[j])
      BY <1>1 DEF Arranged, LaidOut
    <2>3. \A i, j \in Live : i # j => Apart(dir[i], dir[j])
      BY <2>2, <1>4 DEF Apart
    <2> QED BY <2>1, <2>3, <1>2 DEF LaidOut
  <1> QED BY <1>1, <1>4, <1>5 DEF LayoutInv, Arranged

LEMMA OpenLayoutNext == IInv' /\ LayoutWhenOpen' => LayoutInv'
  BY OpenLayout, PTL

(* The process ends; dir_table is as it was. *)
LEMMA LostLayout ==
  ASSUME LayoutInv, MemoryLost, dir' = dir
  PROVE  LayoutInv'
  <1>1. Listed' = Listed /\ LaidOut(Listed, dir)
    BY DEF Listed, LayoutInv
  <1>2. LaidOut(Listed, dir)'
    BY <1>1 DEF LaidOut
  <1>3. Live' = {}
    BY DEF MemoryLost, Live
  <1>4. Ascending(o_list', OffsetsOf(file'))
    BY DEF MemoryLost, arr_init, Ascending
  <1> QED BY <1>2, <1>3, <1>4 DEF LayoutInv

----------------------------------------------------------------------------
(* The steps *)

LEMMA CreateLayout ==
  ASSUME IInv, SizedInv, LayoutInv, LengthFits, IInv',
         NEW a \in FileName, NEW length \in Nat \ {0}, create_file(a, length)
  PROVE  LayoutInv' /\ phase' # "aborted"
  <1> DEFINE place == new_file_offset(length, o_list, file)
             packed == repack_helper(o_list, file, dir, data, used)
             base == IF place.repack THEN packed
                     ELSE [file |-> file, dir |-> dir, data |-> data, hash_offset |-> -1]
  <1>1. PICK i, offset, f :
          /\ i = new_file_index
          /\ offset = IF place.repack THEN used ELSE place.offset
          /\ f = [name |-> update_file_name(a), offset |-> offset, length |-> uint32(length)]
    OBVIOUS
  <1> DEFINE files == [base.file EXCEPT ![i] = f]
  <1>2. i \in Index /\ index[i] = 0 /\ phase = "open" /\ create_code(a, length) = 0
    BY <1>1, NewIndexFree DEF create_file, create_code
  <1>3. length \in 0 .. FileDataLen /\ uint32(length) = length /\ ~ (length >= MAX_FILE_DATA_LEN)
    <2>1. length \in 0 .. FileDataLen
      BY <1>2, CodesBound
    <2> QED BY <2>1, Uint32Fits, LengthAssumption DEF LengthFits
  <1>4. \/ Fault
        \/ /\ file' = files /\ o_list' = insert_by_offset(i, files, o_list)
           /\ index' = [index EXCEPT ![i] = 1] /\ phase' = phase
    BY <1>1, <1>3 DEF create_file
  <1>5. CASE Fault
    BY <1>5, LostLayout DEF Fault, disk
  <1>6. CASE ~ Fault
    <2>1. /\ Held(o_list) = Live /\ Arranged(o_list, file) /\ IsTable(file) /\ IsTable(dir)
          /\ used \in Nat /\ used = SumFunctionOnSet(LengthsOf(file), Held(o_list))
          /\ used > 0 \/ o_list.size = 0
      BY <1>2, HeldFiles, HeldBytes DEF IInv, TablesInv
    <2>2. used + length <= FileDataLen
      <3>1. ~ (used + length > FileDataLen)
        BY <1>2 DEF create_code
      <3> QED BY <3>1, <2>1, LengthAssumption
    <2>3. PICK bf : bf = base.file
      OBVIOUS
    <2>4. /\ DOMAIN bf = Index /\ Arranged(o_list, bf)
          /\ Free(offset, length, Held(o_list), bf)
      <3>1. CASE place.repack
        <4>1. bf = packed.file /\ offset = used
          BY <3>1, <2>3, <1>1
        <4>2. /\ Arranged(o_list, bf)
              /\ \A g \in Held(o_list) : bf[g].offset + bf[g].length <= used
          BY <4>1, <2>1, RepackArranged
        <4>3. DOMAIN bf = Index
          BY <4>1, <2>1, RepackKeeps DEF IsTable
        <4> QED BY <4>1, <4>2, <4>3, <2>1, <2>2 DEF Free
      <3>2. CASE ~ place.repack
        <4>1. bf = file /\ offset = place.offset
          BY <3>2, <2>3, <1>1
        <4>2. length \in 1 .. FileDataLen
          BY <1>3
        <4>3. Free(place.offset, length, Held(o_list), file)
          <5>1. PICK p : p = new_file_offset(length, o_list, file)
            OBVIOUS
          <5>2. ~ p.repack /\ place.offset = p.offset
            BY <3>2, <5>1
          <5> HIDE DEF place
          <5> QED BY <5>1, <5>2, <4>2, <2>1, FoundFree
        <4> QED BY <4>1, <4>3, <2>1 DEF IsTable
      <3> QED BY <3>1, <3>2
    <2>5. PICK new : new = files
      OBVIOUS
    <2>6. /\ new[i].offset = offset /\ new[i].length = length
          /\ \A g \in Index : g # i => new[g] = bf[g]
      BY <1>1, <1>2, <1>3, <2>3, <2>4, <2>5
    <2>7. file' = new /\ o_list' = insert_by_offset(i, new, o_list)
      BY <1>4, <1>6, <2>5
    <2> HIDE DEF files, base, place, packed
    <2>8. o_list.pos[i] = -1 /\ i \notin Held(o_list) /\ Held(o_list) \subseteq Index
      BY <1>2 DEF IInv, ArraysInv, Held
    <2>9. \A g \in Held(o_list) : new[g] = bf[g]
      BY <2>6, <2>8
    <2>10. Arranged(o_list, new)
      BY <2>4, <2>9, SameArranged
    <2>11. Free(new[i].offset, new[i].length, Held(o_list), new)
      BY <2>4, <2>6, <2>9 DEF Free
    <2>12. new[i].length \in Nat \ {0}
      BY <2>6
    <2>13. Arranged(o_list', new) /\ Held(o_list') = Held(o_list) \cup {i}
      BY <1>2, <2>7, <2>8, <2>10, <2>11, <2>12, EnterArranged
    <2>14. Live' \subseteq Held(o_list')
      BY <1>2, <1>4, <1>6, <2>1, <2>13 DEF Live, IInv, ControlInv
    <2>15. LayoutWhenOpen'
      BY <1>2, <1>4, <1>6, <2>7, <2>13, <2>14 DEF LayoutWhenOpen
    <2> QED BY <1>2, <1>4, <1>6, <2>15, OpenLayoutNext
  <1> QED BY <1>5, <1>6

(* A file that shrinks, or grows up to the file after it, stays in place. *)
LEMMA StaysArranged ==
  ASSUME NEW o, NEW files, Arranged(o, files), NEW f \in Held(o),
         NEW limit, limit = IF o.pos[f] + 1 < o.size THEN OffsetAt(o.pos[f] + 1, o, files)
                            ELSE FileDataLen,
         NEW length \in Nat \ {0},
         \/ length <= files[f].length
         \/ Room(files[f].offset, limit, length),
         NEW others, others[f].offset = files[f].offset, others[f].length = length,
         \A g \in Held(o) : g # f => others[g] = files[g]
  PROVE  Arranged(o, others)
  <1>1. /\ o.size \in Nat /\ FileDataLen \in Nat
        /\ \A k \in 0 .. o.size - 1 :
              /\ OffsetAt(k, o, files) \in Nat /\ LengthAt(k, o, files) \in Nat \ {0}
              /\ EndAt(k, o, files) = OffsetAt(k, o, files) + LengthAt(k, o, files)
              /\ EndAt(k, o, files) <= FileDataLen
              /\ o.list[k] \in Held(o) /\ o.pos[o.list[k]] = k
        /\ \A j, k \in 0 .. o.size - 1 :
              j < k => EndAt(j, o, files) <= OffsetAt(k, o, files)
        /\ \A g \in Held(o) : o.pos[g] \in 0 .. o.size - 1 /\ o.list[o.pos[g]] = g
    BY ArrangedPositions, LengthAssumption
  <1>2. PICK p : p = o.pos[f]
    OBVIOUS
  <1>3. /\ p \in 0 .. o.size - 1 /\ o.list[p] = f
        /\ files[f].offset = OffsetAt(p, o, files) /\ files[f].length = LengthAt(p, o, files)
    BY <1>1, <1>2 DEF OffsetAt, LengthAt
  <1>4. /\ limit \in Nat /\ limit <= FileDataLen /\ EndAt(p, o, files) <= limit
        /\ \A k \in 0 .. o.size - 1 : k > p => limit <= OffsetAt(k, o, files)
    <2>1. CASE p + 1 < o.size
      <3>1. p + 1 \in 0 .. o.size - 1 /\ p < p + 1 /\ limit = OffsetAt(p + 1, o, files)
        BY <2>1, <1>1, <1>2, <1>3
      <3>2. limit \in Nat /\ limit <= FileDataLen /\ EndAt(p, o, files) <= limit
        BY <3>1, <1>1, <1>3
      <3>3. ASSUME NEW k \in 0 .. o.size - 1, k > p PROVE limit <= OffsetAt(k, o, files)
        <4>1. k = p + 1 \/ EndAt(p + 1, o, files) <= OffsetAt(k, o, files)
          BY <3>1, <3>3, <1>1, <1>3
        <4> QED BY <4>1, <3>1, <1>1
      <3> QED BY <3>2, <3>3
    <2>2. CASE ~ (p + 1 < o.size)
      <3>1. limit = FileDataLen
        BY <2>2, <1>2
      <3>2. ~ \E k \in 0 .. o.size - 1 : k > p
        BY <2>2, <1>1, <1>3
      <3> QED BY <3>1, <3>2, <1>1, <1>3
    <2> QED BY <2>1, <2>2
  <1>5. files[f].offset \in Nat /\ files[f].offset + length <= limit
    <2>1. files[f].offset \in Nat /\ files[f].length \in Nat /\ files[f].offset <= limit
          /\ files[f].offset + files[f].length <= limit
      BY <1>1, <1>3, <1>4
    <2> QED BY <2>1, <1>4 DEF Room
  <1>6. Fits(others[f])
    BY <1>1, <1>4, <1>5 DEF Fits
  <1>7. ASSUME NEW g \in Held(o), g # f PROVE Apart(others[f], files[g])
    <2>1. o.pos[g] \in 0 .. o.size - 1 /\ o.list[o.pos[g]] = g /\ o.pos[g] # p
      BY <1>1, <1>3, <1>7
    <2>2. files[g].offset = OffsetAt(o.pos[g], o, files) /\ files[g].length = LengthAt(o.pos[g], o, files)
      BY <2>1 DEF OffsetAt, LengthAt
    <2>3. CASE o.pos[g] < p
      <3>1. EndAt(o.pos[g], o, files) <= OffsetAt(p, o, files)
        BY <2>1, <2>3, <1>1, <1>3
      <3> QED BY <3>1, <2>1, <2>2, <1>1, <1>3 DEF Apart
    <2>4. CASE o.pos[g] > p
      <3>1. limit <= OffsetAt(o.pos[g], o, files)
        BY <2>1, <2>4, <1>4
      <3> QED BY <3>1, <2>1, <2>2, <1>1, <1>4, <1>5 DEF Apart
    <2> QED BY <2>1, <2>3, <2>4, <1>3
  <1>8. LaidOut(Held(o), files)
    BY DEF Arranged
  <1>9. LaidOut(Held(o), others)
    <2>1. \A g \in Held(o) : Fits(others[g])
      BY <1>6, <1>8 DEF LaidOut
    <2>2. \A g, h \in Held(o) : g # h => Apart(others[g], others[h])
      <3> SUFFICES ASSUME NEW g \in Held(o), NEW h \in Held(o), g # h
                   PROVE  Apart(others[g], others[h])
        OBVIOUS
      <3>1. CASE g # f /\ h # f
        BY <3>1, <1>8 DEF LaidOut
      <3>2. CASE g = f
        BY <3>2, <1>7
      <3>3. CASE h = f
        BY <3>3, <1>7 DEF Apart
      <3> QED BY <3>1, <3>2, <3>3
    <2> QED BY <2>1, <2>2 DEF LaidOut
  <1>10. Ascending(o, OffsetsOf(others))
    <2>1. \A k \in 0 .. o.size - 1 : OffsetsOf(others)[o.list[k]] = OffsetsOf(files)[o.list[k]]
      BY <1>1 DEF OffsetsOf, Held
    <2> QED BY <2>1 DEF Arranged, Ascending
  <1> QED BY <1>9, <1>10 DEF Arranged

(* resize_file_helper gives the file its length and keeps the files apart;
   its assertion holds. *)
LEMMA ResizeArranged ==
  ASSUME IInv, SizedInv, LayoutInv, phase = "open", NEW i \in Live,
         NEW length \in Nat \ {0}, uint32(length) = length, NEW copy,
         used + length - file[i].length <= FileDataLen
  PROVE  LET r == resize_file_helper(i, length, copy)
         IN  /\ ~ detach_fails(i, length)
             /\ Arranged(r.o_list, r.file) /\ Held(r.o_list) = Live
  <1>1. /\ Held(o_list) = Live /\ Arranged(o_list, file) /\ i \in Held(o_list)
        /\ Live \subseteq Index /\ IsTable(file) /\ IsTable(dir) /\ IsFile(file[i])
        /\ used \in Nat /\ file[i].length \in 1 .. used
        /\ used - file[i].length = SumFunctionOnSet(LengthsOf(file), Live \ {i})
    BY HeldFiles, HeldBytes DEF IInv, TablesInv, Live, IsTable
  <1>2. /\ o_list.pos[i] \in 0 .. o_list.size - 1 /\ o_list.list[o_list.pos[i]] = i
        /\ o_list.size \in Nat
    BY <1>1, ArrangedPositions
  <1>3. /\ ~ detach_fails(i, length)
        /\ file[i].offset \in Nat /\ ~ fresh(i)
    <2>1. Fits(file[i])
      BY <1>1 DEF Arranged, LaidOut
    <2> QED BY <2>1, <1>1, <1>2, LengthAssumption DEF detach_fails, fresh, Fits
  <1>4. detached(i, length) <=> length > file[i].length /\ repack_required(i, length)
    BY <1>3 DEF detached
  <1> DEFINE others == arr_remove(o_list.pos[i], o_list)
             moves == detached(i, length)
             packs == moves /\ repack_required(i, length)
             packed == repack_helper(others, file, dir, data, used)
             kept == [file |-> file, dir |-> dir, data |-> data, hash_offset |-> -1]
             base == IF packs THEN packed ELSE kept
             offset == IF packs THEN used - file[i].length
                       ELSE IF moves THEN 0 ELSE file[i].offset
             files == [base.file EXCEPT ![i] = update_offset(@, offset)]
             final == [files EXCEPT ![i] = update_length(@, uint32(length))]
             r == resize_file_helper(i, length, copy)
  <1>5. /\ r.file = final
        /\ r.o_list = IF moves THEN insert_by_offset(i, files, others) ELSE o_list
    BY DEF resize_file_helper
  <1> HIDE DEF r
  <1>6. CASE ~ detached(i, length)
    <2>1. /\ files = [file EXCEPT ![i] = update_offset(@, file[i].offset)]
          /\ r.o_list = o_list
      BY <1>5, <1>6
    <2> HIDE DEF files, base
    <2>2. /\ r.file[i].offset = file[i].offset /\ r.file[i].length = length
          /\ \A g \in Held(o_list) : g # i => r.file[g] = file[g]
      BY <1>1, <1>5, <2>1 DEF IsTable, update_offset, update_length
    <2>3. PICK limit : limit = IF o_list.pos[i] + 1 < o_list.size
                               THEN OffsetAt(o_list.pos[i] + 1, o_list, file)
                               ELSE FileDataLen
      OBVIOUS
    <2>4. length <= file[i].length \/ Room(file[i].offset, limit, length)
      <3>1. CASE ~ (length > file[i].length)
        BY <3>1, <1>1
      <3>2. CASE ~ repack_required(i, length)
        <4>1. PICK p, next : /\ p = o_list.pos[i] + 1
                             /\ next = find_next_nonzero_file(p, o_list, file)
          OBVIOUS
        <4>2. p \in Nat /\ p # NoPosition
          BY <4>1, <1>2 DEF NoPosition
        <4>3. next = IF p < o_list.size THEN p ELSE NoPosition
          BY <4>1, <4>2, <1>1, NextWithData
        <4>4. Room(file[i].offset, IF next = NoPosition THEN FileDataLen
                                   ELSE OffsetAt(next, o_list, file), length)
          BY <4>1, <3>2, <1>3 DEF repack_required
        <4>5. limit = IF next = NoPosition THEN FileDataLen ELSE OffsetAt(next, o_list, file)
          BY <2>3, <4>1, <4>2, <4>3
        <4> QED BY <4>4, <4>5
      <3> QED BY <3>1, <3>2, <1>4, <1>6
    <2>5. PICK rf : rf = r.file
      OBVIOUS
    <2>6. Arranged(o_list, rf)
      BY <1>1, <2>2, <2>3, <2>4, <2>5, StaysArranged
    <2> QED BY <1>1, <1>3, <2>1, <2>5, <2>6 DEF r
  <1>7. CASE detached(i, length)
    <2>1. /\ moves /\ packs /\ base = packed /\ offset = used - file[i].length
          /\ r.o_list = insert_by_offset(i, files, others)
      BY <1>4, <1>5, <1>7
    <2>2. PICK o, bf, old, rf :
            o = others /\ bf = packed.file /\ old = files /\ rf = r.file
      OBVIOUS
    <2>3. /\ old = [bf EXCEPT ![i] = update_offset(@, used - file[i].length)]
          /\ rf = [old EXCEPT ![i] = update_length(@, length)]
          /\ r.o_list = insert_by_offset(i, old, o)
          /\ bf = repack_helper(o, file, dir, data, used).file
          /\ o = arr_remove(o_list.pos[i], o_list)
      BY <1>5, <2>1, <2>2
    <2> HIDE DEF others, packed, base, files, final, offset, moves, packs
    <2>4. Arranged(o, file) /\ Held(o) = Live \ {i}
      BY <1>1, <2>3, RemoveArranged
    <2>5. used > 0 \/ o.size = 0
      BY <1>1
    <2>6. PICK total \in Nat : total = used - file[i].length
      BY <1>1
    <2>7. total = SumFunctionOnSet(LengthsOf(file), Held(o))
      BY <1>1, <2>4, <2>6
    <2>8. /\ Arranged(o, bf)
          /\ \A g \in Held(o) : bf[g].offset + bf[g].length <= total
          /\ bf[i] = file[i]
      <3>1. i \in Index \ Held(o)
        BY <1>1, <2>4
      <3>2. /\ Arranged(o, bf)
            /\ \A g \in Held(o) : bf[g].offset + bf[g].length <= total
            /\ \A g \in Index \ Held(o) : bf[g] = file[g]
        <4>1. bf = repack_helper(o, file, dir, data, used).file
          BY <2>3
        <4>2. IsTable(file) /\ used \in Nat /\ Arranged(o, file)
          BY <1>1, <2>4
        <4> QED BY <4>1, <4>2, <2>5, <2>7, RepackArranged
      <3> QED BY <3>1, <3>2
    <2>9. DOMAIN bf = Index
      BY <1>1, <2>3, RepackKeeps DEF IsTable
    <2>10. /\ old[i].offset = total /\ rf[i].offset = total /\ rf[i].length = length
           /\ old[i].length = file[i].length
           /\ \A g \in Index : g # i => old[g] = bf[g] /\ rf[g] = bf[g]
      BY <1>1, <2>3, <2>6, <2>8, <2>9 DEF update_offset, update_length
    <2>11. \A g \in Held(o) : g # i /\ g \in Index
      BY <2>4, <1>1
    <2>12. Arranged(o, old)
      BY <2>8, <2>10, <2>11, SameArranged
    <2>13. Free(rf[i].offset, rf[i].length, Held(o), rf)
      <3>1. total + length <= FileDataLen
        BY <2>6, <1>1, LengthAssumption
      <3> QED BY <3>1, <2>8, <2>10, <2>11 DEF Free
    <2>14. /\ i \in Index /\ o.pos[i] = -1 /\ old[i].length # 0
           /\ old[i].offset = rf[i].offset /\ rf[i].length \in Nat \ {0}
           /\ \A g \in Held(o) : /\ rf[g].offset = old[g].offset
                                 /\ rf[g].length = old[g].length
      <3>1. i \in Index /\ i \notin Held(o)
        BY <1>1, <2>4
      <3> QED BY <3>1, <1>1, <2>10, <2>11 DEF Held
    <2>15. /\ Arranged(r.o_list, rf) /\ Held(r.o_list) = Held(o) \cup {i}
      <3>1. PICK new : new = insert_by_offset(i, old, o)
        OBVIOUS
      <3>2. Arranged(new, rf) /\ Held(new) = Held(o) \cup {i}
        BY <3>1, <2>12, <2>13, <2>14, EnterArranged
      <3>3. r.o_list = new
        BY <3>1, <2>3
      <3> QED BY <3>2, <3>3
    <2>16. Held(r.o_list) = Live
      BY <2>4, <2>15
    <2> QED BY <1>3, <2>2, <2>15, <2>16 DEF r
  <1> QED BY <1>6, <1>7

LEMMA ResizeLayout ==
  ASSUME IInv, SizedInv, LayoutInv, LengthFits, IInv',
         NEW a \in FileName, NEW length \in Nat \ {0}, resize_file(a, length)
  PROVE  LayoutInv' /\ phase' # "aborted"
  <1>1. PICK i : i = lookup(a)
    OBVIOUS
  <1> DEFINE r == resize_file_helper(i, length, file[i].length)
  <1>2. /\ i \in Index /\ index[i] = 1 /\ phase = "open" /\ i \in Live
        /\ resize_code(a, length) = 0
    BY <1>1, LookupLive DEF resize_file, resize_code, Live
  <1>3. length \in 0 .. FileDataLen /\ uint32(length) = length
    BY <1>2, CodesBound, Uint32Fits
  <1>4. /\ used \in Nat /\ file[i].length \in 1 .. used
        /\ used + length - file[i].length <= FileDataLen
    <2>1. used \in Nat /\ file[i].length \in 1 .. used
      BY <1>2, HeldBytes
    <2>2. ~ (used + length - file[i].length > FileDataLen)
      BY <1>1, <1>2, IndexFinite DEF resize_code, Index, None
    <2> QED BY <2>1, <2>2, LengthAssumption
  <1>5. ~ (length - file[i].length >= MAX_FILE_DATA_LEN)
    BY <1>3, <1>4, LengthAssumption DEF LengthFits
  <1>6. /\ ~ detach_fails(i, length) /\ Arranged(r.o_list, r.file)
        /\ Held(r.o_list) = Live
    BY <1>2, <1>3, <1>4, ResizeArranged
  <1>7. \/ Fault
        \/ /\ file' = r.file /\ o_list' = r.o_list /\ index' = index /\ phase' = phase
    BY <1>1, <1>5, <1>6 DEF resize_file
  <1> HIDE DEF r
  <1>8. CASE Fault
    BY <1>8, LostLayout DEF Fault, disk
  <1>9. CASE ~ Fault
    <2>1. Arranged(o_list', file') /\ Held(o_list') = Live /\ Live' = Live /\ phase' = "open"
      BY <1>2, <1>6, <1>7, <1>9 DEF Live
    <2>2. LayoutWhenOpen'
      BY <2>1 DEF LayoutWhenOpen
    <2> QED BY <2>1, <2>2, OpenLayoutNext
  <1> QED BY <1>8, <1>9

LEMMA WriteLayout ==
  ASSUME IInv, SizedInv, LayoutInv, LengthFits, IInv',
         NEW a \in FileName, NEW offset \in Nat, NEW buf \in Buffers,
         write_file(a, offset, buf)
  PROVE  LayoutInv' /\ phase' # "aborted"
  <1>1. PICK i, end : i = lookup(a) /\ end = offset + Len(buf)
    OBVIOUS
  <1> DEFINE grows == end > file[i].length
             grown == resize_file_helper(i, end, offset)
             r == IF grows THEN grown
                  ELSE [file |-> file, dir |-> dir, data |-> data, o_list |-> o_list,
                        hash_offset |-> -1]
  <1>2. /\ i \in Index /\ index[i] = 1 /\ phase = "open" /\ i \in Live
        /\ write_code(a, offset, Len(buf)) = 0 /\ Len(buf) > 0 /\ Len(buf) \in Nat
    BY <1>1, LookupLive, VfsAssumption DEF write_file, write_code, Live
  <1>3. /\ end \in 0 .. FileDataLen /\ uint32(end) = end /\ end \in Nat \ {0}
    <2>1. end \in 0 .. FileDataLen
      BY <1>1, <1>2, CodesBound
    <2> QED BY <1>1, <1>2, <2>1, Uint32Fits
  <1>4. /\ used \in Nat /\ file[i].length \in 1 .. used
        /\ used + end - file[i].length <= FileDataLen
    <2>1. used \in Nat /\ file[i].length \in 1 .. used
      BY <1>2, HeldBytes
    <2>2. ~ (used + offset + Len(buf) - file[i].length > FileDataLen)
      BY <1>1, <1>2, IndexFinite DEF write_code, Index, None
    <2>3. used + offset + Len(buf) - file[i].length = used + end - file[i].length
      BY <1>1, <1>2, <2>1
    <2>4. used + end - file[i].length \in Int /\ FileDataLen \in Int
      BY <1>3, <2>1, LengthAssumption
    <2> QED BY <2>1, <2>2, <2>3, <2>4
  <1>5. /\ ~ detach_fails(i, end) /\ Arranged(grown.o_list, grown.file)
        /\ Held(grown.o_list) = Live
    BY <1>2, <1>3, <1>4, ResizeArranged
  <1>6. \/ Fault
        \/ /\ file' = r.file /\ o_list' = r.o_list /\ index' = index /\ phase' = phase
    BY <1>1, <1>5 DEF write_file
  <1>7. Arranged(r.o_list, r.file) /\ Held(r.o_list) = Live
    <2>1. CASE grows
      BY <2>1, <1>5
    <2>2. CASE ~ grows
      <3>1. r.o_list = o_list /\ r.file = file
        BY <2>2
      <3> HIDE DEF r
      <3> QED BY <3>1, HeldFiles
    <2> QED BY <2>1, <2>2
  <1> HIDE DEF r
  <1>8. CASE Fault
    BY <1>8, LostLayout DEF Fault, disk
  <1>9. CASE ~ Fault
    <2>1. Arranged(o_list', file') /\ Held(o_list') = Live /\ Live' = Live /\ phase' = "open"
      BY <1>2, <1>6, <1>7, <1>9 DEF Live
    <2>2. LayoutWhenOpen'
      BY <2>1 DEF LayoutWhenOpen
    <2> QED BY <2>1, <2>2, OpenLayoutNext
  <1> QED BY <1>8, <1>9

(* Every file in use is in the name array. *)
NamesHeld == \A i \in Index : index[i] = 1 => n_list.pos[i] # -1

(* The back pointers of the file hold, so arr_remove's assertion does too;
   for the name array that is NamesHeld. *)
LEMMA DeleteLayout ==
  ASSUME IInv, LayoutInv, IInv', NEW a \in FileName, delete_file(a)
  PROVE  LayoutInv' /\ (NamesHeld => phase' # "aborted")
  <1>1. PICK i : i = lookup(a)
    OBVIOUS
  <1>2. i \in Index /\ index[i] = 1 /\ phase = "open" /\ i \in Live
    BY <1>1, LookupLive DEF delete_file, delete_code, Live
  <1>3. Held(o_list) = Live /\ Arranged(o_list, file)
    BY HeldFiles
  <1>4. CASE o_list.pos[i] < 0 \/ n_list.pos[i] < 0
    <2>1. Abort(dir, data)
      BY <1>1, <1>4 DEF delete_file
    <2>2. ~ (o_list.pos[i] < 0)
      <3>1. o_list.pos[i] \in 0 .. o_list.size - 1 /\ o_list.size \in Nat
        BY <1>2, <1>3, ArrangedPositions
      <3> QED BY <3>1
    <2>3. ~ NamesHeld
      <3> SUFFICES ASSUME NamesHeld PROVE FALSE
        OBVIOUS
      <3>1. n_list.pos[i] # -1
        BY <1>2 DEF NamesHeld
      <3>2. n_list.pos[i] \in 0 .. n_list.size - 1 /\ n_list.size \in Nat
        BY <1>2, <3>1 DEF IInv, ArraysInv, Placed, IsArray, PointsBack
      <3> QED BY <3>2, <2>2, <1>4
    <2> QED BY <2>1, <2>3, LostLayout DEF Abort
  <1>5. CASE ~ (o_list.pos[i] < 0 \/ n_list.pos[i] < 0)
    <2>1. /\ file' = [file EXCEPT ![i] = NoFile] /\ index' = [index EXCEPT ![i] = 0]
          /\ o_list' = arr_remove(o_list.pos[i], o_list) /\ phase' = "open"
      BY <1>1, <1>2, <1>5 DEF delete_file
    <2>2. PICK new, files : new = o_list' /\ files = file'
      OBVIOUS
    <2>3. Arranged(new, file) /\ Held(new) = Live \ {i}
      BY <1>2, <1>3, <2>1, <2>2, RemoveArranged
    <2>4. \A g \in Held(new) : files[g] = file[g]
      BY <1>2, <2>1, <2>2, <2>3 DEF IInv, TablesInv, IsTable, Live
    <2>5. Arranged(new, files)
      BY <2>3, <2>4, SameArranged
    <2>6. Live' \subseteq Held(new)
      BY <1>2, <2>1, <2>3 DEF Live, IInv, ControlInv
    <2>7. LayoutWhenOpen'
      BY <2>1, <2>2, <2>5, <2>6 DEF LayoutWhenOpen
    <2> QED BY <2>1, <2>7, OpenLayoutNext
  <1> QED BY <1>4, <1>5

LEMMA RenameLayout ==
  ASSUME IInv, LayoutInv, IInv', NEW a \in FileName, NEW b \in FileName, rename_file(a, b)
  PROVE  LayoutInv' /\ phase' # "aborted"
  <1>1. PICK i : i = lookup(a)
    OBVIOUS
  <1>2. /\ phase' = "open" /\ o_list' = o_list /\ index' = index
        /\ file' = [file EXCEPT ![i] = update_name(@, update_file_name(b))]
    BY <1>1 DEF rename_file
  <1>3. Held(o_list) = Live /\ Arranged(o_list, file) /\ Live \subseteq Index
    BY HeldFiles DEF Live
  <1>4. PICK files : files = file'
    OBVIOUS
  <1>5. \A g \in Index : files[g].offset = file[g].offset /\ files[g].length = file[g].length
    BY <1>2, <1>4 DEF update_name, IInv, TablesInv, IsTable
  <1>6. Arranged(o_list, files)
    BY <1>3, <1>5, SameArranged
  <1>7. LayoutWhenOpen'
    BY <1>2, <1>3, <1>4, <1>6 DEF LayoutWhenOpen, Live
  <1> QED BY <1>2, <1>7, OpenLayoutNext

LEMMA RepackLayout ==
  ASSUME IInv, SizedInv, LayoutInv, IInv', repack
  PROVE  LayoutInv' /\ phase' # "aborted"
  <1>1. /\ phase = "open" /\ phase' = "open" /\ o_list' = o_list /\ index' = index
        /\ file' = repack_helper(o_list, file, dir, data, used).file
    BY DEF repack
  <1>2. /\ Held(o_list) = Live /\ Arranged(o_list, file) /\ IsTable(file)
        /\ used \in Nat /\ used = SumFunctionOnSet(LengthsOf(file), Held(o_list))
        /\ used > 0 \/ o_list.size = 0
    BY <1>1, HeldFiles, HeldBytes DEF IInv, TablesInv
  <1>3. PICK files : files = repack_helper(o_list, file, dir, data, used).file
    OBVIOUS
  <1>4. Arranged(o_list, files)
    BY <1>2, <1>3, RepackArranged
  <1>5. LayoutWhenOpen'
    BY <1>1, <1>2, <1>3, <1>4 DEF LayoutWhenOpen, Live
  <1> QED BY <1>1, <1>5, OpenLayoutNext

(* Nothing that LayoutInv speaks of changes. *)
LEMMA SameLayout ==
  ASSUME LayoutInv, UNCHANGED <<dir, file, o_list, index>>
  PROVE  LayoutInv'
  BY DEF LayoutInv, LaidOut, Listed, Live, Ascending

LEMMA EntryLayout ==
  ASSUME IInv, LayoutInv, IInv', init_fs_entry
  PROVE  LayoutInv' /\ phase' # "aborted"
  <1>1. PICK i, entry : i = scan /\ entry = dir[i]
    OBVIOUS
  <1> DEFINE files == [file EXCEPT ![i] =
                         update_offset(entry, IF entry.length = 0 THEN MAX_FILE_DATA_LEN
                                              ELSE entry.offset)]
  <1>2. /\ phase = "init" /\ phase' = "init" /\ i \in Index /\ dir' = dir
        /\ IsTable(file) /\ IsTable(dir)
    BY <1>1, IndexFinite DEF init_fs_entry, disk, IInv, ControlInv, TablesInv, Index
  <1>3. CASE entry.name = 0
    <2>1. UNCHANGED <<dir, file, o_list, index>>
      BY <1>1, <1>2, <1>3 DEF init_fs_entry
    <2> QED BY <1>2, <2>1, SameLayout
  <1>4. CASE entry.name # 0
    <2>1. /\ file' = files /\ o_list' = insert_by_offset(i, files, o_list)
          /\ index' = [index EXCEPT ![i] = 1]
      BY <1>1, <1>4 DEF init_fs_entry
    <2>2. PICK new : new = files
      OBVIOUS
    <2>3. i \in Listed /\ index[i] = 0 /\ o_list.pos[i] = -1
      <3>1. index[i] # 1
        BY <1>1, <1>2, IndexFinite DEF IInv, EntriesInv, Scanned, ControlInv
      <3> QED BY <3>1, <1>1, <1>2, <1>4 DEF Listed, IInv, ControlInv, ArraysInv
    <2>4. Fits(entry)
      BY <1>1, <2>3 DEF LayoutInv, LaidOut
    <2>5. /\ new[i].offset = entry.offset /\ new[i].length = entry.length
          /\ \A g \in Index : g # i => new[g] = file[g]
      BY <1>2, <2>2, <2>4 DEF IsTable, update_offset, Fits
    <2>6. file' = new /\ o_list' = insert_by_offset(i, new, o_list)
      BY <2>1, <2>2
    <2> HIDE DEF files
    <2>7. /\ Held(o_list) = Live /\ Arranged(o_list, file)
          /\ Live \subseteq Listed /\ Listed \subseteq Index
          /\ \A g \in Live : /\ file[g].offset = dir[g].offset
                             /\ file[g].length = dir[g].length
      BY HeldFiles
    <2>8. \A g \in Held(o_list) : g # i /\ g \in Index /\ new[g] = file[g]
      BY <2>3, <2>5, <2>7 DEF Live
    <2>9. Arranged(o_list, new)
      BY <2>7, <2>8, SameArranged
    <2>10. Free(new[i].offset, new[i].length, Held(o_list), new)
      <3>1. \A g \in Held(o_list) : Apart(dir[g], dir[i])
        BY <2>3, <2>7, <2>8 DEF LayoutInv, LaidOut
      <3>2. \A g \in Held(o_list) : \/ new[g].offset + new[g].length <= new[i].offset
                                    \/ new[i].offset + new[i].length <= new[g].offset
        BY <3>1, <1>1, <2>5, <2>7, <2>8 DEF Apart
      <3> QED BY <3>2, <2>4, <2>5 DEF Free, Fits
    <2>11. new[i].length \in Nat \ {0}
      BY <2>4, <2>5 DEF Fits
    <2>12. Arranged(o_list', new) /\ Held(o_list') = Held(o_list) \cup {i}
      <3>1. PICK o : o = insert_by_offset(i, new, o_list)
        OBVIOUS
      <3>2. Arranged(o, new) /\ Held(o) = Held(o_list) \cup {i}
        BY <3>1, <1>2, <2>3, <2>9, <2>10, <2>11, EnterArranged
      <3> QED BY <3>1, <3>2, <2>6
    <2>13. \A g \in Live' : g = i \/ g \in Live
      BY <1>2, <2>1 DEF Live, IInv, ControlInv
    <2>14. \A g \in Live' : file'[g].offset = dir'[g].offset /\ o_list'.pos[g] # -1
      <3> SUFFICES ASSUME NEW g \in Live'
                   PROVE  file'[g].offset = dir'[g].offset /\ o_list'.pos[g] # -1
        OBVIOUS
      <3>1. g \in Held(o_list')
        BY <2>7, <2>12, <2>13
      <3>2. file'[g].offset = dir[g].offset
        BY <1>1, <2>5, <2>6, <2>7, <2>8, <2>13
      <3> QED BY <3>1, <3>2, <1>2 DEF Held
    <2>15. LaidOut(Listed, dir)'
      BY <1>2 DEF LayoutInv, LaidOut, Listed
    <2>16. Ascending(o_list', OffsetsOf(file'))
      BY <2>6, <2>12 DEF Arranged
    <2> QED BY <1>2, <2>14, <2>15, <2>16 DEF LayoutInv
  <1> QED BY <1>3, <1>4

LEMMA InitLayout == Init => LayoutInv
  <1> SUFFICES ASSUME Init PROVE LayoutInv
    OBVIOUS
  <1>1. Listed = {} /\ Live = {}
    BY DEF Init, Listed, Live, NoFile
  <1>2. Ascending(o_list, OffsetsOf(file))
    BY DEF Init, arr_init, Ascending
  <1> QED BY <1>1, <1>2 DEF LayoutInv, LaidOut

LEMMA StepLayout ==
  ASSUME IInv, SizedInv, LayoutInv, LengthFits, NoEmptyFiles, [Next]_vars
  PROVE  LayoutInv' /\ (NamesHeld /\ phase # "aborted" => phase' # "aborted")
  <1>1. IInv'
    BY NextStep
  <1>2. CASE init_fs_begin \/ init_fs_return
    BY <1>2, SameLayout DEF init_fs_begin, init_fs_return, disk, mem
  <1>3. CASE init_fs_entry
    BY <1>1, <1>3, EntryLayout
  <1>4. CASE close_fs
    BY <1>4, LostLayout DEF close_fs, disk
  <1>5. CASE \E a \in FileName, length \in CreateLengths : create_file(a, length)
    <2>1. PICK a \in FileName, length \in CreateLengths : create_file(a, length)
      BY <1>5
    <2>2. length \in Nat \ {0}
      BY VfsAssumption DEF NoEmptyFiles
    <2> QED BY <1>1, <2>1, <2>2, CreateLayout
  <1>6. CASE \E a \in FileName, length \in ResizeLengths : resize_file(a, length)
    <2>1. PICK a \in FileName, length \in ResizeLengths : resize_file(a, length)
      BY <1>6
    <2>2. length \in Nat \ {0}
      BY VfsAssumption DEF NoEmptyFiles
    <2> QED BY <1>1, <2>1, <2>2, ResizeLayout
  <1>7. CASE \E a \in FileName, offset \in WriteOffsets, buf \in Buffers :
               write_file(a, offset, buf)
    <2>1. PICK a \in FileName, offset \in WriteOffsets, buf \in Buffers :
               write_file(a, offset, buf)
      BY <1>7
    <2>2. offset \in Nat
      BY VfsAssumption
    <2> QED BY <1>1, <2>1, <2>2, WriteLayout
  <1>8. CASE \E a \in FileName : delete_file(a)
    BY <1>1, <1>8, DeleteLayout
  <1>9. CASE \E c \in Renames : rename_file(c[1], c[2])
    <2>1. PICK c \in Renames : rename_file(c[1], c[2])
      BY <1>9
    <2>2. c[1] \in FileName /\ c[2] \in FileName
      BY <2>1, VfsAssumption
    <2> QED BY <1>1, <2>1, <2>2, RenameLayout
  <1>10. CASE repack
    BY <1>1, <1>10, RepackLayout
  <1>11. CASE compute_hash_tree \/ (\E b \in Block : compute_hash_block(b)) \/ UNCHANGED vars
    BY <1>11, SameLayout DEF compute_hash_tree, compute_hash_block, vars, disk, mem
  <1> QED
    BY <1>2, <1>3, <1>4, <1>5, <1>6, <1>7, <1>8, <1>9, <1>10, <1>11 DEF Next

LEMMA LayoutInvariant ==
  ASSUME LengthFits, NoEmptyFiles
  PROVE  Spec => [](IInv /\ LayoutInv)
  <1>1. LengthFits /\ NoEmptyFiles
    OBVIOUS
  <1>2. Spec => [](IInv /\ SizedInv)
    BY SizesInvariant
  <1>3. IInv /\ SizedInv /\ LayoutInv /\ [Next]_vars => LayoutInv'
    BY <1>1, StepLayout
  <1> QED BY <1>2, <1>3, InitLayout, PTL DEF Spec

(* No byte of file_data belongs to two files, however often files are
   created, resized, written, deleted and repacked, and also after a restart:
   the search for a free range, growth in place and the repack place them. *)
THEOREM FilesAlwaysDisjoint ==
  ASSUME LengthFits, NoEmptyFiles
  PROVE  Spec => []Disjoint
  <1>1. LayoutInv => Disjoint
    BY DEF LayoutInv, LaidOut, Apart, Disjoint
  <1> QED BY <1>1, LayoutInvariant, PTL

(* The offset array is in ascending order, which new_file_offset,
   find_next_nonzero_file and the loop of repack_helper take for granted. *)
THEOREM OffsetsAlwaysSorted ==
  ASSUME LengthFits, NoEmptyFiles
  PROVE  Spec => []OffsetsSorted
  <1>1. ASSUME IInv, LayoutInv PROVE OffsetsSorted
    <2>1. Arranged(o_list, file)
      BY <1>1, HeldFiles
    <2> SUFFICES ASSUME NEW j \in 0 .. o_list.size - 1, NEW k \in 0 .. o_list.size - 1, j < k
                 PROVE  OffsetAt(j, o_list, file) <= OffsetAt(k, o_list, file)
      BY DEF OffsetsSorted
    <2>2. /\ OffsetAt(j, o_list, file) \in Nat /\ LengthAt(j, o_list, file) \in Nat \ {0}
          /\ OffsetAt(k, o_list, file) \in Nat
          /\ EndAt(j, o_list, file) = OffsetAt(j, o_list, file) + LengthAt(j, o_list, file)
          /\ EndAt(j, o_list, file) <= OffsetAt(k, o_list, file)
      BY <2>1, ArrangedPositions
    <2> QED BY <2>2
  <1> QED BY <1>1, LayoutInvariant, PTL
=============================================================================
