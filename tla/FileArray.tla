----------------------------- MODULE FileArray -----------------------------
(***************************************************************************)
(* The sorted pointer array of arr.c.  The filesystem keeps two of them    *)
(* over the same file_t structs, one sorted by offset (o_list) and one     *)
(* sorted by name (n_list).                                                *)
(*                                                                         *)
(* An array is a record: "size" and "list" are the fields of arr_t (list   *)
(* holds the positions below size only), and "pos" is the back pointer     *)
(* that every file_t keeps into the array: o_index for o_list, n_index for *)
(* n_list, -1 outside the array.  A file_t is identified by its dir_table  *)
(* index, which no two live files share.                                   *)
(***************************************************************************)
EXTENDS Integers

(* arr_init: an empty array; file_init sets every back pointer to -1. *)
arr_init(Index) ==
  [size |-> 0, list |-> [k \in {} |-> 0], pos |-> [f \in Index |-> -1]]

(* A well formed array of files from S: as many pointers as its size says. *)
IsArray(arr, S) ==
  /\ arr = [size |-> arr.size, list |-> arr.list, pos |-> arr.pos]
  /\ arr.size \in Nat
  /\ arr.list \in [0 .. arr.size - 1 -> S]
  /\ arr.pos \in [S -> Int]

(* list and pos are inverse to each other. *)
PointsBack(arr, S) ==
  /\ \A k \in 0 .. arr.size - 1 : arr.pos[arr.list[k]] = k
  /\ \A f \in S : arr.pos[f] # -1 =>
       arr.pos[f] \in 0 .. arr.size - 1 /\ arr.list[arr.pos[f]] = f

(***************************************************************************)
(* cmp_key.  The sign of the comparison of a key with the file b: by       *)
(* offset, where a zero size file never equals the key but sends the       *)
(* search down when it is newly created (offset maxLen) and up when it was *)
(* resized to 0 bytes; or by name (strncmp).                               *)
(***************************************************************************)
cmp_offset(key, b, maxLen) ==
  IF key # b.offset THEN (IF key < b.offset THEN -1 ELSE 1)
  ELSE IF b.length > 0 THEN 0
  ELSE IF b.offset >= maxLen THEN -1 ELSE 1

cmp_name(key, b) == key - b.name

(***************************************************************************)
(* arr_get_index.  cmp[m] is the comparison of the key with element m.     *)
arr_get_index(cmp, size, insert) ==
  LET Find[bounds \in (0 .. size) \X (-1 .. size - 1)] ==
        LET l == bounds[1]
            h == bounds[2]
            m == (l + h) \div 2
        IN  IF cmp[m] < 0
            THEN IF l >= m THEN (IF insert THEN m ELSE -1)
                           ELSE Find[<<l, m - 1>>]
            ELSE IF cmp[m] > 0
            THEN IF h <= m THEN (IF insert THEN m + 1 ELSE -1)
                           ELSE Find[<<m + 1, h>>]
            ELSE IF insert THEN -1 ELSE m
  IN  IF size = 0 THEN (IF insert THEN 0 ELSE -1) ELSE Find[<<0, size - 1>>]

\* Mutant: the shift leaves the back pointers alone.
MutInsertKeepsPos(index, f, arr) ==
  [size |-> arr.size + 1,
   list |-> [k \in 0 .. arr.size |->
              IF k < index THEN arr.list[k]
              ELSE IF k = index THEN f ELSE arr.list[k - 1]],
   pos  |-> [arr.pos EXCEPT ![f] = index]]

\* Mutant: the size is not incremented.
MutInsertKeepsSize(index, f, arr) ==
  [size |-> arr.size,
   list |-> [k \in 0 .. arr.size |->
              IF k < index THEN arr.list[k]
              ELSE IF k = index THEN f ELSE arr.list[k - 1]],
   pos  |-> [arr.pos EXCEPT ![f] = index]]

(* arr_insert, with arr_rshift: f enters at position "index", the elements
   from there on move up by one and so do their back pointers. *)
arr_insert(index, f, arr) ==
  LET shifted == {arr.list[k] : k \in index .. arr.size - 1}
  IN  [size |-> arr.size + 1,
       list |-> [k \in 0 .. arr.size |->
                  IF k < index THEN arr.list[k]
                  ELSE IF k = index THEN f ELSE arr.list[k - 1]],
       pos  |-> [g \in DOMAIN arr.pos |->
                  IF g = f THEN index
                  ELSE IF g \in shifted THEN arr.pos[g] + 1 ELSE arr.pos[g]]]

(* arr_remove, with arr_lshift: the element at "index" leaves, the later
   ones move down by one and so do their back pointers.  The caller holds
   its assertion index \in 0 .. size - 1. *)
arr_remove(index, arr) ==
  LET shifted == {arr.list[k] : k \in index + 1 .. arr.size - 1}
  IN  [size |-> arr.size - 1,
       list |-> [k \in 0 .. arr.size - 2 |->
                  IF k < index THEN arr.list[k] ELSE arr.list[k + 1]],
       pos  |-> [g \in DOMAIN arr.pos |->
                  IF g = arr.list[index] THEN -1
                  ELSE IF g \in shifted THEN arr.pos[g] - 1 ELSE arr.pos[g]]]

(* arr_sorted_insert at the position that the search returned; -1 says that
   an equal key is there, and then the array stays as it is (every caller
   ignores that result).  BinarySearch shows that no other position is out
   of range, so arr_insert's assertion holds. *)
arr_sorted_insert(index, f, arr) ==
  IF index \in 0 .. arr.size THEN arr_insert(index, f, arr) ELSE arr
=============================================================================
