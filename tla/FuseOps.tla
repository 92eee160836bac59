------------------------------- MODULE FuseOps ------------------------------
(***************************************************************************)
(* The callbacks of myfuse.c, which libfuse calls from several threads.    *)
(* Each call of a filesystem function is one step under its mutex, except  *)
(* that the shifts of the name array are steps of their own: readdir reads *)
(* the array without the mutex, as write reads "used".  What the functions *)
(* do to names and lengths is what SizeStore says (ImplementsSizes of      *)
(* VfsProps); the codes they return are not always looked at.              *)
(*                                                                         *)
(* getattr, open and release change nothing and are not steps, nor is a    *)
(* callback that returns an error before it changed anything.              *)
(***************************************************************************)
EXTENDS FileArray, Sequences, FiniteSets, Functions

CONSTANTS
  Thread,
  Names,               \* file names, by their rank in strncmp order
  IndexLen,            \* entries of dir_table, and capacity of the name array
  FileDataLen,
  Word,                \* 2^64: values of size_t
  Offsets, Lengths, TruncateLengths, Renames   \* arguments of the callbacks

ASSUME FuseAssumption ==
  /\ {"none", "unmounted"} \cap Thread = {}
  /\ Names \subseteq Nat \ {0}
  /\ IndexLen \in Nat /\ FileDataLen \in Nat
  /\ Word \in Nat \ {0}
  /\ Offsets \cup Lengths \cup TruncateLengths \subseteq Nat
  /\ \A n \in Offsets \cup Lengths : n + FileDataLen < Word
  /\ Renames \subseteq Names \X Names

VARIABLES
  name,                \* names of the file_t structs, 0 when freed
  length,              \* their lengths
  list, size,          \* n_list; slots from size on keep what was in them
  used,
  lock,                \* thread that holds the mutex
  calls                \* per thread: the callback at work and its locals

files == <<name, length>>
array == <<list, size>>
vars == <<files, array, used, lock, calls>>

FileT == 1 .. IndexLen     \* memory for file_t structs, which malloc reuses
NoFile == 0
NoThread == "none"
Unmounted == "unmounted"

Idle == [pc |-> "idle", path |-> 0, offset |-> 0, length |-> 0, f_size |-> 0,
         count |-> 0, k |-> 0, index |-> 0, f |-> NoFile, listing |-> << >>, met |-> {}]

Live == {f \in FileT : name[f] # 0}
Free(t) == calls[t].pc = "idle" /\ lock = NoThread

(* the comparisons of the name a with those in the array *)
cmp_names(a) == [m \in 0 .. size - 1 |-> cmp_name(a, [name |-> name[list[m]]])]

(* arr_get_by_key: a search that expects the array in order *)
position(a) == arr_get_index(cmp_names(a), size, FALSE)
Exists(a) == position(a) # -1
file(a) == list[position(a)]

(* History: what other threads did since a call began, to its own file; of
   other files, that they grew; and, between the two reads of "used", that
   it became less. *)
Events == [readdir |-> {"add", "drop"}, filler |-> {"add", "drop"}, listed |-> {"add", "drop"},
           read |-> {"drop", "shrink"},
           compare |-> {"drop", "shrink", "grow"},
           clip |-> {"drop", "shrink", "grow"},
           write |-> {"drop", "shrink", "grow"}]

Hears(u, event, a) ==
  LET c == calls[u]
      own == c.path \in {0, a} \/ event \notin {"drop", "shrink"}
      heard == IF c.pc \in DOMAIN Events /\ own THEN {event} \cap Events[c.pc] ELSE {}
      freed == IF c.pc = "clip" /\ used' < used THEN {"freed"} ELSE {}
      all == c.met \cup heard \cup freed
  IN  IF "drop" \in all THEN all \cap {"drop", "freed"} ELSE all   \* outweighs the others

(* Thread t goes on as c; the calls of the others meet what it does to a. *)
Continue(t, c, event, a) ==
  calls' = [u \in Thread |->
              IF u = t THEN c ELSE [calls[u] EXCEPT !.met = Hears(u, event, a)]]

Locals(t, c) == calls' = [calls EXCEPT ![t] = c]
----------------------------------------------------------------------------
(* myfuse_create: create_file with length 0.  arr_sorted_insert searches the
   place; arr_insert shifts the array from its end to there (arr_rshift), then
   stores the pointer (arr_store). *)

create(t, a) ==
  /\ Free(t) /\ ~ Exists(a) /\ size < IndexLen
  /\ lock' = t
  /\ UNCHANGED <<array, used>>
  /\ \E f \in FileT \ Live :
       /\ name' = [name EXCEPT ![f] = a] /\ length' = [length EXCEPT ![f] = 0]
       /\ Continue(t, [Idle EXCEPT !.pc = "rshift", !.path = a, !.f = f, !.k = size - 1,
                                   !.index = arr_get_index(cmp_names(a), size, TRUE)],
                   "add", a)

arr_rshift(t) ==
  LET k == calls[t].k
  IN  /\ calls[t].pc = "rshift" /\ k >= calls[t].index
      /\ list' = [list EXCEPT ![k + 1] = list[k]]
      /\ Locals(t, [calls[t] EXCEPT !.k = k - 1])
      /\ UNCHANGED <<files, size, used, lock>>

arr_store(t) ==
  /\ calls[t].pc = "rshift" /\ calls[t].k < calls[t].index
  /\ list' = [list EXCEPT ![calls[t].index] = calls[t].f]
  /\ size' = size + 1 /\ lock' = NoThread
  /\ Locals(t, Idle)
  /\ UNCHANGED <<files, used>>

----------------------------------------------------------------------------
(* myfuse_unlink: delete_file shifts the array from the left, then frees. *)

unlink(t, a) ==
  /\ Free(t) /\ Exists(a)
  /\ lock' = t /\ used' = used - length[file(a)]
  /\ Continue(t, [Idle EXCEPT !.pc = "lshift", !.f = file(a), !.k = position(a) + 1], "drop", a)
  /\ UNCHANGED <<files, array>>

arr_lshift(t) ==
  LET k == calls[t].k
  IN  /\ calls[t].pc = "lshift" /\ k < size
      /\ list' = [list EXCEPT ![k - 1] = list[k]]
      /\ Locals(t, [calls[t] EXCEPT !.k = k + 1])
      /\ UNCHANGED <<files, size, used, lock>>

\* Mutant: the array keeps its size, so the last slot stays in use.
MutRemoveKeepsSize(t) ==
  /\ calls[t].pc = "lshift" /\ calls[t].k >= size
  /\ lock' = NoThread
  /\ name' = [name EXCEPT ![calls[t].f] = 0] /\ length' = [length EXCEPT ![calls[t].f] = 0]
  /\ Locals(t, Idle)
  /\ UNCHANGED <<list, size, used>>

free_file(t) ==
  /\ calls[t].pc = "lshift" /\ calls[t].k >= size
  /\ size' = size - 1 /\ lock' = NoThread
  /\ name' = [name EXCEPT ![calls[t].f] = 0] /\ length' = [length EXCEPT ![calls[t].f] = 0]
  /\ Locals(t, Idle)
  /\ UNCHANGED <<list, used>>

----------------------------------------------------------------------------
(* myfuse_rename and myfuse_truncate make one call each. *)

rename(t, a, b) ==
  /\ Free(t) /\ Exists(a) /\ ~ Exists(b)
  /\ name' = [name EXCEPT ![file(a)] = b]
  /\ UNCHANGED <<length, array, used, lock>>
  /\ Continue(t, Idle, "drop", a)

truncate(t, a, newLength) ==
  LET old == length[file(a)]
  IN  /\ Free(t) /\ Exists(a) /\ newLength # old
      /\ used + newLength - old <= FileDataLen
      /\ length' = [length EXCEPT ![file(a)] = newLength]
      /\ used' = used + newLength - old
      /\ Continue(t, Idle, IF newLength < old THEN "shrink" ELSE "grow", a)
      /\ UNCHANGED <<name, array, lock>>

----------------------------------------------------------------------------
(* myfuse_read *)

\* Mutant: the bytes before the offset are not subtracted.
MutReadPastEnd(t, a, offset, count) ==
  LET f_size == length[file(a)]
  IN  /\ Free(t) /\ Exists(a) /\ offset < f_size
      /\ Locals(t, [Idle EXCEPT !.pc = "read", !.path = a, !.offset = offset,
                                !.count = IF count > f_size THEN f_size ELSE count])
      /\ UNCHANGED <<files, array, used, lock>>

(* file_size, and the length to read *)
read(t, a, offset, count) ==
  LET f_size == length[file(a)]
  IN  /\ Free(t) /\ Exists(a) /\ offset < f_size
      /\ Locals(t, [Idle EXCEPT !.pc = "read", !.path = a, !.offset = offset,
                                !.count = IF count > f_size - offset
                                          THEN f_size - offset ELSE count])
      /\ UNCHANGED <<files, array, used, lock>>

read_code(c) ==
  IF ~ Exists(c.path) THEN 1
  ELSE IF c.offset + c.count > length[file(c.path)] THEN 2
  ELSE 0

(* read_file: the callback returns an error for its code 3 (a hash is wrong),
   and for any other code the count. *)
read_file(t) ==
  /\ calls[t].pc = "read" /\ lock = NoThread
  /\ Locals(t, Idle)
  /\ UNCHANGED <<files, array, used, lock>>

----------------------------------------------------------------------------
(* myfuse_write *)

(* file_size *)
write(t, a, offset, count) ==
  /\ Free(t) /\ Exists(a) /\ offset <= length[file(a)]
  /\ Locals(t, [Idle EXCEPT !.pc = "compare", !.path = a, !.offset = offset,
                            !.length = count, !.f_size = length[file(a)]])
  /\ UNCHANGED <<files, array, used, lock>>

(* The growth that is compared with the free space, in size_t: a write that
   ends before the end of the file wraps round. *)
growth(c) == (c.offset + c.length - c.f_size) % Word

\* Mutant: every length fits.
MutCompareNothing(t) ==
  LET c == calls[t]
  IN  /\ c.pc = "compare"
      /\ Locals(t, [c EXCEPT !.pc = "write", !.count = c.length])
      /\ UNCHANGED <<files, array, used, lock>>

(* The comparison reads "used" without the mutex, ... *)
compare_space(t) ==
  LET c == calls[t]
  IN  /\ c.pc = "compare"
      /\ Locals(t, IF growth(c) > FileDataLen - used
                   THEN [c EXCEPT !.pc = "clip"]
                   ELSE [c EXCEPT !.pc = "write", !.count = c.length])
      /\ UNCHANGED <<files, array, used, lock>>

\* Mutant: clipped to the size of file_data.
MutClipToCapacity(t) ==
  /\ calls[t].pc = "clip"
  /\ Locals(t, [calls[t] EXCEPT !.pc = "write", !.count = FileDataLen])
  /\ UNCHANGED <<files, array, used, lock>>

(* ... the assignment reads it again. *)
clip_length(t) ==
  /\ calls[t].pc = "clip"
  /\ Locals(t, [calls[t] EXCEPT !.pc = "write", !.count = FileDataLen - used])
  /\ UNCHANGED <<files, array, used, lock>>

write_code(c) ==
  IF ~ Exists(c.path) THEN 1
  ELSE IF c.offset > length[file(c.path)] THEN 2
  ELSE IF used + c.offset + c.count - length[file(c.path)] > FileDataLen THEN 3
  ELSE 0

\* Mutant: used does not grow with the file.
MutWriteKeepsUsed(t) ==
  LET c == calls[t]
      f == file(c.path)
      end == c.offset + c.count
  IN  /\ c.pc = "write" /\ lock = NoThread
      /\ IF write_code(c) = 0 /\ end > length[f]
         THEN length' = [length EXCEPT ![f] = end] /\ Continue(t, Idle, "grow", c.path)
         ELSE Locals(t, Idle) /\ UNCHANGED length
      /\ UNCHANGED <<name, array, used, lock>>

(* write_file; the callback reports the count whatever code it returns. *)
write_file(t) ==
  LET c == calls[t]
      f == file(c.path)
      end == c.offset + c.count
  IN  /\ c.pc = "write" /\ lock = NoThread
      /\ IF write_code(c) = 0 /\ end > length[f]
         THEN /\ length' = [length EXCEPT ![f] = end]
              /\ used' = used + end - length[f]
              /\ Continue(t, Idle, "grow", c.path)
         ELSE Locals(t, Idle) /\ UNCHANGED <<length, used>>
      /\ UNCHANGED <<name, array, lock>>

----------------------------------------------------------------------------
(* myfuse_readdir takes no lock: it reads the size, then slot by slot the
   pointer and the name behind it. *)

Holder == IF lock \in Thread THEN calls[lock].pc ELSE "none"

readdir(t) ==
  /\ calls[t].pc = "idle" /\ lock # Unmounted
  /\ Locals(t, [Idle EXCEPT !.pc = IF size = 0 THEN "listed" ELSE "readdir", !.count = size,
                            !.met = (IF Holder = "rshift" THEN {"add"} ELSE {})
                               \cup (IF Holder = "lshift" THEN {"drop"} ELSE {})])
  /\ UNCHANGED <<files, array, used, lock>>

read_slot(t) ==
  /\ calls[t].pc = "readdir"
  /\ Locals(t, [calls[t] EXCEPT !.pc = "filler", !.f = list[calls[t].k]])
  /\ UNCHANGED <<files, array, used, lock>>

filler(t) ==
  LET c == calls[t]
  IN  /\ c.pc = "filler"
      /\ Locals(t, [c EXCEPT !.listing = Append(@, name[c.f]), !.k = c.k + 1, !.f = NoFile,
                             !.pc = IF c.k + 1 < c.count THEN "readdir" ELSE "listed"])
      /\ UNCHANGED <<files, array, used, lock>>

myfuse_readdir_return(t) ==
  /\ calls[t].pc = "listed" /\ Locals(t, Idle)
  /\ UNCHANGED <<files, array, used, lock>>

----------------------------------------------------------------------------
(* The files in order of their names, as init_fs builds the array when no two
   have one name. *)
sorted(fs) ==
  CHOOSE s \in [0 .. IndexLen - 1 -> FileT \cup {NoFile}] :
    /\ {s[j] : j \in 0 .. Cardinality(fs) - 1} = fs
    /\ \A j, k \in 0 .. Cardinality(fs) - 1 : j < k => name[s[j]] < name[s[k]]
    /\ \A j \in Cardinality(fs) .. IndexLen - 1 : s[j] = NoFile

myfuse_init ==
  /\ lock = Unmounted /\ lock' = NoThread
  /\ list' = sorted(Live) /\ size' = Cardinality(Live)
  /\ used' = SumFunction(length)
  /\ UNCHANGED <<files, calls>>

(* close_fs, when no callback is at work any more *)
myfuse_destroy ==
  /\ lock = NoThread /\ \A t \in Thread : calls[t] = Idle
  /\ lock' = Unmounted
  /\ list' = [j \in 0 .. IndexLen - 1 |-> NoFile] /\ size' = 0 /\ used' = 0
  /\ UNCHANGED <<files, calls>>

Init ==
  /\ name = [f \in FileT |-> 0] /\ length = [f \in FileT |-> 0]
  /\ list = [j \in 0 .. IndexLen - 1 |-> NoFile] /\ size = 0 /\ used = 0
  /\ lock = Unmounted
  /\ calls = [t \in Thread |-> Idle]

Callback(t) ==
  \/ \E a \in Names : create(t, a) \/ unlink(t, a)
  \/ arr_rshift(t) \/ arr_store(t) \/ arr_lshift(t) \/ free_file(t)
  \/ \E r \in Renames : rename(t, r[1], r[2])
  \/ \E a \in Names, n \in TruncateLengths : truncate(t, a, n)
  \/ \E a \in Names, offset \in Offsets, n \in Lengths : read(t, a, offset, n) \/ write(t, a, offset, n)
  \/ read_file(t)
  \/ compare_space(t) \/ clip_length(t) \/ write_file(t)
  \/ readdir(t) \/ read_slot(t) \/ filler(t) \/ myfuse_readdir_return(t)

Next == myfuse_init \/ myfuse_destroy \/ \E t \in Thread : Callback(t)

Spec == Init /\ [][Next]_vars
=============================================================================
