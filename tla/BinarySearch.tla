---------------------------- MODULE BinarySearch ---------------------------
(***************************************************************************)
(* The loop of arr_get_index, one iteration per step.  The array and the   *)
(* key appear only through their comparisons: cmp[k] is the sign of        *)
(* cmp_key(key, list[k]).  The comparisons are arbitrary, because the      *)
(* program does search arrays that are out of order (rename_file does not  *)
(* move the file in the name array, and a file that grows from 0 bytes is  *)
(* appended to the offset array).                                          *)
(***************************************************************************)
EXTENDS FileArray

CONSTANT MAX_NUM_FILES       \* capacity of an array

ASSUME SizeAssumption == MAX_NUM_FILES \in Nat

VARIABLES
  cmp, size, insert,         \* the arguments
  l, h,                      \* low and high bound of the search
  pc, result

args == <<cmp, size, insert>>
vars == <<args, l, h, pc, result>>

Sign == {-1, 0, 1}

Init ==
  /\ size \in 0 .. MAX_NUM_FILES
  /\ cmp \in [0 .. size - 1 -> Sign]
  /\ insert \in BOOLEAN
  /\ l = 0 /\ h = size - 1
  /\ pc = "start" /\ result = -1

Return(value) == pc' = "done" /\ result' = value /\ UNCHANGED <<args, l, h>>

\* Mutant: a failed search for an element returns the position too.
MutNotFoundReturns(position) == Return(position)

NotFound(position) == Return(IF insert THEN position ELSE -1)

m == (l + h) \div 2

(* The cases before the loop. *)
Start ==
  /\ pc = "start"
  /\ IF size = 0 THEN NotFound(0)
     ELSE pc' = "loop" /\ UNCHANGED <<args, l, h, result>>

\* Mutant: the low bound is tested as the loops of textbooks do.
MutGoDown ==
  /\ pc = "loop" /\ cmp[m] < 0
  /\ IF l > m THEN NotFound(m)
     ELSE h' = m - 1 /\ UNCHANGED <<args, l, pc, result>>

GoDown ==
  /\ pc = "loop" /\ cmp[m] < 0
  /\ IF l >= m THEN NotFound(m)
     ELSE h' = m - 1 /\ UNCHANGED <<args, l, pc, result>>

\* Mutant: the position of the element itself.
MutGoUpInsertsBefore ==
  /\ pc = "loop" /\ cmp[m] > 0
  /\ IF h <= m THEN NotFound(m)
     ELSE l' = m + 1 /\ UNCHANGED <<args, h, pc, result>>

\* Mutant: the low bound does not pass the middle.
MutGoUpKeepsMiddle ==
  /\ pc = "loop" /\ cmp[m] > 0
  /\ IF h <= m THEN NotFound(m + 1)
     ELSE l' = m /\ UNCHANGED <<args, h, pc, result>>

GoUp ==
  /\ pc = "loop" /\ cmp[m] > 0
  /\ IF h <= m THEN NotFound(m + 1)
     ELSE l' = m + 1 /\ UNCHANGED <<args, h, pc, result>>

\* Mutant: an equal key does not stop an insertion.
MutFoundInserts ==
  /\ pc = "loop" /\ cmp[m] = 0
  /\ Return(m)

Found ==
  /\ pc = "loop" /\ cmp[m] = 0
  /\ Return(IF insert THEN -1 ELSE m)

Next == Start \/ GoDown \/ GoUp \/ Found

(* The loop runs in one thread with nothing to wait for. *)
Spec == Init /\ [][Next]_vars /\ WF_vars(Next)

----------------------------------------------------------------------------
(* Properties *)

(* The middle element is inside the array whenever the loop compares it. *)
InBounds ==
  pc = "loop" => 0 <= l /\ l <= h /\ h <= size - 1

(* Whatever the order of the array, an insertion position lies inside it,
   between an element that compares below the key and one that compares
   above: so arr_insert's assertion holds (arr.c:170) and an insertion adds
   no new pair of neighbours out of order. *)
InsertsInPlace ==
  pc = "done" /\ insert /\ result # -1 =>
    /\ result \in 0 .. size
    /\ result > 0 => cmp[result - 1] > 0
    /\ result < size => cmp[result] < 0

(* A search that finds an element found one with the key, and an insertion
   refused as "file exists" met one. *)
FindsTheKey ==
  pc = "done" =>
    /\ ~ insert /\ result # -1 => result \in 0 .. size - 1 /\ cmp[result] = 0
    /\ insert /\ result = -1 => \E k \in 0 .. size - 1 : cmp[k] = 0

Sorted == \A j, k \in 0 .. size - 1 : j < k => cmp[j] >= cmp[k]

(* In a sorted array the search misses no element with the key. *)
NeverMisses ==
  pc = "done" /\ Sorted /\ (\E k \in 0 .. size - 1 : cmp[k] = 0) =>
    IF insert THEN result = -1 ELSE result \in 0 .. size - 1

(* The operator that the other modules use computes what the loop returns. *)
OperatorAgrees == pc = "done" => result = arr_get_index(cmp, size, insert)

(* The search ends for every array and key. *)
Terminates == <>(pc = "done")
=============================================================================
