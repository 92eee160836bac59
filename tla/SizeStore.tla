----------------------------- MODULE SizeStore -----------------------------
(***************************************************************************)
(* What the filesystem promises about names, lengths and return values: a  *)
(* table of file names, each with a length, of at most Slots files and at  *)
(* most Capacity bytes in all.  The codes are those the functions of       *)
(* myfilesystem.c document with "Return 1 if ...", "Return 2 if ...".      *)
(***************************************************************************)
EXTENDS Naturals, FiniteSets, Functions

CONSTANTS
  FileName,        \* names that clients pass
  Kept,            \* Kept[a]: the part of the name a that a file_t keeps
  Capacity, Slots,
  CreateLengths, ResizeLengths, WriteOffsets, WriteCounts, Renames

VARIABLE size      \* size[n]: length of the file whose kept name is n

Total == SumFunction(size)

Exists(a) == Kept[a] \in DOMAIN size

create_code(a, length) ==
  IF Exists(a) THEN 1
  ELSE IF Total + length > Capacity \/ Cardinality(DOMAIN size) >= Slots THEN 2
  ELSE 0

delete_code(a) == IF Exists(a) THEN 0 ELSE 1

resize_code(a, length) ==
  IF ~ Exists(a) THEN 1
  ELSE IF Total - size[Kept[a]] + length > Capacity THEN 2
  ELSE 0

rename_code(a, b) ==
  IF Exists(a) /\ a = b THEN 0
  ELSE IF ~ Exists(a) \/ Exists(b) THEN 1
  ELSE 0

write_code(a, offset, count) ==
  IF ~ Exists(a) THEN 1
  ELSE IF offset > size[Kept[a]] THEN 2
  ELSE IF Total - size[Kept[a]] + offset + count > Capacity THEN 3
  ELSE 0

SetSize(n, length) ==
  size' = [m \in DOMAIN size \cup {n} |-> IF m = n THEN length ELSE size[m]]

create_file(a, length) ==
  create_code(a, length) = 0 /\ SetSize(Kept[a], length)

delete_file(a) ==
  delete_code(a) = 0 /\ size' = Restrict(size, DOMAIN size \ {Kept[a]})

resize_file(a, length) ==
  resize_code(a, length) = 0 /\ SetSize(Kept[a], length)

rename_file(a, b) ==
  /\ rename_code(a, b) = 0 /\ a # b
  /\ size' = [m \in (DOMAIN size \ {Kept[a]}) \cup {Kept[b]} |->
                IF m = Kept[b] THEN size[Kept[a]] ELSE size[m]]

(* A write never shortens a file. *)
write_file(a, offset, count) ==
  /\ write_code(a, offset, count) = 0
  /\ offset + count > size[Kept[a]]
  /\ SetSize(Kept[a], offset + count)

Init == size = [m \in {} |-> 0]

Next ==
  \E a \in FileName :
    \/ \E length \in CreateLengths : create_file(a, length)
    \/ delete_file(a)
    \/ \E length \in ResizeLengths : resize_file(a, length)
    \/ \E b \in FileName : <<a, b>> \in Renames /\ rename_file(a, b)
    \/ \E offset \in WriteOffsets, count \in WriteCounts : write_file(a, offset, count)

Spec == Init /\ [][Next]_size
=============================================================================
