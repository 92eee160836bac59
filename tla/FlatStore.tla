----------------------------- MODULE FlatStore -----------------------------
(***************************************************************************)
(* What the filesystem promises about contents: every file is a sequence   *)
(* of bytes.  A created or grown file is filled with null bytes, a write   *)
(* replaces the bytes it covers, and no operation touches another file.    *)
(* Names, lengths and codes are those of SizeStore.                        *)
(***************************************************************************)
EXTENDS Integers, Sequences, Functions

CONSTANTS
  FileName, Kept, Capacity, Slots,
  CreateLengths, ResizeLengths, WriteOffsets, Renames,
  Buffers          \* the byte sequences that clients write

VARIABLE store     \* store[n]: contents of the file whose kept name is n

Sizes == INSTANCE SizeStore
           WITH size <- [n \in DOMAIN store |-> Len(store[n])],
                WriteCounts <- {Len(b) : b \in Buffers}

Zeros(length) == [p \in 1 .. length |-> 0]

SetStore(n, bytes) ==
  store' = [m \in DOMAIN store \cup {n} |-> IF m = n THEN bytes ELSE store[m]]

(* bytes cut or extended with null bytes to the length given *)
Resized(bytes, length) ==
  [p \in 1 .. length |-> IF p <= Len(bytes) THEN bytes[p] ELSE 0]

(* bytes with buf written at offset (at most Len(bytes)) *)
Written(bytes, offset, buf) ==
  LET end == offset + Len(buf)
  IN  [p \in 1 .. (IF end > Len(bytes) THEN end ELSE Len(bytes)) |->
         IF p > offset /\ p <= end THEN buf[p - offset] ELSE bytes[p]]

create_file(a, length) ==
  Sizes!create_code(a, length) = 0 /\ SetStore(Kept[a], Zeros(length))

delete_file(a) ==
  /\ Sizes!delete_code(a) = 0
  /\ store' = Restrict(store, DOMAIN store \ {Kept[a]})

resize_file(a, length) ==
  /\ Sizes!resize_code(a, length) = 0
  /\ SetStore(Kept[a], Resized(store[Kept[a]], length))

rename_file(a, b) ==
  /\ Sizes!rename_code(a, b) = 0 /\ a # b
  /\ store' = [m \in (DOMAIN store \ {Kept[a]}) \cup {Kept[b]} |->
                 IF m = Kept[b] THEN store[Kept[a]] ELSE store[m]]

write_file(a, offset, buf) ==
  /\ Sizes!write_code(a, offset, Len(buf)) = 0
  /\ SetStore(Kept[a], Written(store[Kept[a]], offset, buf))

(* What read_file returns: its code and, on success, the bytes asked for. *)
read_file(a, offset, count) ==
  IF ~ Sizes!Exists(a) THEN [code |-> 1, bytes |-> << >>]
  ELSE IF offset + count > Len(store[Kept[a]]) THEN [code |-> 2, bytes |-> << >>]
  ELSE [code |-> 0, bytes |-> SubSeq(store[Kept[a]], offset + 1, offset + count)]

Init == store = [m \in {} |-> << >>]

Next ==
  \E a \in FileName :
    \/ \E length \in CreateLengths : create_file(a, length)
    \/ delete_file(a)
    \/ \E length \in ResizeLengths : resize_file(a, length)
    \/ \E b \in FileName : <<a, b>> \in Renames /\ rename_file(a, b)
    \/ \E offset \in WriteOffsets, buf \in Buffers : write_file(a, offset, buf)

Spec == Init /\ [][Next]_store
=============================================================================
