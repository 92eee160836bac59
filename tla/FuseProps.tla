----------------------------- MODULE FuseProps -----------------------------
(***************************************************************************)
(* What the callbacks promise although they work with sizes read earlier,  *)
(* and look at few of the codes they get.                                  *)
(***************************************************************************)
EXTENDS FuseOps

Met(t, events) == calls[t].met \cap events # {}

(* myfuse_write ignores the code of write_file (myfuse.c:304) and reports
   bytes as written.  They were not only if another thread interfered with
   this file, or a file grew into the space counted on: what happens to
   other files otherwise never costs a write. *)
RefusedOnlyByInterference ==
  \A t \in Thread :
    calls[t].pc = "write" /\ lock = NoThread =>
      LET code == write_code(calls[t])
      IN  /\ code = 1 => Met(t, {"drop"})
          /\ code = 2 => Met(t, {"drop", "shrink"})
          /\ code = 3 => Met(t, {"drop", "shrink", "grow"})

(* A write never transfers more bytes than the caller passed in its buffer
   (myfuse.c:292). *)
WriteInRequest ==
  \A t \in Thread : calls[t].pc = "write" => calls[t].count <= calls[t].length

(* It is so for a write that reaches the end of the file, although "used"
   is read twice (myfuse.c:295, :296): unless another thread gave bytes
   back between these two reads. *)
AppendInRequest ==
  \A t \in Thread :
    /\ calls[t].pc = "write"
    /\ calls[t].offset + calls[t].length >= calls[t].f_size
    /\ calls[t].count > calls[t].length
    => Met(t, {"freed"})

(* myfuse_read reports bytes that read_file did not copy (myfuse.c:255)
   only if the file was removed, or made shorter, after file_size. *)
UnfilledOnlyByInterference ==
  \A t \in Thread :
    calls[t].pc = "read" /\ lock = NoThread =>
      LET code == read_code(calls[t])
      IN  /\ code = 1 => Met(t, {"drop"})
          /\ code = 2 => Met(t, {"drop", "shrink"})

(* A listing that no other call interferes with holds every file once, in
   the order of names (myfuse.c:71).  As long as no file is unlinked or
   renamed meanwhile, it holds names of files that exist: a create may cost
   it a name or double one, but never shows it an entry that is none. *)
ListingRight ==
  \A t \in Thread :
    LET names == calls[t].listing
    IN  calls[t].pc = "listed" =>
          /\ calls[t].met = {} =>
               /\ {names[j] : j \in 1 .. Len(names)} = {name[f] : f \in Live}
               /\ \A j, k \in 1 .. Len(names) : j < k => names[j] < names[k]
          /\ "drop" \notin calls[t].met =>
               \A j \in 1 .. Len(names) : \E f \in Live : names[j] = name[f]

SizeOf ==
  [n \in {name[f] : f \in Live} |-> length[CHOOSE f \in Live : name[f] = n]]

S == INSTANCE SizeStore
       WITH FileName <- Names, Kept <- [n \in Names |-> n], size <- SizeOf,
            Capacity <- FileDataLen, Slots <- IndexLen, CreateLengths <- {0},
            ResizeLengths <- TruncateLengths, WriteOffsets <- Offsets,
            WriteCounts <- 0 .. FileDataLen

(* However the callbacks of several threads interleave, names and lengths
   change as those of the plain table: no file is longer than a call made
   it, and the free space that the calls count on is what is left. *)
CallbacksImplementSizes == S!Spec
=============================================================================
