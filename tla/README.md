# Verification of the virtual file system

TLA+ models, model checks and proofs for the C program in `src/`: a filesystem
kept in three memory-mapped files, mounted through FUSE.

## 1. Inventory

| component | source | state | operations |
|---|---|---|---|
| sorted file arrays | `arr.c` | two arrays of `file_t` pointers, `o_list` by offset and `n_list` by name; each `file_t` carries its positions `o_index`, `n_index` | binary search, insertion, removal with shifts |
| allocation and repack | `myfilesystem.c`, `helper.c` | none of its own: the offset array, the `file_t` structs, `file_data`, `dir_table`; inside a call the buffer of `resize_file_helper` and `hash_offset` | gap search `new_file_offset`, `find_next_nonzero_file`, `repack_helper`, `repack_move` |
| filesystem operations | `myfilesystem.c`, `helper.c` | `filesys_t`: mappings of `file_data`, `dir_table`, `hash_data`; `used`, `index`, `index_count`; one mutex | `init_fs`, `close_fs`, `create_file`, `resize_file`, `write_file`, `read_file`, `rename_file`, `delete_file`, `repack`, `file_size`, `compute_hash_tree`, `compute_hash_block` |
| hash tree | `myfilesystem.c` | `hash_data`: a binary tree of checksums over blocks of `file_data` | `fletcher`, `hash_node`, path update, whole-tree update, verification |
| FUSE callbacks | `myfuse.c` | the `filesys_t` of the mount; per callback the sizes it read in an earlier call | one callback per system call, each made of one or more calls of the operations, some unlocked reads |
| tests | `runtest.c`, `test-fuse/` | | sequential tests |
| build, coverage | CMake files, scripts, `cov/` | | |

How they interact: the FUSE callbacks call the operations; an operation takes
the mutex, finds the file in the name array, asks the allocator for a place,
moves and writes bytes in `file_data`, updates `dir_table`, both arrays and the
counters, rehashes blocks, and releases the mutex. `init_fs` rebuilds all memory
from `dir_table`.

What is hard here is not the locking (one mutex around every operation) but
the long sequences of calls that relate five representations of one set of
files: `dir_table`, the `file_t` structs, the two arrays with their back
pointers, the counters, and the bytes and hashes. An operation goes wrong by
leaving one of them behind, and the failure shows many calls, or a restart,
later. The callbacks of `myfuse.c` add interleavings: several locked calls per
callback and unlocked reads. `PROJECT.json` lists each hazard at its line.

What makes each component correct:

- arrays: a search ends and is right; an insertion keeps the order; back
  pointers always lead back to their element; the size never exceeds the
  capacity;
- allocation: no two files share a byte; no file ends behind `file_data`; a
  repack keeps order and contents;
- operations: names, lengths and contents change as those of a plain table of
  byte sequences; memory and `dir_table` agree; the counters are right; codes
  are right; no assertion fails;
- hash tree: a block that an operation changed has its hash up to the root;
  verification rejects no block that is right;
- callbacks: what read, write and readdir report is wrong only where another
  thread interfered; names and lengths stay those of a plain table.

## 2. Modules

| module | models |
|---|---|
| `FileArray` | `arr.c`: insertion, removal and search as operators on an array record (`size`, `list`, and `pos`, the back pointers of the files) |
| `BinarySearch` | the loop of `arr_get_index`, one iteration per step |
| `Allocator` | gap search and repack as operators |
| `Vfs` | the filesystem: state, one action per public function, `init_fs` entry by entry |
| `VfsProps` | the properties of `Vfs` and the refinement mappings |
| `SizeStore` | abstract: a table of names and lengths, with the return codes |
| `FlatStore` | abstract: a table of names and byte sequences, with what `read_file` returns |
| `Relocation`, `RelocationProps` | one call that repacks, write by write, with a kill at any point |
| `HashTree`, `HashTreeProps` | the loops over the hash tree, node by node, with kills and foreign writes |
| `Fletcher`, `FletcherSums` | the checksum, as an operator and word by word |
| `FuseOps`, `FuseProps` | the callbacks of `myfuse.c` in several threads |
| `MCVfs`, `MCRelocation`, `MCHashTree`, `MCFuse` | values of the constants for TLC |
| `BinarySearchProofs`, `HashTreeProofs`, `RelocationProofs`, `FuseProofs`, `FletcherProofs` | proofs about the module of that name, and what its properties module states |
| `VfsProofs` | proofs about `Vfs`: memory, tables, counters, what a step does to names and lengths, and where the files are |
| `VfsStoreProofs` | extends it: which bytes and which hashes a step changes, the order of names, the codes, the two abstract tables, what a read returns |
| `DataLemmas` | induction over numbers and finite sets, sums over a set, and what the operators of `FileArray` return |

How they fit together: `Vfs` EXTENDS `Allocator` EXTENDS `FileArray`, so its
actions are whole calls. The loops that `Vfs` takes in one step have a module in
which they are taken apart: `BinarySearch` (`OperatorAgrees` compares it with the
operator of `FileArray`), `FletcherSums` (with `Fletcher`), `Relocation`
(`RepackAgrees` compares it with `repack_helper` of `Allocator`) and `HashTree`
(`LeavesSuffice` says when the leaves alone decide, which is all that `Vfs`
keeps). Upwards, `Vfs` implements `SizeStore` and `FlatStore`, `FlatStore` uses
`SizeStore`, and `FuseOps` takes each locked call as the step of `SizeStore` that
`Vfs` was shown to implement; `CallbacksImplementSizes` shows that the callbacks
of several threads together still are a `SizeStore`.

### State of `Vfs`

`dir`, `data` and `hash` are the mapped files and survive the process; `file`,
`o_list`, `n_list`, `used`, `index`, `index_count` are memory and are lost by
`close_fs`, by a failed assertion and by a kill. `phase` says whether `init_fs`
is running (`scan` is its loop counter), the filesystem is open, closed, stopped
by an assertion (`aborted`; it can be started again) or has accessed memory
outside the mapping of `file_data` (`faulted`; the model ends there, as the
outcome is not defined).

A `file_t` is named by its `dir_table` index, which no two live files share.
The pointer arrays hold these indices.

### State of `Relocation`

A behaviour is one call: `repack`, `create_file` that finds no gap, or
`resize_file` / `write_file` that grows a file past the free space behind it.
The first state is any layout in which no two files overlap and the array is in
order; files created empty come last with the offset 2^32. The file of the call
is not in the array (a growing file has been removed, a created one is not in
yet); `own` is its entry in `dir_table`. `off` are the offsets in memory, `dir`
those in `dir_table`; they differ between `repack_move` and `repack_offset`, and
a restart sees `dir` and `data` only.

| action | code |
|---|---|
| `copy`, `paste` | the buffer in `resize_file_helper` |
| `repack_move`, `repack_offset` | `repack_move` of the code: `memmove`, then the two offsets and `hash_offset` |
| `repack_stay`, `repack_return` | the rest of the loop of `repack_helper` |
| `write_name`, `update_dir_offset`, `update_dir_length` | the writes to `dir_table`, in their order |
| `fill` | null bytes, or the buffer of `write_file` |
| `kill` | the process dies; of the next write to `file_data` any part is there |

### State of `HashTree`

`data` holds a content per block, `hash` a value per node, numbered as in
`hash_data`. `pc`, `n`, `i`, `level`, `nodes_in_level`, `n_count` are the
variables of the loops, and one step is one node. `torn` is a history variable:
the nodes that a kill or a foreign write left wrong and nothing has repaired.
`Leaf` and `Join` stand for the checksum of a block and of two nodes.

### State of `FuseOps`

`name` and `length` are the `file_t` structs (a freed one may be reused, as
`malloc` does), `list` and `size` the name array with its stale slots, `lock`
the mutex, `calls` the locals of each thread. A call under the mutex is one step,
except that the shifts of the name array are steps of their own, because
`myfuse_readdir` reads the array without the mutex. `myfuse_write` is four
steps: `file_size`, the comparison with `used`, the second read of `used`
(without optimisation the expression is evaluated twice) and `write_file`.
`met` is a history variable: what other threads did to the file of the callback,
or to the free space, since it began; that they freed bytes ("freed") only counts
between the two reads of `used`.

### Abstractions

- Names: `Kept[a]` is the rank, in the order of `strncmp`, of the 63 characters
  that are kept of the name a. Two names may keep the same characters. Rank 0 is
  the cleared first byte of a free entry. Clients pass no empty names. In
  `FuseOps` a name is its rank.
- Of a free entry only the cleared name matters; the offset and length that
  stay in it are normalised.
- Of `hash_data` `Vfs` keeps the leaves only; `HashTree` has all nodes.
- A call that returns an error code changes nothing and is not a step; its code
  is the operator `create_code`, `resize_code`, and so on, compared with the
  abstract table by `CodesAgree`. `read_file` and `file_size` change nothing;
  the bytes and code that `read_file` returns are an operator, compared by
  `ReadsBack`.
- `msync(MS_ASYNC)` has no effect on what the program can see.
- In `Vfs` a kill happens between two calls (it leaves what `close_fs` leaves);
  kills inside a call are in `Relocation` and `HashTree`.
- Lengths so large that `used + length` wraps 64 bits are not passed; in
  `FuseOps` the growth of a file is computed modulo `Word`, which stands for
  2^64 and is larger than anything else.
- `MAX_FILE_DATA_LEN` (2^32) is a constant of the model, much larger than
  `FileDataLen` except where a run asks about the limits; lengths are reduced
  modulo it where the code stores them in `uint32_t`, and `int32` models the
  `int32_t` variable of `write_file`.
- `FuseOps` leaves out what serialises callbacks in libfuse and in the kernel:
  it allows every interleaving of two threads. `getattr`, `open` and `release`
  change nothing, nor does a callback that returns an error at once. It finds
  names with the binary search of `FileArray`, as the code does, so a rename
  that leaves the array out of order makes it miss names as in `Vfs`.

## 3. Runs

`tlc -workers 2 -config X.cfg M` in this directory.

| run | instance | shows |
|---|---|---|
| `vfs_contents` | 4 bytes in one block, 3 files, null and other bytes; no empty files; renames between neighbours only | `Disjoint`, `OffsetsSorted`, `NamesSorted`, `ReadsBack`, `NoAssertionFails`, `ImplementsContents` |
| `vfs_sizes` | 3 bytes, 3 entries, 4 names of which two keep the same characters; empty files | the arrays are well formed (`TypeOK`, `BackPointers`), `EntriesAgree`, `RoomForEntry`, `SpaceAccounted`, `CodesAgree`, `ImplementsSizes` |
| `vfs_blocks` | 4 bytes in 2 blocks, 2 files; no empty files | `RepackedFilesReadable`, `StaleOnlyByRelocation` |
| `relocation` | every layout of 3 files in 5 bytes, every byte different; growth and creation to 1 to 4 bytes; a kill at every point | `OthersSurvive`, `RoomBehind`, `RehashCovers`, `GrownComplete`, `RepackAgrees` |
| `hash_tree` | 4 blocks of two contents, updates and verifications of every range; a kill at every node; while anything is torn no further kill or foreign write | `OnlyTornDisagree`, `UpdateRepairsPath`, `TreeRepairs`, `LeavesSuffice`, `AcceptsOnlyRightPaths`, `Returns` |
| `fuse` | 2 threads, 3 names, 2 entries, 2 bytes, every callback; renames between neighbours only | `RefusedOnlyByInterference`, `AppendInRequest`, `UnfilledOnlyByInterference`, `ListingRight`, `CallbacksImplementSizes` |
| `binary_search` | every array of up to 6 comparisons | the search is right and ends |
| `fletcher` | every buffer of up to 10 bytes of 2 values, 3 bytes to a word | the closed form of the sums (`ClosedForm`), that every byte of the length counts and no other (`EveryByteCounts`), what a checksum must notice (`Notices`) |

The restrictions of `vfs_contents` are where the code is right: with empty
files or reordering renames its properties fail, as the runs named `find_*`
show. In `vfs_contents` file_data is one block, so a rehash of any part is a
rehash of all of it; stale hashes are the subject of `vfs_blocks` and
`find_grown`. Calls of all kinds in any order and restarts after any call are in
every run of `Vfs`. The deadlock check is off in `vfs_sizes`, where an access
outside the mapping ends the behaviour, in `relocation`, which ends with its
call, and in `binary_search` and `fletcher`, which end when the loop does.

Why the bounds are enough: three files are what it takes for a repack to move
one file behind another while a third grows; four bytes leave room for one gap
between two files and one at the end; lengths 1 to 3 and write offsets 0 and 1
give writes inside, at the end of and beyond a file, growth in place, growth
with relocation and repack with a partial copy. Two names with one kept part
give the truncation of names. `relocation` starts from every layout instead of
reaching it, so five bytes give a move by one and by two bytes, an overlap of a
file with its own new place, and the growing file before, between and behind the
others. The search is a function of the comparisons only and halves the array,
so 6 elements give every shape of three rounds. In `hash_tree` a tree of height
2 has a leaf, an inner node and the root on each path, two paths that meet below
the root and two that meet in it. In `fuse` the hazards are about one thread
between two calls of another; two entries give a listing that is shifted under
its reader and space that another file takes, and three names give insertions
before, between and behind the others and renames in both directions. A rename
past another name is left out: with `Renames = {<<1, 3>>}` the search misses
names, as in `find_duplicate`, and `RefusedOnlyByInterference`,
`UnfilledOnlyByInterference` and `ListingRight` are violated. In `fletcher` three
bytes to a word give remainders of none, one and two bytes, behind no, one or
more whole words.
The threads do the same, so `fuse` treats them as symmetric, which is sound for
the invariants and for a refinement without fairness.

### Disagreements found

| run | what the code does |
|---|---|
| `find_overlap_empty` | a file created empty that grows while another empty file exists is appended to the offset array instead of inserted in order; then a new file is placed over it |
| `find_duplicate` | `rename_file` does not move the file in the name array; after that the search misses files: duplicate names, wrong codes |
| `find_grown` | `resize_file` does not rehash the bytes that a relocation copies |
| `find_fuse_write` | `myfuse_write` computes the growth of the file without sign: a write that ends before the end of the file is taken for one that does not fit, and is cut or extended to all of the free space |

Three more follow from changing the constants of a run: `ResizeLengths = {0, 1,
3}` in `vfs_contents` violates `Disjoint` (a file resized to 0 bytes is ignored
by the search for the next file, and overlaps what grew over it);
`CreateLengths = {0, 1}` there, with the deadlock check off, violates
`NoAssertionFails` (after an overlap and a restart, two files with one offset
leave one out of the offset array, and removing it fails an assertion);
`FileDataLen = MAX_FILE_DATA_LEN = 8` in `vfs_blocks`, with three files created
with 1, 2 or 4 bytes and no resize, violates `RepackedFilesReadable`
(`write_file` loses the offset of the first repacked byte from 2^31 on).

What a kill inside a call costs, where no document promises more: in
`Relocation` the file being moved, and the file of the call: until its new
offset is written, the entry of a growing file points to its old place, into
which others may have been moved, and a created file has a name before it has an
offset and a length. No other file loses a byte (`OthersSurvive`). In
`HashTree` the ancestors of the node at work stay wrong; `init_fs` does not
recompute the tree, so reads of those blocks fail until the next update of the
same path or `compute_hash_tree`.

## 4. Fairness

`BinarySearch` and `HashTree` have liveness properties, under weak fairness of
the step of their loop: it runs in one thread with the lock held and waits for
nothing, so any scheduler gives it that. In `HashTree` the start of a call, the
kill and the foreign write are not fair. `Vfs`, `Relocation` and `FuseOps` have
no fairness and no liveness property: nothing obliges a client to call, the loop
of `Relocation` counts up to a bound, and a mutex of pthreads is not fair, so
that a callback returns is more than the code could promise.

## 5. Proofs

`tlapm M.tla` checks module M. Each theorem holds for every value of the
constants that satisfies the assumptions of its module (`LengthAssumption`,
`VfsAssumption`, `SizeAssumption`, `RelocationAssumption`, `TreeAssumption`,
`FuseAssumption`, `WordAssumption`, `MaxLengthAssumption`; TLC evaluates them in the
runs) and the hypotheses that its statement names.

**Induction.** The library's induction theorems take an operator as parameter,
which the provers cannot instantiate. `DataLemmas` states induction with a
set instead (`InductionRule`: a set that holds 0 and with each number the next
holds all; `SubsetInduction` for finite sets), from the least number that is not
in it. The recursion of the model is in recursive functions with a named body
(`Probe` of `arr_get_index`, `PackBody` of `repack_helper`), which makes them
amenable to it. The module also has what the counters need about
`SumFunctionOnSet`: how a sum changes with one term or one element.

**Arrays and search.** `DataLemmas`: `arr_insert` and `arr_remove` keep list
and back pointers inverse to each other, so no array is longer than the set of
its files (`ArraySize`); in an array in ascending order `arr_get_index` finds
the key exactly when it is there, and otherwise the place where an insertion
keeps the order (`SearchAnswer`, `InsertAscending`, `RemoveAscending`).
`BinarySearchProofs` proves the same of the loop, iteration by iteration, for
every outcome of the comparisons (`InsertsInPlace`, `InBounds`, `FindsTheKey`,
`NeverMisses`), and that the loop returns what the operator returns
(`OperatorAgrees`), so that the callers, proved with the operator, have the
loop. The invariant relates the bounds to the elements outside them.
`EachRoundHalves` bounds the number of iterations by the logarithm of the size.

**Memory and tables of `Vfs`.** `VfsProofs`: `TypeOK`, `BackPointers`,
`EntriesAgree` and `RoomForEntry`, with no hypothesis: these hold also after a
rename that left the name array out of order. None of them is inductive: while
`init_fs` runs, memory holds only the entries it has passed. `IInv` says that an
entry is in use exactly when it has been scanned and has a name (`Scanned`),
that only entries in use have back pointers (so a new file is in no array, which
`arr_insert` needs), that memory and `dir_table` agree on each of them, and that
`index_count` counts them. One lemma per action keeps it.

**What a step does to names and lengths.** `VfsProofs`: one lemma per action
(`CreateEffect`, `ResizeEffect` and so on) says what the step does to names and
lengths (`Creates`, `Deletes`, `Relabels`, `Resizes`, `Keeps`, `Ends`). The
proofs that follow rest on these effects. From them alone follows `SizedInv`
(`used` is the sum of the lengths of the scanned entries, and the sum of all
never exceeds `file_data`), and so `SpaceAccounted`.

**Places of the files.** Also `VfsProofs`: `Disjoint` and `OffsetsSorted`.
`LayoutInv` says that the files in the offset array are laid out one behind the
other (each ends at or below the offset of the next), and that each lies inside
`file_data`. Gap search: `FoundFree` shows that what `new_file_offset` finds is
free, whichever of the files at the same offset the binary search meets. Repack:
`RepackedRight` shows by induction over the loop that each file goes where the
bytes of those before it end, `BytesBelow` that this is no higher than where it
was. Growth: `ResizeArranged`, which needs that removal, repack and insertion at
the end keep the order. Create, resize and write then have one lemma each.

**Bytes of the files.** `VfsStoreProofs`. `MovedAll` follows the bytes
through the loop of `repack_helper`: after k files, each byte of the files passed
is at its new place and each byte behind them is untouched, so that the next
`memmove` still finds its source whole. `ResizeBytes` adds the buffer of
`resize_file_helper` (saved before the repack, pasted after it). From both,
`CreateContent`, `ResizeContent`, `WriteContent` and `RepackContent` say which
bytes each file holds after the call. They also give the range `lo .. hi` that
the call rehashes and that all bytes it changes are in it (`Rehashes`), except
for the bytes that a resize relocates.

**Hashes.** Also `VfsStoreProofs`, for every block length and every hash
function: a leaf becomes stale only where a call put a file that it grew
and relocated (`StaleOnlyByRelocation`), and the files that a repack moved can be read after
the call (`RepackedFilesReadable`). `RangeHashes` turns a range of bytes into
the range of blocks that `compute_hash_block_range` visits; the division of byte
offsets by `BLOCK_LEN`, with the shorter last block, has lemmas of its own
(`DivMonotonic`, `WholeBlocks`, `LastBlock`).

**Names, codes, refinement.** Also `VfsStoreProofs`: `NamesInv` (the name array is in
ascending order, no two entries have one name) gives `NamesSorted`, and with the
search lemmas (a name is found exactly when it is in the table) and `SizedInv`
also `CodesAgree`. Each effect is a step of the table of names and lengths
(`ImplementsSizes`). With what each call leaves in the bytes (`OthersKept`, and
one lemma per action from `CreateStore` to `RepackStore`) it is a step of the
table of byte sequences (`ImplementsContents`): the abstract store never learns
of offsets, gaps, repacks or restarts. `NoAssertionFails` needs both the layout
and the names: every file that a call removes from an array is found in it.

**Reads.** `ReadsAlwaysRight`: `read_file` returns the code and the bytes of the
table of byte sequences, or code 3, and that only if a block that the file
overlaps is stale. So a verification may refuse a right file, but a wrong byte
is never returned. With a single block no block is ever stale between calls
(`OneBlockFresh`) and the read is always that of the table (`ReadsBack`).

**Repack with a kill at any point.** `RelocationProofs`: `OthersSurvive`,
`RoomBehind`, `RehashCovers` and `GrownComplete`, for every number and layout of
files, every call that repacks, torn writes included. The invariant says where
every file is (`Progress`): those the loop has passed are where the packing puts
them, the others where they were, the next one no lower than its place in the
packing. So a move goes down, into bytes that no other file holds
(`OthersElsewhere`), and its source is intact when it is read. `Finished` says
that the files the loop does not come to (it stops at the first newly created
empty file) have no bytes. `CallerInv` adds what the caller has saved, pasted
and filled so far: a file that `resize_file` moved to the end has all its old
bytes and nulls behind them when the call returns (`GrownComplete`).

`RepackAgrees` is the link to `Vfs`, which takes the whole loop in one step with
the recursive functions of `Allocator`. For every caller, the loop ends with the
offsets, the entries, the bytes of the files and the first byte to rehash that
the operator gives; so what is proved of `Vfs` holds of the loop with its order
of moves. `OffsetsUnfold` and `BytesUnfold` show that the two recursions have
solutions; `OffsetsPacked` says what the first one computes: the packing up to
the newly created empty file where the loop stops (`Stop`), the old offsets
behind it. `AgreeInv` compares the loop with the recursions after i files: its
bytes are those of the recursion, the offset it returns is that of the first file
with bytes that moved (`FirstMoved`). What the caller writes afterwards is
behind the files, which `CallerInv` says.

**Hash tree.** `HashTreeProofs`, for every height and every hash function:
`OnlyTornDisagree` (a node differs from its children only where a kill tore an
update or a foreign write hit), `UpdateRepairsPath`, `TreeRepairs`,
`AcceptsOnlyRightPaths` and `LeavesSuffice` (which justifies that `Vfs` keeps only the leaves). The
invariant follows the loops: which nodes on the path of the block, or on the
levels below the present one, are already right. `EachStepShortens` gives a
number (`Work`) that every step of a loop makes smaller, unless it returns: the
blocks that follow, each with a path of at most the whole tree, or the nodes on
the levels above.

**Checksum.** `FletcherProofs`, for words of any number of bytes of any size and
every buffer, so also for the 4 bytes of 256 values of the code. `LoopSums` is
the core: after k words, whatever they are, the four sums are the sums of the
words with the weights 1, n, and the triangular and tetrahedral numbers, modulo
`Modulus`. Each weight adds up the one before (`AddsUp`), as each sum adds up the
one before; `RemainderAdd` and its like say that a remainder may be taken
before an addition or after it. From it follow `ClosedForm` for the words of the
buffer, and `Notices`: another value of one word changes a by the difference
(`OneWordNoticed`), two neighbours swapped change b by theirs (`SwapNoticed`), and
`RemainderCancel` turns equal sums into equal words. `EveryByteCounts` says of the
bytes what `Notices` says of words, across the loop and the branch for the
remainder: each of the first `length` bytes is in one word that is read
(`WordOfByte`), and another value there changes that word by less than the modulus
(`OneByteNoticed`, `ByteBelowModulus`); a word that is read has no byte behind them
(`BytesInside`). With words of a single byte the highest byte would be the
modulus, so the theorem has the hypothesis `WordBytes > 1`.

**Callbacks.** `FuseProofs`, for any number of threads, files and bytes. The
invariant has three parts. `SharedInv` is about the shared state at every point of
a shift: the slots of the name array but the free one hold every file once
(`Filled`, `Slots`, `Linked`), the mutex is held exactly by the thread that
shifts, and "used" counts the bytes of the files that no unlink has taken
(`Staying`: `unlink` gives the bytes back before it frees the file). `OrderInv` says that the name
array is in order, also while it is shifted; with the search lemmas of
`DataLemmas` it makes the binary search find a name exactly when a file has it
(`FoundFile`), and otherwise the place of an insertion (`FoundPlace`). `CallInv`
says of each callback what the sizes it read earlier are still worth, given the
events it has met: the file of a read is still there and long enough unless a
"drop" or "shrink" has happened to it, the room that a write counted on is still
there unless a file grew, a listing has read so far what the array holds. Each
action has one lemma for the shared state, which also says which event the step
is (`Waits`, `Happens`) and what it does to the array (`ArraySame`, `ArrayGrows`,
`ArrayDrops`); `OthersKept` then proves once for all actions that the other calls
still know what they know. From `Invariance` follow
`RefusedOnlyByInterference`, `AppendInRequest`,
`UnfilledOnlyByInterference` and `ListingRight`. `CallbacksImplementSizes` maps each step that
makes, frees, renames or resizes a file to a step of `SizeStore`; when the mutex
is free the sum of the table is "used" (`TableTotals`), so its codes are those
that the callbacks get.

**Hypotheses, and why the code needs them.**

- `LengthFits`: `file_data` is shorter than 2^32 bytes. A file of 2^32 bytes
  would have length 0 in the `uint32_t` fields, and the offset 2^32 marks a newly
  created empty file.
- `RenamesKeepOrder`: a rename does not move a name past another one.
  `rename_file` leaves the file where it is in the name array, so without this
  the array is out of order and the search misses names (`find_duplicate`).
  Every theorem of `FuseProofs` has it, as each callback begins with a search.
- `NoEmptyFiles`: files are created with data and never resized to nothing.
  An empty file that has an offset misleads the gap search (`find_overlap_empty`).
- `HalfFits`: `file_data` is no longer than 2^31 bytes; where hashes are at
  stake. `write_file` keeps the offset of the first repacked byte in an
  `int32_t`, and rehashes too little when it turns negative (the third case of
  section 3 that follows from changing constants). It implies `LengthFits`.
- `WordBytes > 1`, for `EveryByteCounts` only: see Checksum above; it is 4 in the
  code.
- `OneBlock`: `file_data` is one block, for `ReadsBack` only. With more blocks a
  relocation by `resize_file` leaves stale hashes, and reads are refused
  (`find_grown`); `ReadsAlwaysRight` is the theorem for any number of blocks.

A theorem has the hypotheses that its statement lists and no others. Each is the
regime of a passing run (section 3); the runs that expect a violation show what
happens outside it.

**Model-checked only.** Termination (`Terminates`, `Returns`):
liveness under fairness, which the prover does not do. `EachRoundHalves` and
`EachStepShortens` are the part of it that is safety: the loops cannot go on
for ever. That they take their steps stays with TLC. Every other property of a passing run is
stated by a theorem. `GrownFileReadable` and the other properties of the `find_*`
runs are no theorems: the code violates them.

## 6. Not modelled

- Tests, build files, coverage reports: no program logic.
- Opening and mapping of files, allocation of memory, `msync`, the command line
  of `myfuse.c`, the conversion of codes to `errno`, `getattr`, `open` and
  `release`: no state that the properties speak of.
- Lengths at 2^32 (`helper.c:160`): `Vfs` has the assertion and the reduced
  length, but no run has a `file_data` as long as `MAX_FILE_DATA_LEN` together
  with lengths that reach it; listed as a hazard without a property.
- A kill inside `create_file` that finds a gap, `rename_file` or `delete_file`:
  each makes one write to `dir_table` that matters, or the same three in the
  same order as in `Relocation`.

## 7. Plan

Done: all modules of section 2, their runs, and the theorems of section 5.

Left: a restart of `Vfs` from what `Relocation` leaves after a kill, to see how
the overlap of the growing file with moved ones spreads.
