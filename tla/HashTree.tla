------------------------------ MODULE HashTree -----------------------------
(***************************************************************************)
(* hash_data node by node: the binary tree of checksums over the blocks of *)
(* file_data, its update from a leaf to the root, its recomputation level  *)
(* by level, and its verification.  All of it runs under the filesystem    *)
(* lock, so that one loop is at work at a time; each step is one node.     *)
(* The mapping is MAP_SHARED: a kill between two nodes leaves the tree as  *)
(* it is, and the next process goes on with it.                            *)
(***************************************************************************)
EXTENDS Integers, FiniteSets

CONSTANTS
  Height, Width,       \* Width[k]: number of nodes in level k
  Content, Blank,      \* contents of a block; the null bytes of a blank file
  Leaf(_), Join(_, _), \* fletcher of a block, and of two hashes concatenated
  MaxTorn              \* bound: no fault while more than this many nodes are wrong

(* The tree is full, and fletcher maps null bytes to null bytes, so that the
   three blank files are a filesystem whose hashes are right. *)
ASSUME TreeAssumption ==
  /\ Height \in Nat
  /\ Width \in [0 .. Height -> Nat]
  /\ Width[0] = 1
  /\ \A k \in 1 .. Height : Width[k] = 2 * Width[k - 1]
  /\ Blank \in Content
  /\ Join(Leaf(Blank), Leaf(Blank)) = Leaf(Blank)

VARIABLES
  data,                \* contents of the blocks of file_data
  hash,                \* hash_data by node, 0 is the root
  pc,                  \* the loop at work
  i, last,             \* block at work and last block of a range
  first,               \* first block of that range
  n,                   \* n_index
  nodes_in_level, n_count,
  outcome,             \* how the last loop ended
  torn                 \* history: nodes that a kill or a foreign write left wrong

range == <<first, i, last>>
level == <<nodes_in_level, n_count>>
vars == <<data, hash, pc, range, n, level, outcome, torn>>

Blocks == Width[Height]
Block == 0 .. Blocks - 1
tree_len == 2 * Blocks - 1
leaf_offset == tree_len \div 2
Node == 0 .. tree_len - 1

lc_index(k) == 2 * k + 1
rc_index(k) == 2 * k + 2

\* Mutant: the parent of an even node is taken for its right neighbour's.
MutParentRoundsUp(k) == k \div 2

p_index(k) == IF k % 2 = 1 THEN k \div 2 ELSE k \div 2 - 1

\* Mutant: the loop stops before the root.
MutAtRootEarly(k) == p_index(k) <= 0

(* where the loops over a path end *)
AtRoot(k) == p_index(k) < 0

leaf(b) == leaf_offset + b

(* hash_node: what the hash of node k should be *)
hash_node(k) ==
  IF k < leaf_offset THEN Join(hash[lc_index(k)], hash[rc_index(k)])
  ELSE Leaf(data[k - leaf_offset])

Agrees(k) == hash[k] = hash_node(k)

IsRange(b, c) == b \in Block /\ c \in Block /\ b <= c

(* The loop ends: "done", for a verification "accepted" or "rejected". *)
Return(how) ==
  /\ pc' = "idle" /\ outcome' = how
  /\ n' = 0 /\ first' = 0 /\ i' = 0 /\ last' = 0
  /\ nodes_in_level' = 0 /\ n_count' = 0

----------------------------------------------------------------------------
(* An operation changes bytes of the blocks b to c and rehashes this range
   (compute_hash_block_range): leaf after leaf, each with its path. *)
update_blocks(b, c, bytes) ==
  /\ pc = "idle" /\ IsRange(b, c)
  /\ data' = [d \in Block |-> IF d \in b .. c THEN bytes ELSE data[d]]
  /\ pc' = "leaf" /\ first' = b /\ i' = b /\ last' = c
  /\ outcome' = "none"
  /\ UNCHANGED <<hash, n, level, torn>>

(* compute_hash_block_helper: the leaf of block i, ... *)
hash_leaf ==
  /\ pc = "leaf"
  /\ hash' = [hash EXCEPT ![leaf(i)] = Leaf(data[i])]
  /\ torn' = torn \ {leaf(i)}
  /\ pc' = "path" /\ n' = leaf(i)
  /\ UNCHANGED <<data, range, level, outcome>>

(* ... then its ancestors up to the root, ... *)
hash_parent ==
  /\ pc = "path" /\ ~ AtRoot(n)
  /\ hash' = [hash EXCEPT ![p_index(n)] = hash_node(p_index(n))]
  /\ torn' = torn \ {p_index(n)}
  /\ n' = p_index(n)
  /\ UNCHANGED <<data, pc, range, level, outcome>>

\* Mutant: the last block is left out.
MutNextBlockShort ==
  /\ pc = "path" /\ AtRoot(n)
  /\ IF i + 1 < last
     THEN /\ pc' = "leaf" /\ i' = i + 1 /\ n' = 0
          /\ UNCHANGED <<first, last, level, outcome>>
     ELSE Return("done")
  /\ UNCHANGED <<data, hash, torn>>

(* ... and the next block of the range. *)
next_block ==
  /\ pc = "path" /\ AtRoot(n)
  /\ IF i < last
     THEN /\ pc' = "leaf" /\ i' = i + 1 /\ n' = 0
          /\ UNCHANGED <<first, last, level, outcome>>
     ELSE Return("done")
  /\ UNCHANGED <<data, hash, torn>>

----------------------------------------------------------------------------
compute_hash_tree ==
  /\ pc = "idle" /\ pc' = "tree"
  /\ n' = leaf_offset /\ nodes_in_level' = leaf_offset + 1 /\ n_count' = 0
  /\ outcome' = "none"
  /\ UNCHANGED <<data, hash, range, torn>>

\* Mutant: the next level starts one node late.
MutTreeNodeLate ==
  LET above == nodes_in_level \div 2
  IN  /\ pc = "tree"
      /\ hash' = [hash EXCEPT ![n] = hash_node(n)] /\ torn' = torn \ {n}
      /\ IF n_count + 1 < nodes_in_level
         THEN /\ n' = n + 1 /\ n_count' = n_count + 1
              /\ UNCHANGED <<pc, nodes_in_level, range, outcome>>
         ELSE IF above > 0
         THEN /\ nodes_in_level' = above /\ n' = above /\ n_count' = 0
              /\ UNCHANGED <<pc, range, outcome>>
         ELSE Return("done")
      /\ UNCHANGED data

(* One node; after the last one of a level, the first one of the level above. *)
tree_node ==
  LET above == nodes_in_level \div 2
  IN  /\ pc = "tree"
      /\ hash' = [hash EXCEPT ![n] = hash_node(n)] /\ torn' = torn \ {n}
      /\ IF n_count + 1 < nodes_in_level
         THEN /\ n' = n + 1 /\ n_count' = n_count + 1
              /\ UNCHANGED <<pc, nodes_in_level, range, outcome>>
         ELSE IF above > 0
         THEN /\ nodes_in_level' = above /\ n' = above - 1 /\ n_count' = 0
              /\ UNCHANGED <<pc, range, outcome>>
         ELSE Return("done")
      /\ UNCHANGED data

----------------------------------------------------------------------------
verify_hash_range(b, c) ==
  /\ pc = "idle" /\ IsRange(b, c)
  /\ pc' = "verify" /\ first' = b /\ i' = b /\ last' = c /\ n' = leaf(b)
  /\ outcome' = "none"
  /\ UNCHANGED <<data, hash, level, torn>>

\* Mutant: a wrong hash is only noticed in the leaves.
MutVerifyLeavesOnly ==
  /\ pc = "verify"
  /\ IF n >= leaf_offset /\ ~ Agrees(n) THEN Return("rejected")
     ELSE IF ~ AtRoot(n)
     THEN n' = p_index(n) /\ UNCHANGED <<pc, range, level, outcome>>
     ELSE IF i < last
     THEN i' = i + 1 /\ n' = leaf(i + 1) /\ UNCHANGED <<pc, first, last, level, outcome>>
     ELSE Return("accepted")
  /\ UNCHANGED <<data, hash, torn>>

(* One node of a path; the first one that disagrees ends the verification. *)
verify_node ==
  /\ pc = "verify"
  /\ IF ~ Agrees(n) THEN Return("rejected")
     ELSE IF ~ AtRoot(n)
     THEN n' = p_index(n) /\ UNCHANGED <<pc, range, level, outcome>>
     ELSE IF i < last
     THEN i' = i + 1 /\ n' = leaf(i + 1) /\ UNCHANGED <<pc, first, last, level, outcome>>
     ELSE Return("accepted")
  /\ UNCHANGED <<data, hash, torn>>

----------------------------------------------------------------------------
(* Faults *)

(* Nodes that the loop at work has made wrong and will still come to. *)
Visited == {k \in Node : k > 2 * nodes_in_level - 2 \/ (nodes_in_level - 1 <= k /\ k < n)}

Pending ==
  CASE pc = "leaf" -> {leaf(b) : b \in i .. last}
    [] pc = "path" -> {p_index(n)} \cup {leaf(b) : b \in i + 1 .. last}
    [] pc = "tree" -> {p_index(k) : k \in Visited} \ Visited
    [] OTHER -> {}

(* The process is killed; another one opens the files. *)
kill ==
  /\ pc # "idle" /\ Cardinality(torn) <= MaxTorn /\ Return("none")
  /\ torn' = torn \cup (Pending \cap Node)
  /\ UNCHANGED <<data, hash>>

(* Bytes of a block change and nothing rehashes it: the copy of a relocated
   file (myfilesystem.c:367), or another program that writes file_data. *)
foreign_write(b, bytes) ==
  /\ pc = "idle" /\ Cardinality(torn) <= MaxTorn
  /\ data' = [data EXCEPT ![b] = bytes]
  /\ torn' = torn \cup {leaf(b)} /\ outcome' = "none"
  /\ UNCHANGED <<hash, pc, range, n, level>>

Init ==
  /\ data = [b \in Block |-> Blank]
  /\ hash = [k \in Node |-> Leaf(Blank)]
  /\ pc = "idle" /\ first = 0 /\ i = 0 /\ last = 0 /\ n = 0
  /\ nodes_in_level = 0 /\ n_count = 0
  /\ outcome = "none" /\ torn = {}

Step == hash_leaf \/ hash_parent \/ next_block \/ tree_node \/ verify_node

Next ==
  \/ Step
  \/ \E b, c \in Block, bytes \in Content : update_blocks(b, c, bytes)
  \/ compute_hash_tree
  \/ \E b, c \in Block : verify_hash_range(b, c)
  \/ kill
  \/ \E b \in Block, bytes \in Content : foreign_write(b, bytes)

(* The loops hold the lock and wait for nothing; calls are up to clients. *)
Spec == Init /\ [][Next]_vars /\ WF_vars(Step)
=============================================================================
