---------------------------- MODULE HashTreeProps --------------------------
(* What the hash tree promises, and why its leaves are enough for Vfs. *)
EXTENDS HashTree

(* p_index is applied at most Height times from a leaf. *)
Path(b) ==
  LET up[h \in 0 .. Height] == IF h = 0 THEN leaf(b) ELSE p_index(up[h - 1])
  IN  {up[h] : h \in 0 .. Height}

(* A node disagrees with its children, or a leaf with its block, only where
   a kill or a foreign write left it so, or where the loop at work will
   still come: an update leaves no wrong node behind on another path
   (compute_hash_block_helper), and compute_hash_tree visits children before
   parents.  Between two calls of a process that met no fault the tree is
   the one that compute_hash_tree would compute (runtest.c:856). *)
OnlyTornDisagree == \A k \in Node : ~ Agrees(k) => k \in torn \cup Pending

(* When an operation has rehashed a range, every node from its blocks to the
   root agrees, whatever kills left in the tree before: the blocks just
   written can be read (read_file:614). *)
UpdateRepairsPath ==
  [][pc = "path" /\ outcome' = "done" =>
       \A b \in first .. last : \A k \in Path(b) : Agrees(k)']_vars

(* When compute_hash_tree returns, the whole tree agrees, whatever it was
   before. *)
TreeRepairs ==
  [][pc = "tree" /\ outcome' = "done" => \A k \in Node : Agrees(k)']_vars

(* While no kill has torn an inner node, a verification returns what the
   leaves of its blocks alone decide: so Vfs needs no inner nodes, and no
   intact block is ever rejected. *)
LeavesSuffice ==
  [][pc = "verify" /\ outcome' \in {"accepted", "rejected"} /\ torn \subseteq leaf_offset .. tree_len - 1 =>
       (outcome' = "accepted" <=> \A b \in first .. last : Agrees(leaf(b)))]_vars

(* A verification that succeeds has seen the whole of every path: then the
   root, too, is what its children make it (runtest.c:683: a modified root
   makes every read fail). *)
AcceptsOnlyRightPaths ==
  [][pc = "verify" /\ outcome' = "accepted" =>
       \A b \in first .. last : \A k \in Path(b) : Agrees(k)]_vars

(* Every loop over the tree returns. *)
Returns == (pc # "idle") ~> (pc = "idle")
=============================================================================
