--------------------------- MODULE HashTreeProofs --------------------------
(***************************************************************************)
(* For a tree of every height and every hash function: the loops over      *)
(* hash_data leave no node wrong that a kill or a foreign write did not    *)
(* make wrong, and what they write and verify is right.                    *)
(***************************************************************************)
EXTENDS HashTreeProps, DataLemmas

----------------------------------------------------------------------------
(* The shape of the tree *)

(* No level is empty, and none is wider than that of the leaves. *)
LEMMA Widths ==
  /\ Height \in Nat /\ Width[0] = 1
  /\ \A k \in 0 .. Height : Width[k] \in Nat \ {0} /\ Width[k] <= Blocks
  /\ \A k \in 1 .. Height : Width[k] = 2 * Width[k - 1]
  <1> USE TreeAssumption
  <1>1. \A k \in 0 .. Height : Width[k] \in Nat \ {0}
    <2> DEFINE S == {k \in 0 .. Height : Width[k] \in Nat \ {0}}
    <2>1. 0 \in S
      OBVIOUS
    <2>2. ASSUME NEW m \in 0 .. Height - 1, m \in S PROVE m + 1 \in S
      <3>1. m + 1 \in 1 .. Height /\ (m + 1) - 1 = m
        OBVIOUS
      <3>2. Width[m + 1] = 2 * Width[m]
        BY <3>1
      <3> QED BY <2>2, <3>1, <3>2
    <2> HIDE DEF S
    <2>3. 0 .. Height \subseteq S
      BY <2>1, <2>2, BoundedInduction
    <2> QED BY <2>3 DEF S
  <1>2. \A k \in 0 .. Height : Width[Height - k] <= Blocks
    <2> DEFINE S == {k \in 0 .. Height : Width[Height - k] <= Blocks}
    <2>1. 0 \in S
      BY <1>1 DEF Blocks
    <2>2. ASSUME NEW m \in 0 .. Height - 1, m \in S PROVE m + 1 \in S
      <3>1. Height - m \in 1 .. Height /\ (Height - m) - 1 = Height - (m + 1)
            /\ Height - (m + 1) \in 0 .. Height /\ Height \in 0 .. Height
        OBVIOUS
      <3>2. Width[Height - m] = 2 * Width[Height - (m + 1)]
        BY <3>1
      <3>3. Width[Height - (m + 1)] \in Nat /\ Blocks \in Nat
        BY <1>1, <3>1 DEF Blocks
      <3> QED BY <2>2, <3>1, <3>2, <3>3
    <2> HIDE DEF S
    <2>3. 0 .. Height \subseteq S
      BY <2>1, <2>2, BoundedInduction
    <2> QED BY <2>3 DEF S
  <1>3. ASSUME NEW k \in 0 .. Height PROVE Width[k] <= Blocks
    <2>1. Height - k \in 0 .. Height /\ Height - (Height - k) = k
      OBVIOUS
    <2> QED BY <1>2, <2>1
  <1> QED BY <1>1, <1>3

(* The leaves are the nodes from Blocks - 1 on. *)
LEMMA TreeSize ==
  /\ Blocks \in Nat \ {0}
  /\ leaf_offset = Blocks - 1 /\ tree_len = 2 * Blocks - 1
  /\ leaf_offset \in Nat /\ tree_len \in Nat
  <1>1. Blocks \in Nat \ {0}
    BY Widths DEF Blocks
  <1>2. tree_len = 2 * Blocks - 1
    BY DEF tree_len
  <1>3. (2 * Blocks - 1) \div 2 = Blocks - 1
    BY <1>1
  <1> QED BY <1>1, <1>2, <1>3 DEF leaf_offset

(* Parents and children. *)
LEMMA Parents ==
  ASSUME NEW k \in Node
  PROVE  /\ AtRoot(k) <=> k = 0
         /\ p_index(k) \in Int /\ p_index(k) < k
         /\ k # 0 => p_index(k) \in Node /\ p_index(k) < leaf_offset
         /\ lc_index(k) > k /\ rc_index(k) > k
         /\ k < leaf_offset => lc_index(k) \in Node /\ rc_index(k) \in Node
         /\ \A j \in Node : j = lc_index(k) \/ j = rc_index(k) => p_index(j) = k
  <1> USE TreeSize
  <1>1. k \in Nat /\ k <= 2 * leaf_offset
    BY DEF Node
  <1>2. p_index(k) = IF k % 2 = 1 THEN k \div 2 ELSE k \div 2 - 1
    BY DEF p_index
  <1>3. /\ p_index(k) \in Int /\ p_index(k) < k
        /\ p_index(k) < 0 <=> k = 0
        /\ p_index(k) < leaf_offset \/ k = 0
    BY <1>1, <1>2
  <1>4. k # 0 => p_index(k) \in Node
    BY <1>1, <1>3 DEF Node
  <1>5. k < leaf_offset => lc_index(k) \in Node /\ rc_index(k) \in Node
    BY <1>1 DEF Node, lc_index, rc_index
  <1>6. ASSUME NEW j \in Node, j = lc_index(k) \/ j = rc_index(k) PROVE p_index(j) = k
    <2>1. CASE j = 2 * k + 1
      <3>1. j % 2 = 1 /\ j \div 2 = k
        BY <1>1, <2>1
      <3> QED BY <3>1 DEF p_index
    <2>2. CASE j = 2 * k + 2
      <3>1. j % 2 = 0 /\ j \div 2 = k + 1
        BY <1>1, <2>2
      <3> QED BY <1>1, <3>1 DEF p_index
    <2> QED BY <1>6, <2>1, <2>2 DEF lc_index, rc_index
  <1>7. lc_index(k) > k /\ rc_index(k) > k
    BY <1>1 DEF lc_index, rc_index
  <1> QED BY <1>3, <1>4, <1>5, <1>6, <1>7 DEF AtRoot

----------------------------------------------------------------------------
(* The path from a leaf to the root *)

IsPath(up, b) == up = [h \in 0 .. Height |-> IF h = 0 THEN leaf(b) ELSE p_index(up[h - 1])]

(* The recursion of Path has a solution. *)
LEMMA PathDefined ==
  ASSUME NEW b \in Block
  PROVE  \E up : IsPath(up, b) /\ Path(b) = {up[h] : h \in 0 .. Height}
  <1> DEFINE Is(g, m) == g = [h \in 0 .. m |-> IF h = 0 THEN leaf(b) ELSE p_index(g[h - 1])]
             S == {m \in 0 .. Height : \E g : Is(g, m)}
             up == CHOOSE g : Is(g, Height)
  <1> USE Widths
  <1>1. 0 \in S
    <2>1. Is([h \in 0 .. 0 |-> leaf(b)], 0)
      OBVIOUS
    <2>2. \E g : Is(g, 0)
      BY <2>1
    <2>3. 0 \in 0 .. Height
      OBVIOUS
    <2> HIDE DEF Is
    <2> QED BY <2>2, <2>3
  <1>2. ASSUME NEW m \in 0 .. Height - 1, m \in S PROVE m + 1 \in S
    <2>1. PICK g : Is(g, m)
      BY <1>2
    <2> DEFINE e == [h \in 0 .. m + 1 |-> IF h = 0 THEN leaf(b) ELSE p_index(g[h - 1])]
    <2>2. \A h \in 0 .. m : e[h] = g[h]
      BY <2>1
    <2>3. \A h \in 0 .. m + 1 : h # 0 => h - 1 \in 0 .. m
      OBVIOUS
    <2>4. Is(e, m + 1)
      BY <2>2, <2>3
    <2>5. m + 1 \in 0 .. Height
      OBVIOUS
    <2> QED BY <2>4, <2>5
  <1>3. \E g : Is(g, Height)
    <2> HIDE DEF S
    <2>1. 0 .. Height \subseteq S
      BY <1>1, <1>2, BoundedInduction
    <2>2. Height \in S
      BY <2>1
    <2> QED BY <2>2 DEF S
  <1>4. Is(up, Height)
    BY <1>3
  <1>5. Path(b) = {up[h] : h \in 0 .. Height}
    BY DEF Path
  <1> QED BY <1>4, <1>5, ZenonT(30) DEF IsPath

(* Node h of a path is in the level that is h levels above the leaves. *)
LEMMA PathLevels ==
  ASSUME NEW b \in Block, NEW up, IsPath(up, b)
  PROVE  /\ up[0] = leaf(b)
         /\ \A h \in 0 .. Height - 1 : up[h + 1] = p_index(up[h])
         /\ \A h \in 0 .. Height :
              up[h] \in Width[Height - h] - 1 .. 2 * Width[Height - h] - 2
  <1> DEFINE S == {h \in 0 .. Height :
                     up[h] \in Width[Height - h] - 1 .. 2 * Width[Height - h] - 2}
  <1> USE Widths, TreeSize
  <1>1. up[0] = leaf(b) /\ leaf(b) \in Blocks - 1 .. 2 * Blocks - 2
    BY DEF IsPath, leaf, Block
  <1>2. ASSUME NEW h \in 0 .. Height - 1 PROVE up[h + 1] = p_index(up[h])
    <2>1. h + 1 \in 0 .. Height /\ h + 1 # 0 /\ (h + 1) - 1 = h
      OBVIOUS
    <2> QED BY <2>1 DEF IsPath
  <1>3. 0 \in S
    BY <1>1 DEF Blocks
  <1>4. ASSUME NEW m \in 0 .. Height - 1, m \in S PROVE m + 1 \in S
    <2>1. /\ Height - m \in 1 .. Height /\ (Height - m) - 1 = Height - (m + 1)
          /\ Height - (m + 1) \in 0 .. Height /\ m + 1 \in 0 .. Height
      OBVIOUS
    <2> DEFINE w == Width[Height - (m + 1)]
    <2>2. w \in Nat \ {0} /\ Width[Height - m] = 2 * w
      BY <2>1
    <2> HIDE DEF w
    <2>3. up[m] \in 2 * w - 1 .. 4 * w - 2
      BY <1>4, <2>2
    <2>4. p_index(up[m]) \in w - 1 .. 2 * w - 2
      BY <2>2, <2>3 DEF p_index
    <2> QED BY <1>2, <2>1, <2>4 DEF w
  <1> HIDE DEF S
  <1>5. 0 .. Height \subseteq S
    BY <1>3, <1>4, BoundedInduction
  <1> QED BY <1>1, <1>2, <1>5 DEF S

(* The nodes of a path: the leaf is the last of them, the parent of each but
   the root is the next one before it, and no other is a leaf. *)
LEMMA PathNodes ==
  ASSUME NEW b \in Block
  PROVE  /\ leaf(b) \in Node /\ leaf(b) \in Path(b)
         /\ \A k \in Path(b) : k \in Node /\ k <= leaf(b)
         /\ \A k \in Path(b) : k # 0 => p_index(k) \in Path(b)
         /\ \A j, k \in Path(b) : j < k => j <= p_index(k)
         /\ \A k \in Path(b) : k >= leaf_offset => k = leaf(b)
  <1> USE Widths, TreeSize
  <1>1. PICK up : IsPath(up, b) /\ Path(b) = {up[h] : h \in 0 .. Height}
    BY PathDefined
  <1>2. /\ up[0] = leaf(b)
        /\ \A h \in 0 .. Height - 1 : up[h + 1] = p_index(up[h])
        /\ \A h \in 0 .. Height :
             up[h] \in Width[Height - h] - 1 .. 2 * Width[Height - h] - 2
    BY <1>1, PathLevels
  <1>3. ASSUME NEW h \in 0 .. Height
        PROVE  up[h] \in Node /\ (h > 0 => up[h] < leaf_offset) /\ (h = Height <=> up[h] = 0)
    <2>1. Height - h \in 0 .. Height /\ Width[Height - h] \in Nat \ {0} /\ Width[Height - h] <= Blocks
      OBVIOUS
    <2>2. up[h] \in Width[Height - h] - 1 .. 2 * Width[Height - h] - 2
      BY <1>2
    <2>3. up[h] \in Node
      BY <2>1, <2>2 DEF Node
    <2>4. h < Height => Width[Height - h] >= 2
      <3> SUFFICES ASSUME h < Height PROVE Width[Height - h] >= 2
        OBVIOUS
      <3>1. Height - h \in 1 .. Height /\ Height - h - 1 \in 0 .. Height
        OBVIOUS
      <3>2. Width[Height - h] = 2 * Width[Height - h - 1] /\ Width[Height - h - 1] \in Nat \ {0}
        BY <3>1
      <3> QED BY <3>2
    <2>5. h = Height => Width[Height - h] = 1
      OBVIOUS
    <2>6. h = Height <=> up[h] = 0
      BY <2>1, <2>2, <2>4, <2>5
    <2>7. h > 0 => up[h] < leaf_offset
      <3> SUFFICES ASSUME h > 0 PROVE up[h] < leaf_offset
        OBVIOUS
      <3>1. /\ Height - h + 1 \in 1 .. Height /\ Height - h + 1 \in 0 .. Height
            /\ (Height - h + 1) - 1 = Height - h
        OBVIOUS
      <3>2. Width[Height - h + 1] = 2 * Width[Height - h] /\ Width[Height - h + 1] <= Blocks
        BY <3>1
      <3> QED BY <2>1, <2>2, <3>2
    <2> QED BY <2>3, <2>6, <2>7
  <1>4. \A h \in 0 .. Height - 1 : up[h + 1] < up[h]
    <2> SUFFICES ASSUME NEW h \in 0 .. Height - 1 PROVE up[h + 1] < up[h]
      OBVIOUS
    <2>1. h \in 0 .. Height
      OBVIOUS
    <2>2. up[h] \in Node
      BY <1>3, <2>1
    <2>3. p_index(up[h]) < up[h]
      BY <2>2, Parents
    <2> QED BY <1>2, <2>3
  <1>5. ASSUME NEW g \in 0 .. Height, NEW h \in 0 .. Height, g < h
        PROVE  up[h] <= up[g + 1]
    <2> DEFINE S == {m \in 0 .. Height - (g + 1) : up[g + 1 + m] <= up[g + 1]}
    <2>0. Height - (g + 1) \in Nat /\ g + 1 \in 0 .. Height
      BY <1>5
    <2>1. 0 \in S
      BY <1>3, <2>0 DEF Node
    <2>2. ASSUME NEW m \in 0 .. (Height - (g + 1)) - 1, m \in S PROVE m + 1 \in S
      <3>1. /\ g + 1 + m \in 0 .. Height - 1 /\ (g + 1 + m) + 1 = g + 1 + (m + 1)
            /\ g + 1 + (m + 1) \in 0 .. Height /\ g + 1 + m \in 0 .. Height
            /\ m + 1 \in 0 .. Height - (g + 1)
        BY <2>0
      <3>2. up[g + 1 + (m + 1)] < up[g + 1 + m]
        BY <1>4, <3>1
      <3>3. up[g + 1 + (m + 1)] \in Int /\ up[g + 1 + m] \in Int /\ up[g + 1] \in Int
        BY <1>3, <2>0, <3>1 DEF Node
      <3>4. up[g + 1 + m] <= up[g + 1]
        BY <2>2
      <3> QED BY <3>1, <3>2, <3>3, <3>4
    <2>3. h - (g + 1) \in 0 .. Height - (g + 1) /\ g + 1 + (h - (g + 1)) = h
      BY <1>5
    <2> HIDE DEF S
    <2>4. 0 .. Height - (g + 1) \subseteq S
      BY <2>0, <2>1, <2>2, BoundedInduction
    <2>5. h - (g + 1) \in S
      BY <2>3, <2>4
    <2> QED BY <2>3, <2>5 DEF S
  <1>6. ASSUME NEW h \in 0 .. Height, h # 0 PROVE up[h] < up[0]
    <2>1. 0 \in 0 .. Height /\ 0 < h /\ 0 \in 0 .. Height - 1 /\ 0 + 1 \in 0 .. Height
      BY <1>6
    <2>2. up[h] <= up[1] /\ up[1] < up[0]
      BY <1>4, <1>5, <2>1
    <2>3. up[h] \in Int /\ up[1] \in Int /\ up[0] \in Int
      BY <1>3, <2>1 DEF Node
    <2> QED BY <2>2, <2>3
  <1>7. leaf(b) \in Node /\ leaf(b) \in Path(b)
    <2>1. 0 \in 0 .. Height
      OBVIOUS
    <2> QED BY <1>1, <1>2, <1>3, <2>1
  <1>8. ASSUME NEW k \in Path(b) PROVE k \in Node /\ k <= leaf(b) /\ (k >= leaf_offset => k = leaf(b))
    <2>1. PICK h \in 0 .. Height : k = up[h]
      BY <1>1
    <2>2. CASE h = 0
      BY <1>2, <1>7, <2>1, <2>2 DEF Node
    <2>3. CASE h # 0
      <3>1. k \in Node /\ k < leaf_offset /\ k < leaf(b)
        BY <1>2, <1>3, <1>6, <2>1, <2>3
      <3> QED BY <1>7, <3>1 DEF Node
    <2> QED BY <2>2, <2>3
  <1>9. ASSUME NEW k \in Path(b), k # 0 PROVE p_index(k) \in Path(b)
    <2>1. PICK h \in 0 .. Height : k = up[h]
      BY <1>1
    <2>2. h \in 0 .. Height - 1 /\ h + 1 \in 0 .. Height
      BY <1>3, <1>9, <2>1
    <2>3. p_index(k) = up[h + 1]
      BY <1>2, <2>1, <2>2
    <2> QED BY <1>1, <2>2, <2>3
  <1>10. ASSUME NEW j \in Path(b), NEW k \in Path(b), j < k PROVE j <= p_index(k)
    <2>1. PICK h \in 0 .. Height : j = up[h]
      BY <1>1
    <2>2. PICK g \in 0 .. Height : k = up[g]
      BY <1>1
    <2>3. g < h
      <3> SUFFICES ASSUME h < g \/ h = g PROVE FALSE
        OBVIOUS
      <3>1. j \in Int /\ k \in Int
        BY <1>8 DEF Node
      <3>2. CASE h = g
        BY <1>10, <2>1, <2>2, <3>1, <3>2
      <3>3. CASE h < g
        <4>1. h \in 0 .. Height - 1 /\ h + 1 \in 0 .. Height
          BY <3>3
        <4>2. up[g] <= up[h + 1] /\ up[h + 1] < up[h]
          BY <1>4, <1>5, <3>3, <4>1
        <4>3. up[h + 1] \in Int
          BY <1>3, <4>1 DEF Node
        <4> QED BY <1>10, <2>1, <2>2, <3>1, <4>2, <4>3
      <3> QED BY <3>2, <3>3
    <2>4. g \in 0 .. Height - 1
      BY <2>3
    <2> QED BY <1>2, <1>5, <2>1, <2>2, <2>3, <2>4
  <1> QED BY <1>7, <1>8, <1>9, <1>10

----------------------------------------------------------------------------
(* The inductive invariant *)

Shape ==
  /\ data = [b \in Block |-> data[b]] /\ hash = [k \in Node |-> hash[k]]
  /\ torn \subseteq Node
  /\ pc \in {"idle", "leaf", "path", "tree", "verify"}

(* The loops over a range are at one of its blocks, and on its path. *)
InRange ==
  pc \in {"leaf", "path", "verify"} =>
    /\ first \in Block /\ last \in Block /\ i \in first .. last
    /\ pc # "leaf" => n \in Path(i)

(* They leave the paths of the blocks before i right, but for the node that
   the update changes next, ... *)
EarlierRight ==
  pc \in {"leaf", "path", "verify"} =>
    \A b \in first .. i - 1 : \A k \in Path(b) : Agrees(k) \/ (pc = "path" /\ k = p_index(n))

(* ... and that of i from the leaf up to n. *)
BelowRight ==
  pc \in {"path", "verify"} =>
    \A k \in Path(i) : k > n \/ (pc = "path" /\ k = n) => Agrees(k)

(* compute_hash_tree is in one of the levels, and those below are right. *)
InLevel ==
  /\ \E k \in 0 .. Height : nodes_in_level = Width[k]
  /\ n_count \in 0 .. nodes_in_level - 1 /\ n = nodes_in_level - 1 + n_count

TreeRight == pc = "tree" => InLevel /\ \A k \in Visited : Agrees(k)

IInv == Shape /\ InRange /\ EarlierRight /\ BelowRight /\ TreeRight /\ OnlyTornDisagree

(* What a write of a node changes: the node agrees, its parent may not. *)
LEMMA SetNode ==
  ASSUME Shape, NEW m \in Node, hash' = [hash EXCEPT ![m] = hash_node(m)], UNCHANGED data
  PROVE  /\ hash' = [k \in Node |-> hash'[k]]
         /\ \A k \in Node : k = m => Agrees(k)'
         /\ \A k \in Node : k # m /\ k # p_index(m) => (Agrees(k)' <=> Agrees(k))
  <1>1. hash' = [k \in Node |-> IF k = m THEN hash_node(m) ELSE hash[k]]
    BY DEF Shape
  <1>2. ASSUME NEW k \in Node, k # p_index(m) PROVE hash_node(k)' = hash_node(k)
    <2>1. CASE k < leaf_offset
      <3>1. lc_index(k) \in Node /\ rc_index(k) \in Node
        BY <2>1, Parents
      <3>2. lc_index(k) # m /\ rc_index(k) # m
        BY <1>2, Parents
      <3>3. hash'[lc_index(k)] = hash[lc_index(k)] /\ hash'[rc_index(k)] = hash[rc_index(k)]
        BY <1>1, <3>1, <3>2
      <3> QED BY <3>3 DEF hash_node
    <2>2. CASE ~ (k < leaf_offset)
      BY <2>2 DEF hash_node
    <2> QED BY <2>1, <2>2
  <1>3. m # p_index(m)
    <2>1. p_index(m) < m /\ m \in Int /\ p_index(m) \in Int
      BY Parents DEF Node
    <2> QED BY <2>1
  <1>4. Agrees(m)'
    <2>1. hash'[m] = hash_node(m)
      BY <1>1
    <2> QED BY <1>2, <1>3, <2>1 DEF Agrees
  <1>5. ASSUME NEW k \in Node, k # m, k # p_index(m) PROVE Agrees(k)' <=> Agrees(k)
    <2>1. hash'[k] = hash[k]
      BY <1>1, <1>5
    <2> QED BY <1>2, <1>5, <2>1 DEF Agrees
  <1> QED BY <1>1, <1>4, <1>5

(* What a change of blocks changes: their leaves may not agree. *)
LEMMA SetData ==
  ASSUME NEW B, B \subseteq Block, UNCHANGED hash, \A b \in Block \ B : data'[b] = data[b]
  PROVE  \A k \in Node : (\A b \in B : k # leaf(b)) => (Agrees(k)' <=> Agrees(k))
  <1> SUFFICES ASSUME NEW k \in Node, \A b \in B : k # leaf(b)
               PROVE  hash_node(k)' = hash_node(k)
    BY DEF Agrees
  <1>1. CASE k < leaf_offset
    BY <1>1 DEF hash_node
  <1>2. CASE ~ (k < leaf_offset)
    <2>1. k - leaf_offset \in Block /\ leaf(k - leaf_offset) = k
      BY <1>2, TreeSize DEF Node, Block, leaf
    <2>2. k - leaf_offset \notin B
      BY <2>1
    <2>3. data'[k - leaf_offset] = data[k - leaf_offset]
      BY <2>1, <2>2
    <2> QED BY <1>2, <2>3 DEF hash_node
  <1> QED BY <1>1, <1>2

(* Three blank files make a right tree. *)
LEMMA InitHolds == Init => IInv
  <1> SUFFICES ASSUME Init PROVE IInv
    OBVIOUS
  <1>1. Shape /\ pc = "idle"
    BY DEF Init, Shape
  <1>2. ASSUME NEW k \in Node PROVE Agrees(k)
    <2>1. CASE k < leaf_offset
      <3>1. lc_index(k) \in Node /\ rc_index(k) \in Node
        BY <2>1, Parents
      <3>2. hash_node(k) = Join(Leaf(Blank), Leaf(Blank))
        BY <2>1, <3>1 DEF hash_node, Init
      <3> QED BY <3>2, TreeAssumption DEF Agrees, Init
    <2>2. CASE ~ (k < leaf_offset)
      <3>1. k - leaf_offset \in Block
        BY <2>2, TreeSize DEF Node, Block
      <3>2. hash_node(k) = Leaf(Blank)
        BY <2>2, <3>1 DEF hash_node, Init
      <3> QED BY <3>2 DEF Agrees, Init
    <2> QED BY <2>1, <2>2
  <1> QED
    BY <1>1, <1>2 DEF IInv, InRange, EarlierRight, BelowRight, TreeRight, OnlyTornDisagree

(* When no loop is at work, only torn nodes can disagree. *)
LEMMA IdleKeeps ==
  ASSUME Shape', pc' = "idle",
         \A k \in Node : ~ Agrees(k)' => k \in torn'
  PROVE  IInv'
  <1>1. InRange' /\ EarlierRight' /\ BelowRight' /\ TreeRight'
    BY DEF InRange, EarlierRight, BelowRight, TreeRight
  <1>2. OnlyTornDisagree'
    BY DEF OnlyTornDisagree
  <1> QED BY <1>1, <1>2 DEF IInv

(* A call changes bytes and begins to rehash them. *)
LEMMA UpdateBegins ==
  ASSUME IInv, NEW b, NEW c, NEW bytes, update_blocks(b, c, bytes)
  PROVE  IInv'
  <1>1. /\ pc = "idle" /\ b \in Block /\ c \in Block /\ b <= c
        /\ data' = [d \in Block |-> IF d \in b .. c THEN bytes ELSE data[d]]
        /\ pc' = "leaf" /\ first' = b /\ i' = b /\ last' = c
        /\ UNCHANGED <<hash, torn>>
    BY DEF update_blocks, IsRange
  <1>2. Shape'
    BY <1>1 DEF IInv, Shape
  <1>3. b \in b .. c /\ b .. b - 1 = {}
    BY <1>1 DEF Block
  <1>4. InRange' /\ EarlierRight' /\ BelowRight' /\ TreeRight'
    BY <1>1, <1>3 DEF InRange, EarlierRight, BelowRight, TreeRight
  <1>5. ASSUME NEW k \in Node, ~ Agrees(k)' PROVE k \in (torn \cup Pending)'
    <2>1. Pending' = {leaf(d) : d \in b .. c}
      BY <1>1 DEF Pending
    <2>2. CASE \E d \in b .. c : k = leaf(d)
      BY <2>1, <2>2
    <2>3. CASE \A d \in b .. c : k # leaf(d)
      <3>1. b .. c \subseteq Block
        BY <1>1, TreeSize DEF Block
      <3>4. \A d \in Block \ (b .. c) : data'[d] = data[d]
        BY <1>1
      <3>2. ~ Agrees(k)
        BY <1>1, <1>5, <2>3, <3>1, <3>4, SetData
      <3>3. Pending = {}
        BY <1>1 DEF Pending
      <3> QED BY <1>1, <3>2, <3>3 DEF IInv, OnlyTornDisagree
    <2> QED BY <2>2, <2>3
  <1> QED BY <1>2, <1>4, <1>5 DEF IInv, OnlyTornDisagree

(* The leaf of a block is written; the paths of earlier blocks may now be
   wrong at its parent, which is next. *)
LEMMA LeafStep == IInv /\ hash_leaf => IInv'
  <1> SUFFICES ASSUME IInv, hash_leaf PROVE IInv'
    OBVIOUS
  <1>1. /\ pc = "leaf" /\ pc' = "path" /\ n' = leaf(i) /\ torn' = torn \ {leaf(i)}
        /\ hash' = [hash EXCEPT ![leaf(i)] = Leaf(data[i])]
        /\ UNCHANGED <<data, first, i, last>>
    BY DEF hash_leaf, range
  <1>2. i \in Block /\ first \in Block /\ last \in Block /\ i \in first .. last
    BY <1>1, TreeSize DEF IInv, InRange, Block
  <1>3. leaf(i) \in Node /\ leaf(i) \in Path(i) /\ \A k \in Path(i) : k \in Node /\ k <= leaf(i)
    BY <1>2, PathNodes
  <1>4. hash_node(leaf(i)) = Leaf(data[i])
    <2>1. ~ (leaf(i) < leaf_offset) /\ leaf(i) - leaf_offset = i
      BY <1>2, TreeSize DEF leaf, Block
    <2> QED BY <2>1 DEF hash_node
  <1>5. /\ hash' = [k \in Node |-> hash'[k]]
        /\ \A k \in Node : k = leaf(i) => Agrees(k)'
        /\ \A k \in Node : k # leaf(i) /\ k # p_index(leaf(i)) => (Agrees(k)' <=> Agrees(k))
    BY <1>1, <1>3, <1>4, SetNode DEF IInv
  <1>6. Shape' /\ InRange'
    BY <1>1, <1>2, <1>3, <1>5 DEF IInv, Shape, InRange
  <1>7. EarlierRight'
    <2> SUFFICES ASSUME NEW b \in first .. i - 1, NEW k \in Path(b)
                 PROVE  Agrees(k)' \/ k = p_index(leaf(i))
      BY <1>1 DEF EarlierRight
    <2>1. b \in Block /\ k \in Node
      <3>1. b \in Block
        BY <1>2, TreeSize DEF Block
      <3> QED BY <3>1, PathNodes
    <2>2. Agrees(k)
      BY <1>1 DEF IInv, EarlierRight
    <2> QED BY <1>5, <2>1, <2>2
  <1>8. BelowRight'
    <2> SUFFICES ASSUME NEW k \in Path(i), k > leaf(i) \/ k = leaf(i) PROVE Agrees(k)'
      BY <1>1 DEF BelowRight
    <2>1. k = leaf(i) /\ k \in Node
      BY <1>3 DEF Node
    <2> QED BY <1>5, <2>1
  <1>9. TreeRight'
    BY <1>1 DEF TreeRight
  <1>10. ASSUME NEW k \in Node, ~ Agrees(k)' PROVE k \in (torn \cup Pending)'
    <2>1. Pending' = {p_index(leaf(i))} \cup {leaf(b) : b \in i + 1 .. last}
      BY <1>1 DEF Pending
    <2>2. Pending = {leaf(b) : b \in i .. last}
      BY <1>1 DEF Pending
    <2>3. k # leaf(i)
      BY <1>5, <1>10
    <2>4. CASE k = p_index(leaf(i))
      BY <2>1, <2>4
    <2>5. CASE k # p_index(leaf(i))
      <3>1. k \in torn \cup Pending
        BY <1>5, <1>10, <2>3, <2>5 DEF IInv, OnlyTornDisagree
      <3>2. \A b \in i .. last : b = i \/ b \in i + 1 .. last
        BY <1>2 DEF Block
      <3> QED BY <1>1, <2>1, <2>2, <2>3, <3>1, <3>2
    <2> QED BY <2>4, <2>5
  <1> QED BY <1>6, <1>7, <1>8, <1>9, <1>10 DEF IInv, OnlyTornDisagree

(* The parent of the node just written is written. *)
LEMMA ParentStep == IInv /\ hash_parent => IInv'
  <1> SUFFICES ASSUME IInv, hash_parent PROVE IInv'
    OBVIOUS
  <1> DEFINE p == p_index(n)
  <1>1. /\ pc = "path" /\ pc' = "path" /\ ~ AtRoot(n) /\ n' = p /\ torn' = torn \ {p}
        /\ hash' = [hash EXCEPT ![p] = hash_node(p)]
        /\ UNCHANGED <<data, first, i, last>>
    BY DEF hash_parent, range
  <1>2. i \in Block /\ first \in Block /\ last \in Block /\ i \in first .. last /\ n \in Path(i)
    BY <1>1, TreeSize DEF IInv, InRange, Block
  <1>3. n \in Node /\ n # 0 /\ p \in Node /\ p \in Path(i) /\ p < n
    <2>1. n \in Node
      BY <1>2, PathNodes
    <2>2. n # 0 /\ p < n
      BY <1>1, <2>1, Parents
    <2> QED BY <1>2, <2>1, <2>2, Parents, PathNodes
  <1>4. /\ hash' = [k \in Node |-> hash'[k]]
        /\ \A k \in Node : k = p => Agrees(k)'
        /\ \A k \in Node : k # p /\ k # p_index(p) => (Agrees(k)' <=> Agrees(k))
    <2> HIDE DEF p
    <2> QED BY <1>1, <1>3, SetNode DEF IInv
  <1>5. p_index(p) < p
    BY <1>3, Parents
  <1> HIDE DEF p
  <1>6. Shape' /\ InRange'
    BY <1>1, <1>2, <1>3, <1>4 DEF IInv, Shape, InRange
  <1>7. EarlierRight'
    <2> SUFFICES ASSUME NEW b \in first .. i - 1, NEW k \in Path(b)
                 PROVE  Agrees(k)' \/ k = p_index(p)
      BY <1>1 DEF EarlierRight
    <2>1. b \in Block /\ k \in Node
      <3>1. b \in Block
        BY <1>2, TreeSize DEF Block
      <3> QED BY <3>1, PathNodes
    <2>2. Agrees(k) \/ k = p
      BY <1>1 DEF IInv, EarlierRight, p
    <2> QED BY <1>4, <2>1, <2>2
  <1>8. BelowRight'
    <2> SUFFICES ASSUME NEW k \in Path(i), k > p \/ k = p PROVE Agrees(k)'
      BY <1>1 DEF BelowRight
    <2>1. CASE k = p
      BY <1>3, <1>4, <2>1
    <2>2. CASE k > p
      <3>1. k \in Node /\ ~ (k < n)
        <4>1. k \in Node
          BY <1>2, PathNodes
        <4>2. k < n => k <= p
          BY <1>2, PathNodes DEF p
        <4> QED BY <1>3, <2>2, <4>1, <4>2 DEF Node
      <3>2. k > n \/ k = n
        BY <1>3, <3>1 DEF Node
      <3>3. Agrees(k)
        BY <1>1, <3>2 DEF IInv, BelowRight
      <3>4. k # p /\ k # p_index(p)
        BY <1>3, <1>5, <2>2, <3>1, Parents DEF Node
      <3> QED BY <1>4, <3>1, <3>3, <3>4
    <2> QED BY <2>1, <2>2
  <1>9. TreeRight'
    BY <1>1 DEF TreeRight
  <1>10. ASSUME NEW k \in Node, ~ Agrees(k)' PROVE k \in (torn \cup Pending)'
    <2>1. Pending' = {p_index(p)} \cup {leaf(b) : b \in i + 1 .. last}
      BY <1>1 DEF Pending
    <2>2. Pending = {p} \cup {leaf(b) : b \in i + 1 .. last}
      BY <1>1 DEF Pending, p
    <2>3. k # p
      BY <1>4, <1>10
    <2>4. CASE k = p_index(p)
      BY <2>1, <2>4
    <2>5. CASE k # p_index(p)
      <3>1. k \in torn \cup Pending
        BY <1>4, <1>10, <2>3, <2>5 DEF IInv, OnlyTornDisagree
      <3> QED BY <1>1, <2>1, <2>2, <2>3, <3>1
    <2> QED BY <2>4, <2>5
  <1> QED BY <1>6, <1>7, <1>8, <1>9, <1>10 DEF IInv, OnlyTornDisagree

(* At the root every path up to that of i is right. *)
LEMMA RootReached ==
  ASSUME IInv, pc = "path", AtRoot(n)
  PROVE  /\ first \in Block /\ last \in Block /\ i \in first .. last /\ i \in Block
         /\ n = 0
         /\ \A b \in first .. i : \A k \in Path(b) : k \in Node /\ Agrees(k)
         /\ Pending \cap Node = {leaf(b) : b \in i + 1 .. last} \cap Node
  <1>1. i \in Block /\ first \in Block /\ last \in Block /\ i \in first .. last /\ n \in Path(i)
    BY TreeSize DEF IInv, InRange, Block
  <1>2. n \in Node
    BY <1>1, PathNodes
  <1>3. n = 0 /\ p_index(n) \notin Node
    BY <1>2, Parents DEF AtRoot, Node
  <1>4. ASSUME NEW b \in first .. i, NEW k \in Path(b) PROVE k \in Node /\ Agrees(k)
    <2>1. b \in Block
      BY <1>1, TreeSize DEF Block
    <2>2. k \in Node
      BY <2>1, PathNodes
    <2>3. CASE b = i
      <3>1. k > n \/ k = n
        BY <1>3, <2>2 DEF Node
      <3> QED BY <2>2, <2>3, <3>1 DEF IInv, BelowRight
    <2>4. CASE b # i
      <3>1. b \in first .. i - 1
        BY <1>1, <2>4 DEF Block
      <3>2. Agrees(k) \/ k = p_index(n)
        BY <3>1 DEF IInv, EarlierRight
      <3> QED BY <1>3, <2>2, <3>2
    <2> QED BY <2>3, <2>4
  <1>5. Pending \cap Node = {leaf(b) : b \in i + 1 .. last} \cap Node
    BY <1>3 DEF Pending
  <1> QED BY <1>1, <1>3, <1>4, <1>5

(* The next block of the range, or the end. *)
LEMMA NextBlockStep == IInv /\ next_block => IInv'
  <1> SUFFICES ASSUME IInv, next_block PROVE IInv'
    OBVIOUS
  <1>1. pc = "path" /\ AtRoot(n) /\ UNCHANGED <<data, hash, torn>>
    BY DEF next_block
  <1>2. /\ first \in Block /\ last \in Block /\ i \in first .. last /\ i \in Block
        /\ \A b \in first .. i : \A k \in Path(b) : k \in Node /\ Agrees(k)
        /\ Pending \cap Node = {leaf(b) : b \in i + 1 .. last} \cap Node
    BY <1>1, RootReached
  <1>3. \A k \in Node : Agrees(k)' <=> Agrees(k)
    BY <1>1 DEF Agrees, hash_node
  <1>4. CASE i < last
    <2>1. pc' = "leaf" /\ i' = i + 1 /\ UNCHANGED <<first, last>>
      BY <1>4 DEF next_block
    <2>2. Shape' /\ InRange' /\ BelowRight' /\ TreeRight'
      BY <1>1, <1>2, <1>4, <2>1 DEF IInv, Shape, InRange, BelowRight, TreeRight, Block
    <2>3. EarlierRight'
      <3> SUFFICES ASSUME NEW b \in first .. (i + 1) - 1, NEW k \in Path(b) PROVE Agrees(k)'
        BY <2>1 DEF EarlierRight
      <3>1. b \in first .. i
        BY <1>2 DEF Block
      <3> QED BY <1>2, <1>3, <3>1
    <2>4. Pending' = {leaf(b) : b \in i + 1 .. last}
      BY <2>1 DEF Pending
    <2>5. OnlyTornDisagree'
      BY <1>1, <1>2, <1>3, <2>4 DEF IInv, OnlyTornDisagree
    <2> QED BY <2>2, <2>3, <2>5 DEF IInv
  <1>5. CASE ~ (i < last)
    <2>1. pc' = "idle"
      BY <1>5 DEF next_block, Return
    <2>2. i + 1 .. last = {}
      BY <1>2, <1>5 DEF Block
    <2>3. Pending \cap Node = {}
      BY <1>2, <2>2
    <2>4. Shape'
      BY <1>1, <2>1 DEF IInv, Shape
    <2>5. \A k \in Node : ~ Agrees(k)' => k \in torn'
      BY <1>1, <1>3, <2>3 DEF IInv, OnlyTornDisagree
    <2> QED BY <2>1, <2>4, <2>5, IdleKeeps
  <1> QED BY <1>4, <1>5

(* compute_hash_tree begins with the leaves. *)
LEMMA TreeBegins == IInv /\ compute_hash_tree => IInv'
  <1> SUFFICES ASSUME IInv, compute_hash_tree PROVE IInv'
    OBVIOUS
  <1> USE TreeSize
  <1>1. /\ pc = "idle" /\ pc' = "tree"
        /\ n' = leaf_offset /\ nodes_in_level' = leaf_offset + 1 /\ n_count' = 0
        /\ UNCHANGED <<data, hash, torn>>
    BY DEF compute_hash_tree
  <1>2. InLevel'
    <2>1. Height \in 0 .. Height /\ Width[Height] = leaf_offset + 1
      BY Widths DEF Blocks
    <2> QED BY <1>1, <2>1 DEF InLevel
  <1>3. \A k \in Node : Agrees(k)' <=> Agrees(k)
    BY <1>1 DEF Agrees, hash_node
  <1>4. Visited' = {}
    BY <1>1 DEF Visited, Node
  <1>5. OnlyTornDisagree'
    BY <1>1, <1>3 DEF IInv, OnlyTornDisagree, Pending
  <1> QED
    BY <1>1, <1>2, <1>4, <1>5 DEF IInv, Shape, InRange, EarlierRight, BelowRight, TreeRight

(* Where compute_hash_tree is. *)
LEMMA LevelBounds ==
  ASSUME InLevel
  PROVE  /\ nodes_in_level \in Nat \ {0} /\ nodes_in_level <= Blocks
         /\ n \in Node /\ nodes_in_level - 1 <= n /\ n <= 2 * nodes_in_level - 2
         /\ n_count \in Nat /\ n = nodes_in_level - 1 + n_count
         /\ n_count + 1 < nodes_in_level <=> n < 2 * nodes_in_level - 2
         /\ n \notin Visited /\ p_index(n) \notin Visited
  <1> USE TreeSize
  <1>1. nodes_in_level \in Nat \ {0} /\ nodes_in_level <= Blocks
    BY Widths DEF InLevel
  <1>2. /\ n_count \in 0 .. nodes_in_level - 1 /\ n = nodes_in_level - 1 + n_count
    BY DEF InLevel
  <1>3. n \in Node /\ nodes_in_level - 1 <= n /\ n <= 2 * nodes_in_level - 2
    BY <1>1, <1>2 DEF Node
  <1>4. p_index(n) < nodes_in_level - 1 /\ p_index(n) \in Int
    BY <1>1, <1>3 DEF p_index, Node
  <1>5. n \notin Visited /\ p_index(n) \notin Visited
    BY <1>1, <1>3, <1>4 DEF Visited, Node
  <1> QED BY <1>1, <1>2, <1>3, <1>5

(* One node of the whole tree. *)
LEMMA TreeStep == IInv /\ tree_node => IInv'
  <1> SUFFICES ASSUME IInv, tree_node PROVE IInv'
    OBVIOUS
  <1> USE TreeSize
  <1>1. /\ pc = "tree" /\ hash' = [hash EXCEPT ![n] = hash_node(n)] /\ torn' = torn \ {n}
        /\ UNCHANGED data
    BY DEF tree_node
  <1>2. InLevel /\ \A k \in Visited : Agrees(k)
    BY <1>1 DEF IInv, TreeRight
  <1>3. /\ nodes_in_level \in Nat \ {0} /\ nodes_in_level <= Blocks
        /\ n \in Node /\ nodes_in_level - 1 <= n /\ n <= 2 * nodes_in_level - 2
        /\ n_count \in Nat /\ n = nodes_in_level - 1 + n_count
        /\ n_count + 1 < nodes_in_level <=> n < 2 * nodes_in_level - 2
        /\ n \notin Visited /\ p_index(n) \notin Visited
    BY <1>2, LevelBounds
  <1>4. /\ hash' = [k \in Node |-> hash'[k]]
        /\ \A k \in Node : k = n => Agrees(k)'
        /\ \A k \in Node : k # n /\ k # p_index(n) => (Agrees(k)' <=> Agrees(k))
    BY <1>1, <1>3, SetNode DEF IInv
  <1>5. \A k \in Visited \cup {n} : k \in Node /\ Agrees(k)'
    <2>1. Visited \subseteq Node
      BY DEF Visited
    <2> QED BY <1>2, <1>3, <1>4, <2>1
  <1>6. \A k \in Node : ~ Agrees(k)' =>
           k \in torn' \/ (k \notin Visited \cup {n} /\ \E j \in Visited \cup {n} : k = p_index(j))
    <2> SUFFICES ASSUME NEW k \in Node, ~ Agrees(k)', k # p_index(n)
                 PROVE  k \in torn' \/ (k \notin Visited /\ \E j \in Visited : k = p_index(j))
      BY <1>5
    <2>1. k # n
      BY <1>5
    <2>2. k \in torn \cup Pending
      BY <1>4, <2>1 DEF IInv, OnlyTornDisagree
    <2>3. Pending = {p_index(j) : j \in Visited} \ Visited
      BY <1>1 DEF Pending
    <2> QED BY <1>1, <2>1, <2>2, <2>3
  <1>7. ASSUME pc' = "tree", InLevel', Visited' = Visited \cup {n} PROVE IInv'
    <2>1. Shape' /\ InRange' /\ EarlierRight' /\ BelowRight'
      BY <1>1, <1>4, <1>7 DEF IInv, Shape, InRange, EarlierRight, BelowRight
    <2>2. TreeRight'
      BY <1>5, <1>7 DEF TreeRight
    <2>3. Pending' = {p_index(j) : j \in Visited \cup {n}} \ (Visited \cup {n})
      BY <1>7 DEF Pending
    <2>4. OnlyTornDisagree'
      BY <1>6, <2>3 DEF OnlyTornDisagree
    <2> QED BY <2>1, <2>2, <2>4 DEF IInv
  <1>8. CASE n_count + 1 < nodes_in_level
    <2>1. pc' = "tree" /\ n' = n + 1 /\ n_count' = n_count + 1 /\ nodes_in_level' = nodes_in_level
      BY <1>1, <1>8 DEF tree_node
    <2>2. InLevel'
      BY <1>2, <1>3, <1>8, <2>1 DEF InLevel
    <2>3. Visited' = Visited \cup {n}
      BY <1>3, <2>1 DEF Visited, Node
    <2> QED BY <1>7, <2>1, <2>2, <2>3
  <1>9. CASE ~ (n_count + 1 < nodes_in_level) /\ nodes_in_level \div 2 > 0
    <2>1. pc' = "tree" /\ nodes_in_level' = nodes_in_level \div 2 /\ n' = nodes_in_level' - 1 /\ n_count' = 0
      BY <1>1, <1>9 DEF tree_node
    <2>2. PICK k \in 0 .. Height : nodes_in_level = Width[k]
      BY <1>2 DEF InLevel
    <2>3. k \in 1 .. Height /\ k - 1 \in 0 .. Height
      BY <1>9, <2>2, Widths
    <2>4. nodes_in_level = 2 * Width[k - 1] /\ Width[k - 1] \in Nat \ {0}
      BY <2>2, <2>3, Widths
    <2>5. nodes_in_level' = Width[k - 1] /\ nodes_in_level = 2 * nodes_in_level'
      BY <2>1, <2>4
    <2>6. InLevel'
      BY <2>1, <2>3, <2>4, <2>5 DEF InLevel
    <2>7. n = 2 * nodes_in_level - 2
      BY <1>3, <1>9 DEF Node
    <2>8. Visited' = Visited \cup {n}
      BY <1>3, <2>1, <2>4, <2>5, <2>7 DEF Visited, Node
    <2> QED BY <1>7, <2>1, <2>6, <2>8
  <1>10. CASE ~ (n_count + 1 < nodes_in_level) /\ ~ (nodes_in_level \div 2 > 0)
    <2>1. pc' = "idle"
      BY <1>1, <1>10 DEF tree_node, Return
    <2>2. nodes_in_level = 1
      BY <1>3, <1>10
    <2>3. Node \subseteq Visited \cup {n}
      BY <1>3, <2>2 DEF Visited, Node
    <2>4. \A k \in Node : ~ Agrees(k)' => k \in torn'
      BY <1>5, <2>3
    <2>5. Shape'
      BY <1>1, <1>4, <2>1 DEF IInv, Shape
    <2> QED BY <2>1, <2>4, <2>5, IdleKeeps
  <1> QED BY <1>8, <1>9, <1>10

(* A verification begins at the first leaf. *)
LEMMA VerifyBegins ==
  ASSUME IInv, NEW b, NEW c, verify_hash_range(b, c)
  PROVE  IInv'
  <1>1. /\ pc = "idle" /\ b \in Block /\ c \in Block /\ b <= c
        /\ pc' = "verify" /\ first' = b /\ i' = b /\ last' = c /\ n' = leaf(b)
        /\ UNCHANGED <<data, hash, torn>>
    BY DEF verify_hash_range, IsRange
  <1>2. b \in b .. c /\ b .. b - 1 = {}
    BY <1>1 DEF Block
  <1>3. leaf(b) \in Path(b) /\ \A k \in Path(b) : ~ (k > leaf(b))
    <2>1. leaf(b) \in Node /\ leaf(b) \in Path(b) /\ \A k \in Path(b) : k \in Node /\ k <= leaf(b)
      BY <1>1, PathNodes
    <2> QED BY <2>1 DEF Node
  <1>4. Shape' /\ InRange' /\ EarlierRight' /\ BelowRight' /\ TreeRight'
    BY <1>1, <1>2, <1>3 DEF IInv, Shape, InRange, EarlierRight, BelowRight, TreeRight
  <1>5. \A k \in Node : Agrees(k)' <=> Agrees(k)
    BY <1>1 DEF Agrees, hash_node
  <1>6. OnlyTornDisagree'
    BY <1>1, <1>5 DEF IInv, OnlyTornDisagree, Pending
  <1> QED BY <1>4, <1>6 DEF IInv

(* Where a verification is when node n agrees. *)
LEMMA VerifiedSoFar ==
  ASSUME IInv, pc = "verify"
  PROVE  /\ first \in Block /\ last \in Block /\ i \in first .. last /\ i \in Block
         /\ n \in Path(i) /\ n \in Node
         /\ Agrees(n) => \A k \in Path(i) : k >= n => k \in Node /\ Agrees(k)
         /\ \A b \in first .. i - 1 : \A k \in Path(b) : k \in Node /\ Agrees(k)
         /\ \A k \in Node : ~ Agrees(k) => k \in torn
  <1>1. i \in Block /\ first \in Block /\ last \in Block /\ i \in first .. last /\ n \in Path(i)
    BY TreeSize DEF IInv, InRange, Block
  <1>2. n \in Node /\ \A k \in Path(i) : k \in Node
    BY <1>1, PathNodes
  <1>3. ASSUME Agrees(n), NEW k \in Path(i), k >= n PROVE Agrees(k)
    <2>1. k = n \/ k > n
      BY <1>2, <1>3 DEF Node
    <2> QED BY <1>3, <2>1 DEF IInv, BelowRight
  <1>4. ASSUME NEW b \in first .. i - 1, NEW k \in Path(b) PROVE k \in Node /\ Agrees(k)
    <2>1. b \in Block
      BY <1>1, TreeSize DEF Block
    <2>2. k \in Node
      BY <2>1, PathNodes
    <2> QED BY <2>2 DEF IInv, EarlierRight
  <1>5. \A k \in Node : ~ Agrees(k) => k \in torn
    BY DEF IInv, OnlyTornDisagree, Pending
  <1> QED BY <1>1, <1>2, <1>3, <1>4, <1>5

(* One node of a verification. *)
LEMMA VerifyStep == IInv /\ verify_node => IInv'
  <1> SUFFICES ASSUME IInv, verify_node PROVE IInv'
    OBVIOUS
  <1>1. pc = "verify" /\ UNCHANGED <<data, hash, torn>>
    BY DEF verify_node
  <1>2. /\ first \in Block /\ last \in Block /\ i \in first .. last /\ i \in Block
        /\ n \in Path(i) /\ n \in Node
        /\ Agrees(n) => \A k \in Path(i) : k >= n => k \in Node /\ Agrees(k)
        /\ \A b \in first .. i - 1 : \A k \in Path(b) : k \in Node /\ Agrees(k)
        /\ \A k \in Node : ~ Agrees(k) => k \in torn
    BY <1>1, VerifiedSoFar
  <1>3. \A k \in Node : Agrees(k)' <=> Agrees(k)
    BY <1>1 DEF Agrees, hash_node
  <1>4. OnlyTornDisagree'
    BY <1>1, <1>2, <1>3 DEF OnlyTornDisagree
  <1>5. CASE pc' = "idle"
    <2>1. Shape'
      BY <1>1, <1>5 DEF IInv, Shape
    <2>2. \A k \in Node : ~ Agrees(k)' => k \in torn'
      BY <1>1, <1>2, <1>3
    <2> QED BY <1>5, <2>1, <2>2, IdleKeeps
  <1>6. CASE Agrees(n) /\ ~ AtRoot(n)
    <2>1. pc' = "verify" /\ n' = p_index(n) /\ UNCHANGED <<first, i, last>>
      BY <1>1, <1>6 DEF verify_node, range
    <2>2. n # 0 /\ p_index(n) \in Path(i)
      BY <1>2, <1>6, Parents, PathNodes
    <2>3. Shape' /\ InRange' /\ TreeRight'
      BY <1>1, <1>2, <2>1, <2>2 DEF IInv, Shape, InRange, TreeRight
    <2>4. EarlierRight'
      BY <1>2, <1>3, <2>1 DEF EarlierRight
    <2>5. ASSUME NEW k \in Path(i), k > p_index(n) PROVE Agrees(k)'
      <3>1. k \in Node /\ p_index(n) \in Int
        BY <1>2, PathNodes, Parents
      <3>2. k < n => k <= p_index(n)
        BY <1>2, PathNodes
      <3>3. k >= n
        BY <1>2, <2>5, <3>1, <3>2 DEF Node
      <3> QED BY <1>2, <1>3, <1>6, <3>3
    <2>6. BelowRight'
      BY <2>1, <2>5 DEF BelowRight
    <2> QED BY <1>4, <2>3, <2>4, <2>6 DEF IInv
  <1>7. CASE Agrees(n) /\ AtRoot(n) /\ i < last
    <2>1. pc' = "verify" /\ i' = i + 1 /\ n' = leaf(i + 1) /\ UNCHANGED <<first, last>>
      BY <1>1, <1>7 DEF verify_node
    <2>2. i + 1 \in Block /\ i + 1 \in first .. last /\ n = 0
      BY <1>2, <1>7, Parents, TreeSize DEF Block
    <2>3. leaf(i + 1) \in Path(i + 1) /\ \A k \in Path(i + 1) : ~ (k > leaf(i + 1))
      <3> DEFINE d == i + 1
      <3>1. d \in Block
        BY <2>2
      <3> HIDE DEF d
      <3>2. leaf(d) \in Node /\ leaf(d) \in Path(d) /\ \A k \in Path(d) : k \in Node /\ k <= leaf(d)
        BY <3>1, PathNodes
      <3>3. leaf(d) \in Path(d) /\ \A k \in Path(d) : ~ (k > leaf(d))
        BY <3>2 DEF Node
      <3> QED BY <3>3 DEF d
    <2>4. Shape' /\ InRange' /\ BelowRight' /\ TreeRight'
      BY <1>1, <1>2, <2>1, <2>2, <2>3 DEF IInv, Shape, InRange, BelowRight, TreeRight
    <2>5. ASSUME NEW b \in first .. (i + 1) - 1, NEW k \in Path(b) PROVE Agrees(k)'
      <3>1. CASE b = i
        <4>1. k \in Node
          BY <1>2, <3>1, PathNodes
        <4>2. k >= n
          BY <2>2, <4>1 DEF Node
        <4> QED BY <1>2, <1>3, <1>7, <3>1, <4>2
      <3>2. CASE b # i
        <4>1. b \in first .. i - 1
          BY <1>2, <3>2, TreeSize DEF Block
        <4> QED BY <1>2, <1>3, <4>1
      <3> QED BY <3>1, <3>2
    <2>6. EarlierRight'
      BY <2>1, <2>5 DEF EarlierRight
    <2> QED BY <1>4, <2>4, <2>6 DEF IInv
  <1>8. ~ Agrees(n) \/ (AtRoot(n) /\ ~ (i < last)) => pc' = "idle"
    BY DEF verify_node, Return
  <1> QED BY <1>5, <1>6, <1>7, <1>8

(* A kill leaves wrong what the loop would still have come to, ... *)
LEMMA KillStep == IInv /\ kill => IInv'
  <1> SUFFICES ASSUME IInv, kill PROVE IInv'
    OBVIOUS
  <1>1. pc' = "idle" /\ torn' = torn \cup (Pending \cap Node) /\ UNCHANGED <<data, hash>>
    BY DEF kill, Return
  <1>2. \A k \in Node : Agrees(k)' <=> Agrees(k)
    BY <1>1 DEF Agrees, hash_node
  <1>3. Shape'
    BY <1>1 DEF IInv, Shape
  <1>4. \A k \in Node : ~ Agrees(k)' => k \in torn'
    BY <1>1, <1>2 DEF IInv, OnlyTornDisagree
  <1> QED BY <1>1, <1>3, <1>4, IdleKeeps

(* ... and a foreign write the leaf of its block. *)
LEMMA ForeignStep ==
  ASSUME IInv, NEW b \in Block, NEW bytes, foreign_write(b, bytes)
  PROVE  IInv'
  <1>1. /\ pc = "idle" /\ pc' = "idle" /\ torn' = torn \cup {leaf(b)}
        /\ data' = [data EXCEPT ![b] = bytes] /\ UNCHANGED hash
    BY DEF foreign_write
  <1>2. leaf(b) \in Node
    BY PathNodes
  <1>3. data' = [d \in Block |-> IF d = b THEN bytes ELSE data[d]]
    BY <1>1 DEF IInv, Shape
  <1>4. Shape'
    BY <1>1, <1>2, <1>3 DEF IInv, Shape
  <1>5. ASSUME NEW k \in Node, ~ Agrees(k)' PROVE k \in torn'
    <2>1. CASE k = leaf(b)
      BY <1>1, <2>1
    <2>2. CASE k # leaf(b)
      <3>1. PICK B : B = {b}
        OBVIOUS
      <3>2. ~ Agrees(k)
        <4>1. B \subseteq Block
          BY <3>1
        <4>2. \A d \in Block \ B : data'[d] = data[d]
          BY <1>3, <3>1
        <4>3. \A d \in B : k # leaf(d)
          BY <2>2, <3>1
        <4>4. hash' = hash
          BY <1>1
        <4>5. Agrees(k)' <=> Agrees(k)
          BY <4>1, <4>2, <4>3, <4>4, SetData
        <4> QED BY <1>5, <4>5
      <3>3. Pending = {}
        BY <1>1 DEF Pending
      <3> QED BY <1>1, <3>2, <3>3 DEF IInv, OnlyTornDisagree
    <2> QED BY <2>1, <2>2
  <1> QED BY <1>1, <1>4, <1>5, IdleKeeps

(* Every step keeps the invariant. *)
LEMMA NextKeeps == IInv /\ [Next]_vars => IInv'
  <1> SUFFICES ASSUME IInv, [Next]_vars PROVE IInv'
    OBVIOUS
  <1>1. CASE Step
    BY <1>1, LeafStep, ParentStep, NextBlockStep, TreeStep, VerifyStep DEF Step
  <1>2. CASE \E b, c \in Block, bytes \in Content : update_blocks(b, c, bytes)
    BY <1>2, UpdateBegins
  <1>3. CASE compute_hash_tree
    BY <1>3, TreeBegins
  <1>4. CASE \E b, c \in Block : verify_hash_range(b, c)
    BY <1>4, VerifyBegins
  <1>5. CASE kill
    BY <1>5, KillStep
  <1>6. CASE \E b \in Block, bytes \in Content : foreign_write(b, bytes)
    BY <1>6, ForeignStep
  <1>7. CASE UNCHANGED vars
    <2>1. UNCHANGED <<data, hash, pc, first, i, last, n, nodes_in_level, n_count, torn>>
      BY <1>7 DEF vars, range, level
    <2>2. \A k \in Node : Agrees(k)' <=> Agrees(k)
      BY <2>1 DEF Agrees, hash_node
    <2>3. Pending' = Pending /\ Visited' = Visited /\ Visited \subseteq Node
      BY <2>1 DEF Pending, Visited
    <2>4. Shape' /\ InRange'
      BY <2>1 DEF IInv, Shape, InRange
    <2>5. TreeRight' /\ OnlyTornDisagree'
      BY <2>1, <2>2, <2>3 DEF IInv, TreeRight, InLevel, OnlyTornDisagree
    <2>6. EarlierRight' /\ BelowRight'
      BY <2>1 DEF IInv, EarlierRight, BelowRight, Agrees, hash_node
    <2> QED BY <2>4, <2>5, <2>6 DEF IInv
  <1> QED BY <1>1, <1>2, <1>3, <1>4, <1>5, <1>6, <1>7 DEF Next

----------------------------------------------------------------------------
(* A loop at work has not said yet how it ended. *)
Silent == pc # "idle" => outcome = "none"

LEMMA SilentWhileAtWork == Spec => []Silent
  <1>1. Init => Silent
    BY DEF Init, Silent
  <1>2. Silent /\ [Next]_vars => Silent'
    <2> SUFFICES ASSUME Silent, [Next]_vars, pc' # "idle" PROVE outcome' = "none"
      BY DEF Silent
    <2>1. CASE Step
      BY <2>1 DEF Silent, Step, hash_leaf, hash_parent, next_block, tree_node, verify_node, Return
    <2>2. CASE \/ \E b, c \in Block, bytes \in Content : update_blocks(b, c, bytes)
               \/ compute_hash_tree
               \/ \E b, c \in Block : verify_hash_range(b, c)
               \/ kill
               \/ \E b \in Block, bytes \in Content : foreign_write(b, bytes)
      BY <2>2 DEF update_blocks, compute_hash_tree, verify_hash_range, kill, foreign_write, Return
    <2>3. CASE UNCHANGED vars
      BY <2>3 DEF vars, Silent
    <2> QED BY <2>1, <2>2, <2>3 DEF Next
  <1> QED BY <1>1, <1>2, PTL DEF Spec

(* Where the loops end. *)
LEMMA LoopEnds ==
  ASSUME Silent, Next, pc # "idle", outcome' # "none"
  PROVE  /\ pc = "path" => next_block /\ AtRoot(n) /\ ~ (i < last)
         /\ pc = "tree" =>
              tree_node /\ ~ (n_count + 1 < nodes_in_level) /\ ~ (nodes_in_level \div 2 > 0)
         /\ pc = "verify" =>
              /\ UNCHANGED <<data, hash>>
              /\ \/ outcome' = "rejected" /\ ~ Agrees(n)
                 \/ outcome' = "accepted" /\ Agrees(n) /\ AtRoot(n) /\ ~ (i < last)
  <1>1. outcome = "none"
    BY DEF Silent
  <1>2. Step
    BY <1>1 DEF Next, update_blocks, compute_hash_tree, verify_hash_range, kill, foreign_write, Return
  <1>3. CASE hash_leaf \/ hash_parent
    BY <1>1, <1>3 DEF hash_leaf, hash_parent
  <1>4. CASE next_block
    BY <1>1, <1>4 DEF next_block
  <1>5. CASE tree_node
    BY <1>1, <1>5 DEF tree_node
  <1>6. CASE verify_node
    BY <1>1, <1>6 DEF verify_node, Return
  <1> QED BY <1>2, <1>3, <1>4, <1>5, <1>6 DEF Step

(* The invariant of the loops over hash_data, at every step and every kill. *)
LEMMA Invariance == Spec => []IInv
  BY InitHolds, NextKeeps, PTL DEF Spec

(* A node is wrong only where a kill or a foreign write left it wrong, or
   where the loop at work will still come (compute_hash_block_helper,
   compute_hash_tree). *)
THEOREM WrongOnlyWhereTorn == Spec => []OnlyTornDisagree
  <1>1. IInv => OnlyTornDisagree
    BY DEF IInv
  <1> QED BY <1>1, Invariance, PTL

(* Every update leaves the paths of its blocks right up to the root, so that
   what was just written can be read (read_file:614). *)
THEOREM UpdateAlwaysRepairs == Spec => UpdateRepairsPath
  <1>1. ASSUME IInv, Silent, Next, pc = "path", outcome' = "done",
               NEW b \in first .. last, NEW k \in Path(b)
        PROVE  Agrees(k)'
    <2>1. next_block /\ AtRoot(n) /\ ~ (i < last)
      BY <1>1, LoopEnds
    <2>2. UNCHANGED <<data, hash>>
      BY <2>1 DEF next_block
    <2>3. /\ first \in Block /\ last \in Block /\ i \in first .. last
          /\ \A d \in first .. i : \A j \in Path(d) : j \in Node /\ Agrees(j)
      BY <1>1, <2>1, RootReached
    <2>4. b \in first .. i
      BY <2>1, <2>3, TreeSize DEF Block
    <2>5. Agrees(k)
      BY <2>3, <2>4
    <2> QED BY <2>2, <2>5 DEF Agrees, hash_node
  <1>2. IInv /\ Silent /\ [Next]_vars =>
          [pc = "path" /\ outcome' = "done" =>
             \A b \in first .. last : \A k \in Path(b) : Agrees(k)']_vars
    BY <1>1
  <1> QED BY <1>2, Invariance, SilentWhileAtWork, PTL DEF Spec, UpdateRepairsPath

(* compute_hash_tree makes every node right, whatever the tree was before. *)
THEOREM TreeAlwaysRepairs == Spec => TreeRepairs
  <1>1. ASSUME IInv, Silent, Next, pc = "tree", outcome' = "done", NEW k \in Node
        PROVE  Agrees(k)'
    <2>1. tree_node /\ ~ (n_count + 1 < nodes_in_level) /\ ~ (nodes_in_level \div 2 > 0)
      BY <1>1, LoopEnds
    <2>2. InLevel /\ \A j \in Visited : Agrees(j)
      BY <1>1 DEF IInv, TreeRight
    <2>3. /\ nodes_in_level \in Nat \ {0} /\ n \in Node /\ nodes_in_level - 1 <= n
          /\ n \notin Visited /\ p_index(n) \notin Visited
      BY <2>2, LevelBounds
    <2>4. nodes_in_level = 1
      BY <2>1, <2>3
    <2>5. k \in Visited \cup {n}
      BY <2>2, <2>4, LevelBounds, TreeSize DEF Visited, Node
    <2>6. hash' = [hash EXCEPT ![n] = hash_node(n)] /\ UNCHANGED data
      BY <2>1 DEF tree_node
    <2>7. /\ \A j \in Node : j = n => Agrees(j)'
          /\ \A j \in Node : j # n /\ j # p_index(n) => (Agrees(j)' <=> Agrees(j))
      BY <1>1, <2>3, <2>6, SetNode DEF IInv
    <2> QED BY <1>1, <2>2, <2>3, <2>5, <2>7
  <1>2. IInv /\ Silent /\ [Next]_vars =>
          [pc = "tree" /\ outcome' = "done" => \A k \in Node : Agrees(k)']_vars
    BY <1>1
  <1> QED BY <1>2, Invariance, SilentWhileAtWork, PTL DEF Spec, TreeRepairs

(* A verification that is accepted has seen every node of its paths. *)
LEMMA AcceptedSeen ==
  ASSUME IInv, Silent, Next, pc = "verify", outcome' = "accepted",
         NEW b \in first .. last, NEW k \in Path(b)
  PROVE  Agrees(k)
  <1>1. Agrees(n) /\ AtRoot(n) /\ ~ (i < last)
    BY LoopEnds
  <1>2. /\ first \in Block /\ last \in Block /\ i \in first .. last /\ i \in Block
        /\ n \in Path(i) /\ n \in Node
        /\ Agrees(n) => \A j \in Path(i) : j >= n => j \in Node /\ Agrees(j)
        /\ \A d \in first .. i - 1 : \A j \in Path(d) : j \in Node /\ Agrees(j)
    BY VerifiedSoFar
  <1>3. CASE b = i
    <2>1. k \in Node /\ n = 0
      BY <1>1, <1>2, <1>3, Parents, PathNodes
    <2>2. k >= n
      BY <2>1 DEF Node
    <2> QED BY <1>1, <1>2, <1>3, <2>2
  <1>4. CASE b # i
    <2>1. b \in first .. i - 1
      BY <1>1, <1>2, <1>4, TreeSize DEF Block
    <2> QED BY <1>2, <2>1
  <1> QED BY <1>3, <1>4

(* A verification that succeeds has seen every node of every path right, the
   root among them (runtest.c:683). *)
THEOREM AcceptedPathsRight == Spec => AcceptsOnlyRightPaths
  <1>1. IInv /\ Silent /\ [Next]_vars =>
          [pc = "verify" /\ outcome' = "accepted" =>
             \A b \in first .. last : \A k \in Path(b) : Agrees(k)]_vars
    BY AcceptedSeen
  <1> QED BY <1>1, Invariance, SilentWhileAtWork, PTL DEF Spec, AcceptsOnlyRightPaths

(* With no inner node torn, a verification says of its blocks what their
   leaves alone decide: Vfs needs no inner nodes. *)
THEOREM LeavesDecide == Spec => LeavesSuffice
  <1>1. ASSUME IInv, Silent, Next, pc = "verify", outcome' \in {"accepted", "rejected"},
               torn \subseteq leaf_offset .. tree_len - 1
        PROVE  outcome' = "accepted" <=> \A b \in first .. last : Agrees(leaf(b))
    <2>1. \/ outcome' = "rejected" /\ ~ Agrees(n)
          \/ outcome' = "accepted"
      BY <1>1, LoopEnds
    <2>2. /\ first \in Block /\ last \in Block /\ i \in first .. last /\ i \in Block
          /\ n \in Path(i) /\ n \in Node
          /\ \A k \in Node : ~ Agrees(k) => k \in torn
      BY <1>1, VerifiedSoFar
    <2>3. CASE outcome' = "accepted"
      <3> SUFFICES ASSUME NEW b \in first .. last PROVE Agrees(leaf(b))
        BY <2>3
      <3>1. b \in Block
        BY <2>2, TreeSize DEF Block
      <3>2. ASSUME NEW k, k = leaf(b) PROVE Agrees(k)
        <4>1. k \in Path(b)
          BY <3>1, <3>2, PathNodes
        <4> QED BY <1>1, <2>3, <4>1, AcceptedSeen
      <3> QED BY <3>2
    <2>4. CASE outcome' = "rejected" /\ ~ Agrees(n)
      <3>1. n \in leaf_offset .. tree_len - 1
        BY <1>1, <2>2, <2>4
      <3>2. n >= leaf_offset
        BY <3>1, TreeSize
      <3>3. n = leaf(i)
        BY <2>2, <3>2, PathNodes
      <3> QED BY <2>2, <2>4, <3>3
    <2> QED BY <2>1, <2>3, <2>4
  <1>2. IInv /\ Silent /\ [Next]_vars =>
          [pc = "verify" /\ outcome' \in {"accepted", "rejected"}
             /\ torn \subseteq leaf_offset .. tree_len - 1 =>
               (outcome' = "accepted" <=> \A b \in first .. last : Agrees(leaf(b)))]_vars
    BY <1>1
  <1> QED BY <1>2, Invariance, SilentWhileAtWork, PTL DEF Spec, LeavesSuffice

(* The number of steps that the loop at work still makes at most. *)
Work ==
  CASE pc = "leaf" -> (last - i) * (tree_len + 1) + tree_len
    [] pc \in {"path", "verify"} -> (last - i) * (tree_len + 1) + n
    [] pc = "tree" -> 2 * nodes_in_level - 1 - n_count
    [] OTHER -> 0

LEMMA BlocksAhead ==
  ASSUME NEW d \in Nat, NEW T \in Nat
  PROVE  d * (T + 1) \in Nat /\ (d + 1) * (T + 1) = d * (T + 1) + T + 1
  OBVIOUS

LEMMA StepShortens ==
  ASSUME IInv, Step
  PROVE  pc' = "idle" \/ (Work \in Nat /\ Work' \in Nat /\ Work' < Work)
  <1>1. PICK T \in Nat : T = tree_len
    BY TreeSize
  <1>2. ASSUME pc \in {"leaf", "path", "verify"}
        PROVE  /\ first \in Block /\ last \in Block /\ i \in first .. last /\ i \in Block
               /\ last - i \in Nat /\ leaf(i) \in 0 .. T - 1
               /\ i < last => leaf(i + 1) \in 0 .. T - 1 /\ last - (i + 1) \in Nat
                              /\ last - i = (last - (i + 1)) + 1
               /\ pc # "leaf" => n \in Node /\ n \in 0 .. T - 1
    <2>1. first \in Block /\ last \in Block /\ i \in first .. last
      BY <1>2 DEF IInv, InRange
    <2>2. i \in Block /\ last - i \in Nat /\ (i < last => i + 1 \in Block)
      BY <2>1, TreeSize DEF Block
    <2>3. \A b \in Block : leaf(b) \in 0 .. T - 1
      BY <1>1, PathNodes DEF Node
    <2>4. pc # "leaf" => n \in Path(i)
      BY <1>2 DEF IInv, InRange
    <2>5. pc # "leaf" => n \in Node
      BY <2>2, <2>4, PathNodes
    <2> QED BY <1>1, <2>1, <2>2, <2>3, <2>5, TreeSize DEF Node, Block
  <1>3. CASE hash_leaf
    <2>1. pc = "leaf" /\ pc' = "path" /\ n' = leaf(i) /\ i' = i /\ last' = last
      BY <1>3 DEF hash_leaf, range
    <2>2. PICK d \in Nat : d = last - i
      BY <1>2, <2>1
    <2>3. Work = d * (T + 1) + T /\ Work' = d * (T + 1) + leaf(i)
      BY <1>1, <2>1, <2>2 DEF Work, tree_len
    <2> QED BY <1>2, <2>1, <2>3, BlocksAhead
  <1>4. CASE hash_parent
    <2>1. /\ pc = "path" /\ pc' = "path" /\ n' = p_index(n) /\ i' = i /\ last' = last
          /\ ~ AtRoot(n)
      BY <1>4 DEF hash_parent, range
    <2>2. p_index(n) \in Int /\ p_index(n) < n /\ p_index(n) >= 0
      BY <1>2, <2>1, Parents DEF AtRoot
    <2>3. PICK d \in Nat : d = last - i
      BY <1>2, <2>1
    <2>4. Work = d * (T + 1) + n /\ Work' = d * (T + 1) + p_index(n)
      BY <1>1, <2>1, <2>3 DEF Work, tree_len
    <2> QED BY <1>2, <2>1, <2>2, <2>4, BlocksAhead
  <1>5. CASE next_block
    <2>1. CASE ~ (i < last)
      BY <1>5, <2>1 DEF next_block, Return
    <2>2. CASE i < last
      <3>1. pc = "path" /\ pc' = "leaf" /\ i' = i + 1 /\ last' = last
        BY <1>5, <2>2 DEF next_block
      <3>2. PICK d \in Nat : d = last - (i + 1)
        BY <1>2, <2>2, <3>1
      <3>3. Work = (d + 1) * (T + 1) + n /\ Work' = d * (T + 1) + T
        BY <1>1, <1>2, <2>2, <3>1, <3>2 DEF Work, tree_len
      <3> QED BY <1>2, <3>1, <3>3, BlocksAhead
    <2> QED BY <2>1, <2>2
  <1>6. CASE tree_node
    <2>1. PICK W \in Nat \ {0} : W = nodes_in_level
      BY <1>6, LevelBounds DEF IInv, TreeRight, tree_node
    <2>2. PICK c \in Nat : c = n_count /\ c <= W - 1
      BY <1>6, <2>1 DEF IInv, TreeRight, tree_node, InLevel
    <2>3. pc = "tree" /\ Work = 2 * W - 1 - c
      BY <1>6, <2>1, <2>2 DEF tree_node, Work
    <2>4. PICK above \in Nat : above = W \div 2 /\ 2 * above <= W
      <3>1. W \div 2 \in Nat /\ 2 * (W \div 2) <= W
        OBVIOUS
      <3> QED BY <3>1
    <2>5. CASE c + 1 < W
      <3>1. pc' = "tree" /\ n_count' = c + 1 /\ nodes_in_level' = W
        BY <1>6, <2>1, <2>2, <2>5 DEF tree_node
      <3>2. Work' = 2 * W - 1 - (c + 1)
        BY <3>1 DEF Work
      <3> QED BY <2>2, <2>3, <3>2
    <2>6. CASE ~ (c + 1 < W)
      <3>1. CASE above > 0
        <4>1. pc' = "tree" /\ n_count' = 0 /\ nodes_in_level' = above
          BY <1>6, <2>1, <2>2, <2>4, <2>6, <3>1 DEF tree_node
        <4>2. Work' = 2 * above - 1 - 0
          BY <4>1 DEF Work
        <4>3. c = W - 1
          BY <2>2, <2>6
        <4> QED BY <2>3, <2>4, <3>1, <4>2, <4>3
      <3>2. CASE ~ (above > 0)
        BY <1>6, <2>1, <2>2, <2>4, <2>6, <3>2 DEF tree_node, Return
      <3> QED BY <3>1, <3>2
    <2> QED BY <2>5, <2>6
  <1>7. CASE verify_node
    <2>1. pc = "verify"
      BY <1>7 DEF verify_node
    <2>2. CASE pc' = "idle"
      BY <2>2
    <2>3. CASE pc' # "idle" /\ ~ AtRoot(n)
      <3>1. pc' = "verify" /\ n' = p_index(n) /\ i' = i /\ last' = last
        BY <1>7, <2>1, <2>3 DEF verify_node, Return, range
      <3>2. p_index(n) \in Int /\ p_index(n) < n /\ p_index(n) >= 0
        BY <1>2, <2>1, <2>3, Parents DEF AtRoot
      <3>3. PICK d \in Nat : d = last - i
        BY <1>2, <2>1
      <3>4. Work = d * (T + 1) + n /\ Work' = d * (T + 1) + p_index(n)
        BY <1>1, <2>1, <3>1, <3>3 DEF Work, tree_len
      <3> QED BY <1>2, <2>1, <3>2, <3>4, BlocksAhead
    <2>4. CASE pc' # "idle" /\ AtRoot(n)
      <3>1. i < last /\ pc' = "verify" /\ n' = leaf(i + 1) /\ i' = i + 1 /\ last' = last
        BY <1>7, <2>1, <2>4 DEF verify_node, Return
      <3>2. PICK d \in Nat : d = last - (i + 1)
        BY <1>2, <2>1, <3>1
      <3>3. Work = (d + 1) * (T + 1) + n /\ Work' = d * (T + 1) + leaf(i + 1)
        BY <1>1, <1>2, <2>1, <3>1, <3>2 DEF Work, tree_len
      <3> QED BY <1>2, <2>1, <3>1, <3>3, BlocksAhead
    <2> QED BY <2>2, <2>3, <2>4
  <1> QED BY <1>3, <1>4, <1>5, <1>6, <1>7 DEF Step

(* Each step of a loop over the tree leaves less of it to do, from whatever
   tree a kill or a foreign write left: the loops over paths, which end at a
   negative index, and those over levels, which end without nodes
   (myfilesystem.c:773, :882), make a bounded number of steps. *)
THEOREM EachStepShortens ==
  Spec => [][Step => pc' = "idle" \/ (Work \in Nat /\ Work' \in Nat /\ Work' < Work)]_vars
  <1>1. IInv /\ [Next]_vars =>
          [Step => pc' = "idle" \/ (Work \in Nat /\ Work' \in Nat /\ Work' < Work)]_vars
    BY StepShortens
  <1> QED BY <1>1, Invariance, PTL DEF Spec

=============================================================================
