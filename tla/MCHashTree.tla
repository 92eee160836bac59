----------------------------- MODULE MCHashTree ----------------------------
(* A tree over four blocks for TLC, with symbolic hashes: a hash is the
   tuple of what it was computed from, and that of null bytes is empty. *)
EXTENDS HashTreeProps

Full == [k \in 0 .. Height |-> 2 ^ k]
NoHash == << >>
LeafOf(bytes) == IF bytes = Blank THEN NoHash ELSE <<bytes>>
JoinOf(x, y) == IF x = NoHash /\ y = NoHash THEN NoHash ELSE <<x, y>>
=============================================================================
