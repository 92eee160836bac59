------------------------------- MODULE MCFuse ------------------------------
(* Values of the constants of FuseOps for TLC. *)
EXTENDS FuseProps, TLC

NoRenames == {}

(* renames to a neighbouring name: they leave any array in order *)
AdjacentRenames == {<<1, 2>>, <<2, 1>>, <<2, 3>>, <<3, 2>>}

(* Nothing tells the threads apart. *)
Threads == Permutations(Thread)
=============================================================================
