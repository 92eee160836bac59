---------------------------- MODULE MCRelocation ---------------------------
(* Values for TLC: every byte of file_data is different. *)
EXTENDS RelocationProps

AllDifferent == [p \in Byte |-> p + 1]
=============================================================================
