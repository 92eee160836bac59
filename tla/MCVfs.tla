------------------------------- MODULE MCVfs -------------------------------
(* Values of the constants of Vfs for TLC. *)
EXTENDS VfsProps

Kept3 == [a |-> 1, b |-> 2, c |-> 3]
Kept2 == [a |-> 1, b |-> 2]
KeptAlias == [a |-> 1, a2 |-> 1, b |-> 2, c |-> 3]

(* fletcher over words of one byte, with two bits to the byte *)
Small == INSTANCE Fletcher WITH ByteBase <- 4, WordBytes <- 1
FletcherHash(bytes) == Small!fletcher(bytes, BLOCK_LEN)

Bytes == {<<1>>, <<2, 1>>}
Ones == {<<1>>, <<1, 1>>}
NullBytes == {<<0>>, <<0, 0>>}        \* contents do not matter
TwoNulls == {<<0, 0>>}

NoRenames == {}
AdjacentRenames == {<<"a", "b">>, <<"b", "a">>}
CrossRenames == {<<"a", "c">>, <<"c", "b">>}      \* past another name
AllRenames == FileName \X FileName
=============================================================================
