---------------------------- MODULE FletcherSums ---------------------------
(***************************************************************************)
(* fletcher, word by word, against the closed form of its sums and against *)
(* what a checksum of a block is for.                                      *)
(***************************************************************************)
EXTENDS Fletcher

CONSTANT MaxLength      \* bytes in the buffer

ASSUME MaxLengthAssumption == MaxLength \in Nat

VARIABLES buf, length, i, sums
vars == <<buf, length, i, sums>>

Buffer == [0 .. MaxLength - 1 -> 0 .. ByteBase - 1]

Init ==
  /\ buf \in Buffer /\ length \in 0 .. MaxLength
  /\ i = 0 /\ sums = <<0, 0, 0, 0>>

(* the loop over the whole words *)
NextWord ==
  /\ i < size(length)
  /\ i' = i + 1 /\ sums' = add_word(sums, word(buf, i, WordBytes))
  /\ UNCHANGED <<buf, length>>

(* the branch for the remainder, after the loop *)
LastWord ==
  /\ i = size(length) /\ rem(length) # 0
  /\ i' = i + 1 /\ sums' = add_word(sums, last(buf, length))
  /\ UNCHANGED <<buf, length>>

Next == NextWord \/ LastWord

Spec == Init /\ [][Next]_vars

----------------------------------------------------------------------------
One         == [n \in Nat |-> 1]
Line        == [n \in Nat |-> n]
Triangle    == [n \in Nat |-> (n * (n + 1)) \div 2]
Tetrahedron == [n \in Nat |-> (n * (n + 1) * (n + 2)) \div 6]

Weighted(weight, w, n) == SumFunction([j \in 0 .. n - 1 |-> weight[n - j] * w[j]])

(* Taking the remainder in every step loses nothing: a is the sum of the
   words, and b, c and d weigh the word n places before the end with n and
   with the triangular and the tetrahedral number of n. *)
ClosedForm ==
  \A s \in 1 .. 4 :
    sums[s] = Weighted(<<One, Line, Triangle, Tetrahedron>>[s], words(buf, length), i) % Modulus

Done == i = Words(length)

(* Every byte of the length counts, those of a remainder too, and no other:
   another value in one byte of the buffer gives other sums exactly when the
   byte is one of the first "length".  (With words of one byte this would not
   be so: the highest byte is the modulus, and counts as 0.) *)
EveryByteCounts ==
  Done => \A p \in DOMAIN buf, x \in 0 .. ByteBase - 1 :
            x # buf[p] => (fletcher([buf EXCEPT ![p] = x], length) # sums <=> p < length)

(* What the hash of a block must notice: one word with another value (0 and
   the modulus count as the same), or two neighbouring words swapped. *)
Notices ==
  Done =>
    LET w == words(buf, length)
        Differ(x, y) == x % Modulus # y % Modulus
    IN  /\ \A j \in 0 .. i - 1, x \in 0 .. Modulus :
             Differ(x, w[j]) => loop([w EXCEPT ![j] = x], i)[i] # sums
        /\ \A j \in 0 .. i - 2 :
             Differ(w[j], w[j + 1]) =>
               loop([w EXCEPT ![j] = w[j + 1], ![j + 1] = w[j]], i)[i] # sums
=============================================================================
