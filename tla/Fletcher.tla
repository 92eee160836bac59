----------------------------- MODULE Fletcher ------------------------------
(***************************************************************************)
(* fletcher of myfilesystem.c: four running sums over the 32 bit words of  *)
(* a buffer, each modulo 2^32 - 1.  The word size is a parameter, so that  *)
(* small buffers of small bytes show the arithmetic.                       *)
(***************************************************************************)
EXTENDS Integers, Functions

CONSTANTS ByteBase, WordBytes     \* 256 and 4 in the code

ASSUME WordAssumption == ByteBase \in Nat \ {0, 1} /\ WordBytes \in Nat \ {0}

(* the value of byte k of a word, little endian *)
place[k \in 0 .. WordBytes] == IF k = 0 THEN 1 ELSE ByteBase * place[k - 1]

Modulus == place[WordBytes] - 1     \* MAX_FILE_DATA_LEN_MINUS_ONE

size(length) == length \div WordBytes
rem(length)  == length % WordBytes

(* the words the loop reads and, when there is a remainder, the last one *)
Words(length) == size(length) + (IF rem(length) = 0 THEN 0 ELSE 1)

(* n bytes at word i of buf, little endian; the word's other bytes are null *)
word(buf, i, n) == SumFunction([k \in 0 .. n - 1 |-> buf[i * WordBytes + k] * place[k]])

\* Mutant: the last word is read like the others, as far as the buffer goes.
MutLastWhole(buf, length) ==
  SumFunction([k \in {k \in 0 .. WordBytes - 1 : size(length) * WordBytes + k \in DOMAIN buf} |->
    buf[size(length) * WordBytes + k] * place[k]])

(* "last": initialised to zero, then the remaining bytes are copied into it *)
last(buf, length) == word(buf, size(length), rem(length))

words(buf, length) ==
  [i \in 0 .. Words(length) - 1 |->
    IF i < size(length) THEN word(buf, i, WordBytes) ELSE last(buf, length)]

\* Mutant: b takes the sum a of the word before.
MutSumsReversed(sums, w) ==
  LET a == (sums[1] + w) % Modulus
      b == (sums[2] + sums[1]) % Modulus
      c == (sums[3] + b) % Modulus
  IN  <<a, b, c, (sums[4] + c) % Modulus>>

\* Mutant: b is not a sum of sums.
MutSumsAlike(sums, w) ==
  LET a == (sums[1] + w) % Modulus
  IN  <<a, (sums[2] + w) % Modulus, (sums[3] + w) % Modulus, (sums[4] + w) % Modulus>>

(* the body of the loop and of the branch for the remainder: the sums a, b,
   c, d after one more word *)
add_word(sums, w) ==
  LET a == (sums[1] + w) % Modulus
      b == (sums[2] + a) % Modulus
      c == (sums[3] + b) % Modulus
  IN  <<a, b, c, (sums[4] + c) % Modulus>>

(* the sums after each of the first n words of w *)
loop(w, n) ==
  LET sums[k \in 0 .. n] ==
        IF k = 0 THEN <<0, 0, 0, 0>> ELSE add_word(sums[k - 1], w[k - 1])
  IN  sums

fletcher(buf, length) == loop(words(buf, length), Words(length))[Words(length)]
=============================================================================
