------------------------- MODULE BinarySearchProofs ------------------------
(***************************************************************************)
(* The results of arr_get_index for arrays of every size: proofs of the    *)
(* safety properties of BinarySearch.                                      *)
(***************************************************************************)
EXTENDS BinarySearch, DataLemmas

TypeInv ==
  /\ size \in 0 .. MAX_NUM_FILES
  /\ cmp \in [0 .. size - 1 -> Sign]
  /\ insert \in BOOLEAN
  /\ l \in Int /\ h \in Int /\ result \in Int
  /\ pc \in {"start", "loop", "done"}

(* The element below the range that is still searched compares below the
   key, the one above it compares above. *)
RangeInv ==
  pc # "done" =>
    /\ l \in 0 .. size /\ h \in -1 .. size - 1
    /\ l > 0 => cmp[l - 1] > 0
    /\ h < size - 1 => cmp[h + 1] < 0
    /\ pc = "start" => l = 0 /\ h = size - 1
    /\ pc = "loop" => l <= h

ResultInv == InsertsInPlace /\ FindsTheKey /\ NeverMisses

IInv == TypeInv /\ RangeInv /\ ResultInv

(* The search starts with the whole array. *)
LEMMA InitInv == Init => IInv
  BY SizeAssumption
  DEF Init, IInv, TypeInv, RangeInv, ResultInv, InsertsInPlace, FindsTheKey, NeverMisses

(* The middle lies between the bounds. *)
LEMMA MiddleBetween ==
  ASSUME NEW a \in Int, NEW b \in Int, a <= b
  PROVE  (a + b) \div 2 \in a .. b
  OBVIOUS

LEMMA MiddleInArray ==
  ASSUME TypeInv, RangeInv, pc = "loop"
  PROVE  /\ l \in Int /\ h \in Int /\ size \in Nat /\ 0 <= l /\ l <= h /\ h <= size - 1
         /\ m \in Int /\ l <= m /\ m <= h
         /\ cmp \in [0 .. size - 1 -> Sign] /\ cmp[m] \in Sign
  <1>1. l \in Int /\ h \in Int /\ size \in Nat /\ 0 <= l /\ l <= h /\ h <= size - 1
    BY SizeAssumption DEF TypeInv, RangeInv
  <1>2. m \in l .. h
    BY <1>1, MiddleBetween DEF m
  <1> HIDE DEF m
  <1>3. cmp \in [0 .. size - 1 -> Sign]
    BY DEF TypeInv
  <1> QED BY <1>1, <1>2, <1>3

(* Where a sorted array goes from below the key to above it without an
   equal element, it holds no equal element. *)
LEMMA NoKeyInSorted ==
  ASSUME size \in Nat, cmp \in [0 .. size - 1 -> Sign], Sorted,
         NEW p \in 0 .. size,
         p > 0 => cmp[p - 1] > 0, p < size => cmp[p] < 0
  PROVE  \A k \in 0 .. size - 1 : cmp[k] # 0
  <1> SUFFICES ASSUME NEW k \in 0 .. size - 1 PROVE cmp[k] # 0
    OBVIOUS
  <1>1. \A j \in 0 .. size - 1 : cmp[j] \in Int
    BY DEF Sign
  <1>2. CASE k < p
    <2>1. p - 1 \in 0 .. size - 1 /\ cmp[p - 1] > 0 /\ (k < p - 1 \/ k = p - 1)
      BY <1>2
    <2>2. cmp[k] >= cmp[p - 1]
      BY <2>1, <1>1 DEF Sorted
    <2> QED BY <2>1, <2>2, <1>1
  <1>3. CASE k >= p
    <2>1. p \in 0 .. size - 1 /\ cmp[p] < 0 /\ (p < k \/ k = p)
      BY <1>3
    <2>2. cmp[p] >= cmp[k]
      BY <2>1, <1>1 DEF Sorted
    <2> QED BY <2>1, <2>2, <1>1
  <1> QED BY <1>2, <1>3

(* A search that gives up at position p, with the key between p - 1 and p,
   returns as the properties say. *)
LEMMA NotFoundInv ==
  ASSUME TypeInv, NEW p \in 0 .. size, NotFound(p),
         p > 0 => cmp[p - 1] > 0, p < size => cmp[p] < 0
  PROVE  IInv'
  <1>1. /\ pc' = "done" /\ result' = (IF insert THEN p ELSE -1)
        /\ cmp' = cmp /\ size' = size /\ insert' = insert /\ l' = l /\ h' = h
    BY DEF NotFound, Return, args
  <1>2. size \in Nat /\ cmp \in [0 .. size - 1 -> Sign] /\ insert \in BOOLEAN
    BY SizeAssumption DEF TypeInv
  <1>3. TypeInv'
    BY <1>1, <1>2 DEF TypeInv
  <1>4. RangeInv'
    BY <1>1 DEF RangeInv
  <1>5. InsertsInPlace'
    BY <1>1, <1>2 DEF InsertsInPlace
  <1>6. FindsTheKey'
    BY <1>1, <1>2 DEF FindsTheKey
  <1>7. NeverMisses'
    <2>1. Sorted' = Sorted
      BY <1>1 DEF Sorted
    <2>2. Sorted => \A k \in 0 .. size - 1 : cmp[k] # 0
      BY <1>2, NoKeyInSorted
    <2> QED BY <1>1, <2>1, <2>2 DEF NeverMisses
  <1> QED BY <1>3, <1>4, <1>5, <1>6, <1>7 DEF IInv, ResultInv

(* Every step of the loop keeps the invariant. *)
LEMMA StepInv == IInv /\ [Next]_vars => IInv'
  <1> SUFFICES ASSUME IInv, [Next]_vars PROVE IInv'
    OBVIOUS
  <1>1. TypeInv /\ RangeInv /\ ResultInv /\ size \in Nat
    BY SizeAssumption DEF IInv, TypeInv
  <1>2. CASE Start
    <2>1. CASE size = 0
      BY <1>1, <1>2, <2>1, NotFoundInv DEF Start
    <2>2. CASE size # 0
      <3>1. /\ pc = "start" /\ pc' = "loop" /\ result' = result
            /\ cmp' = cmp /\ size' = size /\ insert' = insert /\ l' = l /\ h' = h
        BY <1>2, <2>2 DEF Start, args
      <3>2. l <= h
        BY <3>1, <1>1, <2>2 DEF RangeInv
      <3> QED
        BY <3>1, <3>2, <1>1
        DEF IInv, TypeInv, RangeInv, ResultInv, InsertsInPlace, FindsTheKey, NeverMisses
    <2> QED BY <2>1, <2>2
  <1>3. CASE GoDown
    <2>1. pc = "loop" /\ cmp[m] < 0
      BY <1>3 DEF GoDown
    <2>2. CASE l >= m
      <3>1. m \in 0 .. size /\ (m > 0 => cmp[m - 1] > 0)
        <4>1. m = l /\ m \in 0 .. size
          BY <1>1, <2>1, <2>2, MiddleInArray
        <4> QED BY <4>1, <1>1, <2>1 DEF RangeInv
      <3>2. NotFound(m)
        BY <1>3, <2>2 DEF GoDown
      <3> QED BY <3>1, <3>2, <1>1, <2>1, NotFoundInv
    <2>3. CASE l < m
      <3>1. /\ h' = m - 1 /\ pc' = pc /\ result' = result
            /\ cmp' = cmp /\ size' = size /\ insert' = insert /\ l' = l
        BY <1>3, <2>3, <1>1, <2>1, MiddleInArray DEF GoDown, args
      <3>2. m - 1 \in -1 .. size - 1 /\ l <= m - 1 /\ cmp[(m - 1) + 1] < 0 /\ m - 1 \in Int
        BY <2>1, <2>3, <1>1, MiddleInArray
      <3> HIDE DEF m
      <3> QED
        BY <3>1, <3>2, <1>1, <2>1
        DEF IInv, TypeInv, RangeInv, ResultInv, InsertsInPlace, FindsTheKey, NeverMisses
    <2> QED BY <2>2, <2>3, <1>1, <2>1, MiddleInArray
  <1>4. CASE GoUp
    <2>1. pc = "loop" /\ cmp[m] > 0
      BY <1>4 DEF GoUp
    <2>2. CASE h <= m
      <3>1. m + 1 \in 0 .. size /\ (m + 1 < size => cmp[m + 1] < 0) /\ cmp[(m + 1) - 1] > 0
        <4>1. m = h /\ m + 1 \in 0 .. size /\ (m + 1) - 1 = m
          BY <1>1, <2>1, <2>2, MiddleInArray
        <4>2. h < size - 1 => cmp[h + 1] < 0
          BY <1>1, <2>1 DEF RangeInv
        <4> QED BY <4>1, <4>2, <1>1, <2>1, MiddleInArray
      <3>2. NotFound(m + 1)
        BY <1>4, <2>2 DEF GoUp
      <3> QED BY <3>1, <3>2, <1>1, <2>1, NotFoundInv
    <2>3. CASE h > m
      <3>1. /\ l' = m + 1 /\ pc' = pc /\ result' = result
            /\ cmp' = cmp /\ size' = size /\ insert' = insert /\ h' = h
        BY <1>4, <2>3, <1>1, <2>1, MiddleInArray DEF GoUp, args
      <3>2. m + 1 \in 0 .. size /\ m + 1 <= h /\ cmp[(m + 1) - 1] > 0 /\ m + 1 \in Int
        <4>1. (m + 1) - 1 = m /\ m + 1 \in 0 .. size /\ m + 1 <= h /\ m + 1 \in Int
          BY <2>1, <2>3, <1>1, MiddleInArray
        <4> QED BY <4>1, <2>1
      <3> HIDE DEF m
      <3> QED
        BY <3>1, <3>2, <1>1, <2>1
        DEF IInv, TypeInv, RangeInv, ResultInv, InsertsInPlace, FindsTheKey, NeverMisses
    <2> QED BY <2>2, <2>3, <1>1, <2>1, MiddleInArray
  <1>5. CASE Found
    <2>1. /\ pc = "loop" /\ cmp[m] = 0 /\ pc' = "done"
          /\ result' = (IF insert THEN -1 ELSE m)
          /\ cmp' = cmp /\ size' = size /\ insert' = insert /\ l' = l /\ h' = h
      BY <1>5 DEF Found, Return, args
    <2>2. m \in 0 .. size - 1 /\ m \in Int /\ m # -1 /\ insert \in BOOLEAN
      BY <1>1, <2>1, MiddleInArray DEF TypeInv
    <2> HIDE DEF m
    <2>3. TypeInv' /\ RangeInv'
      BY <1>1, <2>1, <2>2 DEF TypeInv, RangeInv
    <2>4. InsertsInPlace' /\ FindsTheKey' /\ NeverMisses'
      BY <2>1, <2>2 DEF InsertsInPlace, FindsTheKey, NeverMisses
    <2> QED BY <2>3, <2>4 DEF IInv, ResultInv
  <1>6. CASE UNCHANGED vars
    BY <1>1, <1>6
    DEF vars, args, IInv, TypeInv, RangeInv, ResultInv, InsertsInPlace, FindsTheKey,
        NeverMisses, Sorted
  <1> QED BY <1>2, <1>3, <1>4, <1>5, <1>6 DEF Next

LEMMA Invariance == Spec => []IInv
  BY InitInv, StepInv, PTL DEF Spec

(* For every array, sorted or not, an insertion position lies inside the
   array and between a lower and a higher neighbour (InsertsInPlace). *)
THEOREM InsertionPosition == Spec => []InsertsInPlace
  <1>1. IInv => InsertsInPlace
    BY DEF IInv, ResultInv
  <1> QED BY <1>1, Invariance, PTL

(* The middle element that the loop compares is always inside the array. *)
THEOREM SearchInBounds == Spec => []InBounds
  <1>1. IInv => InBounds
    BY SizeAssumption DEF IInv, TypeInv, RangeInv, InBounds
  <1> QED BY <1>1, Invariance, PTL

(* A search returns an element only if it has the key, and an insertion is
   refused only when an equal element is there, in every array. *)
THEOREM FoundIsRight == Spec => []FindsTheKey
  <1>1. IInv => FindsTheKey
    BY DEF IInv, ResultInv
  <1> QED BY <1>1, Invariance, PTL

(* In a sorted array a search misses no element with the key. *)
THEOREM SearchCorrect == Spec => [](FindsTheKey /\ NeverMisses)
  <1>1. IInv => FindsTheKey /\ NeverMisses
    BY DEF IInv, ResultInv
  <1> QED BY <1>1, Invariance, PTL

----------------------------------------------------------------------------
(* The loop computes the operator: what is left to search decides what the
   operator returns. *)
Remaining == pc = "loop" =>
  arr_get_index(cmp, size, insert) = Search(cmp, size, insert)[<<l, h>>]

AgreeInv == IInv /\ Remaining /\ OperatorAgrees

(* The first iteration has the whole array, and none runs on an empty one. *)
LEMMA StartAgrees == IInv /\ Start => (Remaining /\ OperatorAgrees)'
  <1> SUFFICES ASSUME IInv, Start PROVE (Remaining /\ OperatorAgrees)'
    OBVIOUS
  <1>1. /\ pc = "start" /\ l = 0 /\ h = size - 1
    BY DEF IInv, RangeInv, Start
  <1>2. arr_get_index(cmp, size, insert) =
           IF size = 0 THEN (IF insert THEN 0 ELSE -1)
           ELSE Search(cmp, size, insert)[<<l, h>>]
    BY <1>1, SearchUnfold
  <1>3. CASE size = 0
    BY <1>2, <1>3 DEF Start, NotFound, Return, args, Remaining, OperatorAgrees
  <1>4. CASE size # 0
    BY <1>1, <1>2, <1>4 DEF Start, args, Remaining, OperatorAgrees
  <1> QED BY <1>3, <1>4

(* An iteration does what one unfolding of the recursion does. *)
LEMMA LoopAgrees ==
  AgreeInv /\ (GoDown \/ GoUp \/ Found) => (Remaining /\ OperatorAgrees)'
  <1> SUFFICES ASSUME AgreeInv, GoDown \/ GoUp \/ Found
               PROVE  (Remaining /\ OperatorAgrees)'
    OBVIOUS
  <1>1. pc = "loop" /\ TypeInv /\ RangeInv
    BY DEF AgreeInv, IInv, GoDown, GoUp, Found
  <1>2. /\ l \in 0 .. size /\ h \in -1 .. size - 1 /\ size \in Nat
        /\ m \in Int /\ l \in Int /\ h \in Int /\ cmp[m] \in Sign
    BY <1>1, MiddleInArray DEF RangeInv
  <1>3. <<l, h>> \in Bounds(size)
    BY <1>2 DEF Bounds
  <1> DEFINE F == Search(cmp, size, insert)
  <1>4. arr_get_index(cmp, size, insert) = Probe(F, cmp, insert, <<l, h>>)
    BY <1>1, <1>2, <1>3, SearchStep DEF AgreeInv, Remaining
  <1> HIDE DEF F
  <1>5. arr_get_index(cmp, size, insert) =
          IF cmp[m] < 0
          THEN IF l >= m THEN (IF insert THEN m ELSE -1) ELSE F[<<l, m - 1>>]
          ELSE IF cmp[m] > 0
          THEN IF h <= m THEN (IF insert THEN m + 1 ELSE -1) ELSE F[<<m + 1, h>>]
          ELSE IF insert THEN -1 ELSE m
    BY <1>4 DEF Probe, m
  <1> HIDE DEF m
  <1>6. cmp' = cmp /\ size' = size /\ insert' = insert
    BY DEF GoDown, GoUp, Found, NotFound, Return, args
  <1>7. ~ (cmp[m] < 0 /\ cmp[m] > 0) /\ (cmp[m] = 0 => ~ (cmp[m] < 0) /\ ~ (cmp[m] > 0))
    BY <1>2 DEF Sign
  <1>8. CASE GoDown
    <2>1. CASE l >= m
      BY <1>5, <1>6, <1>8, <2>1
      DEF GoDown, NotFound, Return, Remaining, OperatorAgrees
    <2>2. CASE ~ (l >= m)
      BY <1>1, <1>5, <1>6, <1>8, <2>2 DEF GoDown, Remaining, OperatorAgrees, F
    <2> QED BY <2>1, <2>2
  <1>9. CASE GoUp
    <2>1. CASE h <= m
      BY <1>5, <1>6, <1>7, <1>9, <2>1
      DEF GoUp, NotFound, Return, Remaining, OperatorAgrees
    <2>2. CASE ~ (h <= m)
      BY <1>1, <1>5, <1>6, <1>7, <1>9, <2>2 DEF GoUp, Remaining, OperatorAgrees, F
    <2> QED BY <2>1, <2>2
  <1>10. CASE Found
    BY <1>5, <1>6, <1>7, <1>10 DEF Found, Return, Remaining, OperatorAgrees
  <1> QED BY <1>8, <1>9, <1>10

(* What the loop returns is what arr_get_index, the operator of the other
   modules, computes: for every array, key and kind of search. *)
THEOREM LoopComputesOperator == Spec => []OperatorAgrees
  <1>1. Init => AgreeInv
    <2>1. Init => Remaining /\ OperatorAgrees
      BY DEF Init, Remaining, OperatorAgrees
    <2> QED BY <2>1, InitInv DEF AgreeInv
  <1>2. AgreeInv /\ [Next]_vars => AgreeInv'
    <2>1. AgreeInv /\ UNCHANGED vars => (Remaining /\ OperatorAgrees)'
      BY DEF AgreeInv, Remaining, OperatorAgrees, vars, args
    <2>2. AgreeInv => IInv
      BY DEF AgreeInv
    <2>3. AgreeInv /\ [Next]_vars => IInv'
      BY <2>2, StepInv
    <2>4. AgreeInv /\ Start => (Remaining /\ OperatorAgrees)'
      BY <2>2, StartAgrees
    <2> QED BY <2>1, <2>3, <2>4, LoopAgrees DEF Next, AgreeInv
  <1>3. AgreeInv => OperatorAgrees
    BY DEF AgreeInv
  <1> QED BY <1>1, <1>2, <1>3, PTL DEF Spec

(* An iteration leaves at most half of the elements to search. *)
LEMMA RoundHalves ==
  ASSUME IInv, Next, pc = "loop", pc' = "loop"
  PROVE  2 * (h' - l' + 1) <= h - l + 1
  <1>1. /\ l \in Int /\ h \in Int /\ l <= h /\ m \in Int
        /\ 2 * m <= l + h /\ l + h <= 2 * m + 1
    <2>1. l \in Int /\ h \in Int /\ l <= h
      BY MiddleInArray DEF IInv
    <2>2. /\ (l + h) \div 2 \in Int
          /\ 2 * ((l + h) \div 2) <= l + h /\ l + h <= 2 * ((l + h) \div 2) + 1
      BY <2>1
    <2> QED BY <2>1, <2>2 DEF m
  <1> HIDE DEF m
  <1>2. \/ h' = m - 1 /\ l' = l
        \/ l' = m + 1 /\ h' = h
    BY DEF Next, Start, GoDown, GoUp, Found, NotFound, Return
  <1> QED BY <1>1, <1>2

(* Each iteration at least halves the range (arr.c:233), so for every array a
   search makes at most one more than the logarithm of its size. *)
THEOREM EachRoundHalves ==
  Spec => [][pc = "loop" /\ pc' = "loop" => 2 * (h' - l' + 1) <= h - l + 1]_vars
  <1>1. IInv /\ [Next]_vars =>
          [pc = "loop" /\ pc' = "loop" => 2 * (h' - l' + 1) <= h - l + 1]_vars
    BY RoundHalves
  <1> QED BY <1>1, InitInv, StepInv, PTL DEF Spec

=============================================================================
