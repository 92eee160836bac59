----------------------------- MODULE DataLemmas ----------------------------
(***************************************************************************)
(* Induction over natural numbers and over finite sets, stated with sets:  *)
(* the rules of the library take a predicate as a parameter, which no      *)
(* prover instantiates.  What follows about sums over finite sets, with    *)
(* which the bytes of all files are counted.  And the operators of         *)
(* FileArray: arr_insert and arr_remove keep an array well formed and its  *)
(* back pointers right, and what arr_get_index returns.                    *)
(***************************************************************************)
EXTENDS FileArray, FiniteSets, FiniteSetTheorems, FunctionTheorems,
        WellFoundedInduction, Functions, TLAPS

(* A nonempty set of natural numbers has a least element. *)
LEMMA LeastNatural ==
  ASSUME NEW T \in SUBSET Nat, T # {}
  PROVE  \E x \in T : \A y \in T : x <= y
  <1> DEFINE R == OpToRel(<, Nat)
  <1>1. \A x, y \in Nat : x < y => <<x, y>> \in R
    BY DEF OpToRel
  <1>2. IsWellFoundedOn(R, Nat)
    BY NatLessThanWellFounded
  <1> HIDE DEF R
  <1>3. \E x \in T : \A y \in T : ~ (<<y, x>> \in R)
    BY <1>2, WFMin
  <1>4. \A x, y \in Nat : ~ (y < x) => x <= y
    OBVIOUS
  <1> QED BY <1>1, <1>3, <1>4

(* A set that holds 0, and the successor of each of its elements, holds
   every natural number. *)
LEMMA InductionRule ==
  ASSUME NEW S \in SUBSET Nat, 0 \in S, \A m \in S : m + 1 \in S
  PROVE  S = Nat
  <1> SUFFICES ASSUME Nat \ S # {} PROVE FALSE
    OBVIOUS
  <1>1. PICK x \in Nat \ S : \A y \in Nat \ S : x <= y
    BY LeastNatural
  <1>2. x - 1 \in Nat /\ x - 1 \in S
    BY <1>1
  <1> QED BY <1>1, <1>2

(* The same up to a bound. *)
LEMMA BoundedInduction ==
  ASSUME NEW H \in Nat, NEW S, 0 \in S,
         \A m \in 0 .. H - 1 : m \in S => m + 1 \in S
  PROVE  0 .. H \subseteq S
  <1> DEFINE T == {m \in Nat : m <= H => m \in S}
  <1>1. T \in SUBSET Nat /\ 0 \in T
    OBVIOUS
  <1>2. \A m \in T : m + 1 \in T
    OBVIOUS
  <1> HIDE DEF T
  <1>3. T = Nat
    BY <1>1, <1>2, InductionRule
  <1> QED BY <1>3 DEF T

(* A family of sets that holds {} and each of its sets with one more element
   of U, holds every subset of U. *)
LEMMA SubsetInduction ==
  ASSUME NEW U, IsFiniteSet(U), NEW Fam, {} \in Fam,
         \A T \in SUBSET U : \A x \in U \ T : T \in Fam => T \cup {x} \in Fam
  PROVE  SUBSET U \subseteq Fam
  <1> DEFINE S == {n \in Nat : \A T \in SUBSET U : Cardinality(T) = n => T \in Fam}
  <1>1. \A T \in SUBSET U : IsFiniteSet(T) /\ Cardinality(T) \in Nat
    BY FS_Subset, FS_CardinalityType
  <1>2. 0 \in S
    BY <1>1, FS_EmptySet
  <1>3. ASSUME NEW n \in S PROVE n + 1 \in S
    <2> SUFFICES ASSUME NEW T \in SUBSET U, Cardinality(T) = n + 1 PROVE T \in Fam
      OBVIOUS
    <2>1. n \in Nat /\ \A R \in SUBSET U : Cardinality(R) = n => R \in Fam
      OBVIOUS
    <2> HIDE DEF S
    <2>2. PICK x : x \in T
      <3>1. Cardinality(T) # 0
        BY <2>1
      <3> QED BY <3>1, FS_EmptySet
    <2>3. Cardinality(T \ {x}) = n
      <3>1. IsFiniteSet(T)
        BY <1>1
      <3>2. Cardinality(T \ {x}) = Cardinality(T) - 1
        BY <2>2, <3>1, FS_RemoveElement
      <3> QED BY <2>1, <3>2
    <2>4. T \ {x} \in SUBSET U /\ x \in U \ (T \ {x}) /\ (T \ {x}) \cup {x} = T
      BY <2>2
    <2>5. T \ {x} \in Fam
      BY <2>1, <2>3, <2>4
    <2> QED BY <2>4, <2>5
  <1>4. S \in SUBSET Nat
    OBVIOUS
  <1> HIDE DEF S
  <1>5. S = Nat
    BY <1>2, <1>3, <1>4, InductionRule
  <1> QED BY <1>1, <1>5 DEF S

----------------------------------------------------------------------------
(* Sums: SumFunctionOnSet(f, T) adds f[x] for the elements x of T *)

Any(s) == CHOOSE x \in s : TRUE

(* One step of the fold of the community modules. *)
AddOne(it, f, s) == IF s = {} THEN 0 ELSE f[Any(s)] + it[s \ {Any(s)}]

(* The function that the fold defines on the subsets of T. *)
PartialSums(f, T) == CHOOSE it : it = [s \in SUBSET T |-> AddOne(it, f, s)]

LEMMA SumIsFold ==
  ASSUME NEW f, NEW T
  PROVE  SumFunctionOnSet(f, T) = PartialSums(f, T)[T]
  BY DEF SumFunctionOnSet, FoldFunctionOnSet, MapThenFoldSet, PartialSums, AddOne, Any

LEMMA PartialStep ==
  ASSUME NEW f, NEW U, IsFiniteSet(U), NEW r \in SUBSET U
  PROVE  PartialSums(f, U)[r] =
           IF r = {} THEN 0 ELSE f[Any(r)] + PartialSums(f, U)[r \ {Any(r)}]
  <1> DEFINE Small(n) == {s \in SUBSET U : Cardinality(s) < n}
             S == {n \in Nat : \E it : it = [s \in Small(n) |-> AddOne(it, f, s)]}
  <1>1. \A s \in SUBSET U : IsFiniteSet(s) /\ Cardinality(s) \in Nat
    BY FS_Subset, FS_CardinalityType
  <1>2. \A s \in SUBSET U : s # {} => /\ Any(s) \in s /\ s \ {Any(s)} \in SUBSET U
                                      /\ Cardinality(s \ {Any(s)}) = Cardinality(s) - 1
    BY <1>1, FS_RemoveElement DEF Any
  <1>3. 0 \in S
    <2> DEFINE it == [s \in {} |-> 0]
    <2>1. Small(0) = {}
      BY <1>1
    <2> HIDE DEF Small
    <2>2. it = [s \in Small(0) |-> AddOne(it, f, s)]
      BY <2>1
    <2> QED BY <2>2
  <1>4. ASSUME NEW n \in S PROVE n + 1 \in S
    <2>1. PICK it : it = [s \in Small(n) |-> AddOne(it, f, s)]
      OBVIOUS
    <2> DEFINE new == [s \in Small(n + 1) |-> AddOne(it, f, s)]
    <2>2. n \in Nat /\ Small(n) \subseteq Small(n + 1)
      BY <1>1
    <2>3. \A s \in Small(n) : new[s] = it[s]
      <3> HIDE DEF Small
      <3> QED BY <2>1, <2>2
    <2>4. ASSUME NEW s \in Small(n + 1) PROVE AddOne(it, f, s) = AddOne(new, f, s)
      <3>1. CASE s = {}
        BY <3>1 DEF AddOne
      <3>2. CASE s # {}
        <4>1. s \ {Any(s)} \in Small(n)
          BY <1>1, <1>2, <2>2, <3>2
        <4>2. new[s \ {Any(s)}] = it[s \ {Any(s)}]
          BY <4>1, <2>3
        <4> HIDE DEF new
        <4> QED BY <4>2, <3>2 DEF AddOne
      <3> QED BY <3>1, <3>2
    <2>5. new = [s \in Small(n + 1) |-> AddOne(new, f, s)]
      <3> HIDE DEF Small
      <3> QED BY <2>4
    <2> HIDE DEF new, Small
    <2> QED BY <2>2, <2>5
  <1> HIDE DEF Small
  <1>5. S \in SUBSET Nat
    OBVIOUS
  <1> HIDE DEF S
  <1>6. S = Nat
    BY <1>3, <1>4, <1>5, InductionRule
  <1>7. Cardinality(U) + 1 \in S /\ Small(Cardinality(U) + 1) = SUBSET U
    <2>1. \A s \in SUBSET U : Cardinality(s) <= Cardinality(U)
      BY FS_Subset
    <2>2. Cardinality(U) \in Nat
      BY FS_CardinalityType
    <2> QED BY <1>1, <1>6, <2>1, <2>2 DEF Small
  <1>8. \E it : it = [s \in SUBSET U |-> AddOne(it, f, s)]
    BY <1>7 DEF S
  <1> DEFINE it == PartialSums(f, U)
  <1>9. it = [s \in SUBSET U |-> AddOne(it, f, s)]
    BY <1>8 DEF PartialSums
  <1> HIDE DEF it
  <1>10. it[r] = AddOne(it, f, r)
    BY <1>9
  <1> QED BY <1>10 DEF AddOne, it

(* The element that the fold takes first. *)
LEMMA AnyIn == \A s : s # {} => Any(s) \in s
  BY DEF Any

(* The sum over a set does not depend on the rest of the domain. *)
LEMMA PartialSumsAgree ==
  ASSUME NEW f, NEW g, NEW U, NEW V, IsFiniteSet(U), IsFiniteSet(V), V \subseteq U,
         \A x \in V : f[x] = g[x]
  PROVE  \A s \in SUBSET V : PartialSums(f, U)[s] = PartialSums(g, V)[s]
  <1> DEFINE S == {n \in Nat : \A s \in SUBSET V :
                     Cardinality(s) < n => PartialSums(f, U)[s] = PartialSums(g, V)[s]}
  <1>1. \A s \in SUBSET V : IsFiniteSet(s) /\ Cardinality(s) \in Nat
    BY FS_Subset, FS_CardinalityType
  <1>2. 0 \in S
    BY <1>1
  <1>3. ASSUME NEW n \in S PROVE n + 1 \in S
    <2>1. n \in Nat /\ \A s \in SUBSET V :
            Cardinality(s) < n => PartialSums(f, U)[s] = PartialSums(g, V)[s]
      OBVIOUS
    <2> SUFFICES ASSUME NEW s \in SUBSET V, Cardinality(s) < n + 1
                 PROVE  PartialSums(f, U)[s] = PartialSums(g, V)[s]
      BY <2>1
    <2> HIDE DEF S
    <2>2. s \in SUBSET U
      OBVIOUS
    <2>3. PartialSums(f, U)[s] =
            IF s = {} THEN 0 ELSE f[Any(s)] + PartialSums(f, U)[s \ {Any(s)}]
      BY <2>2, PartialStep
    <2>4. PartialSums(g, V)[s] =
            IF s = {} THEN 0 ELSE g[Any(s)] + PartialSums(g, V)[s \ {Any(s)}]
      BY PartialStep
    <2>5. CASE s = {}
      BY <2>3, <2>4, <2>5
    <2>6. CASE s # {}
      <3>1. Any(s) \in s
        BY <2>6, AnyIn
      <3>2. Cardinality(s \ {Any(s)}) = Cardinality(s) - 1
        BY <3>1, <1>1, FS_RemoveElement
      <3>3. s \ {Any(s)} \in SUBSET V /\ Cardinality(s \ {Any(s)}) < n
        BY <3>2, <1>1, <2>1
      <3>4. PartialSums(f, U)[s \ {Any(s)}] = PartialSums(g, V)[s \ {Any(s)}]
        BY <3>3, <2>1
      <3> QED BY <3>1, <3>4, <2>3, <2>4, <2>6
    <2> QED BY <2>5, <2>6
  <1>4. S \in SUBSET Nat
    OBVIOUS
  <1> HIDE DEF S
  <1>5. S = Nat
    BY <1>2, <1>3, <1>4, InductionRule
  <1>6. \A s \in SUBSET V : Cardinality(s) + 1 \in S /\ Cardinality(s) < Cardinality(s) + 1
    BY <1>1, <1>5
  <1> QED BY <1>6 DEF S

(* The sum of nothing. *)
LEMMA SumNothing == ASSUME NEW f PROVE SumFunctionOnSet(f, {}) = 0
  <1>1. PartialSums(f, {})[{}] = 0
    BY PartialStep, FS_EmptySet
  <1> QED BY <1>1, SumIsFold

(* Functions that agree on the set have the same sum. *)
LEMMA SumSame ==
  ASSUME NEW T, IsFiniteSet(T), NEW f, NEW g, \A x \in T : f[x] = g[x]
  PROVE  SumFunctionOnSet(f, T) = SumFunctionOnSet(g, T)
  BY PartialSumsAgree, SumIsFold

LEMMA PartialIsSum ==
  ASSUME NEW U, IsFiniteSet(U), NEW f, NEW T \in SUBSET U
  PROVE  PartialSums(f, U)[T] = SumFunctionOnSet(f, T)
  <1>1. IsFiniteSet(T)
    BY FS_Subset
  <1> QED BY <1>1, PartialSumsAgree, SumIsFold

(* Any element can be added last. *)
LEMMA SumSplit ==
  ASSUME NEW U, IsFiniteSet(U), NEW f, \A x \in U : f[x] \in Nat
  PROVE  \A T \in SUBSET U :
           /\ SumFunctionOnSet(f, T) \in Nat
           /\ \A x \in T : SumFunctionOnSet(f, T) = f[x] + SumFunctionOnSet(f, T \ {x})
  <1> DEFINE Sum(s) == SumFunctionOnSet(f, s)
             Good(T) == Sum(T) \in Nat /\ \A x \in T : Sum(T) = f[x] + Sum(T \ {x})
             S == {n \in Nat : \A T \in SUBSET U : Cardinality(T) < n => Good(T)}
  <1>1. \A T \in SUBSET U : IsFiniteSet(T) /\ Cardinality(T) \in Nat
    BY FS_Subset, FS_CardinalityType
  <1>2. \A T \in SUBSET U : T # {} => /\ Any(T) \in T /\ T \ {Any(T)} \in SUBSET U
                                      /\ Sum(T) = f[Any(T)] + Sum(T \ {Any(T)})
    <2> SUFFICES ASSUME NEW T \in SUBSET U, T # {}
                 PROVE  Any(T) \in T /\ Sum(T) = f[Any(T)] + Sum(T \ {Any(T)})
      OBVIOUS
    <2>1. Any(T) \in T /\ T \ {Any(T)} \in SUBSET U
      BY AnyIn
    <2>2. PartialSums(f, U)[T] = f[Any(T)] + PartialSums(f, U)[T \ {Any(T)}]
      BY PartialStep
    <2> QED BY <2>1, <2>2, PartialIsSum
  <1>3. Sum({}) = 0
    BY SumNothing
  <1> HIDE DEF Sum
  <1>4. 0 \in S
    BY <1>1
  <1>5. ASSUME NEW n \in S PROVE n + 1 \in S
    <2>1. n \in Nat /\ \A T \in SUBSET U : Cardinality(T) < n => Good(T)
      OBVIOUS
    <2> SUFFICES ASSUME NEW T \in SUBSET U, Cardinality(T) < n + 1 PROVE Good(T)
      BY <2>1
    <2> HIDE DEF S
    <2>2. CASE T = {}
      BY <2>2, <1>3
    <2>3. CASE T # {}
      <3> DEFINE c == Any(T)
      <3>1. /\ c \in T /\ c \in U /\ T \ {c} \in SUBSET U
            /\ Sum(T) = f[c] + Sum(T \ {c})
        BY <2>3, <1>2
      <3> HIDE DEF c
      <3>2. \A x \in T : Cardinality(T \ {x}) < n /\ T \ {x} \in SUBSET U
        <4>1. \A x \in T : Cardinality(T \ {x}) = Cardinality(T) - 1
          BY <1>1, FS_RemoveElement
        <4> QED BY <4>1, <1>1, <2>1
      <3>3. \A x \in T : Good(T \ {x})
        <4> HIDE DEF Good
        <4> QED BY <3>2, <2>1
      <3>4. Sum(T) \in Nat
        BY <3>1, <3>3
      <3>5. ASSUME NEW x \in T PROVE Sum(T) = f[x] + Sum(T \ {x})
        <4>1. CASE x = c
          BY <4>1, <3>1
        <4>2. CASE x # c
          <5>1. Sum(T \ {c}) = f[x] + Sum((T \ {c}) \ {x})
            BY <4>2, <3>1, <3>3
          <5>2. Sum(T \ {x}) = f[c] + Sum((T \ {x}) \ {c})
            BY <4>2, <3>1, <3>3
          <5>3. (T \ {c}) \ {x} = (T \ {x}) \ {c}
            OBVIOUS
          <5>4. Cardinality((T \ {x}) \ {c}) < n /\ (T \ {x}) \ {c} \in SUBSET U
            <6>1. Cardinality((T \ {x}) \ {c}) = Cardinality(T \ {x}) - 1
              BY <4>2, <3>1, <3>2, <1>1, FS_RemoveElement
            <6> QED BY <6>1, <3>2, <1>1, <2>1
          <5>5. Sum((T \ {x}) \ {c}) \in Nat
            BY <5>4, <2>1
          <5>6. f[x] \in Nat /\ f[c] \in Nat
            BY <3>1
          <5> HIDE DEF Good
          <5> QED BY <5>1, <5>2, <5>3, <5>5, <5>6, <3>1
        <4> QED BY <4>1, <4>2
      <3> QED BY <3>4, <3>5
    <2> QED BY <2>2, <2>3
  <1>6. S \in SUBSET Nat
    OBVIOUS
  <1> HIDE DEF S
  <1>7. S = Nat
    BY <1>4, <1>5, <1>6, InductionRule
  <1>8. \A T \in SUBSET U : Cardinality(T) + 1 \in S /\ Cardinality(T) < Cardinality(T) + 1
    BY <1>1, <1>7
  <1>9. \A T \in SUBSET U : Good(T)
    <2> HIDE DEF Good
    <2> QED BY <1>8 DEF S
  <1> QED BY <1>9 DEF Sum

(* One element more. *)
LEMMA SumAdd ==
  ASSUME NEW T, IsFiniteSet(T), NEW x, x \notin T, NEW f,
         \A y \in T \cup {x} : f[y] \in Nat
  PROVE  /\ SumFunctionOnSet(f, T) \in Nat
         /\ SumFunctionOnSet(f, T \cup {x}) = f[x] + SumFunctionOnSet(f, T)
  <1>1. PICK U : U = T \cup {x}
    OBVIOUS
  <1>2. IsFiniteSet(U) /\ T \in SUBSET U /\ U \in SUBSET U /\ x \in U /\ U \ {x} = T
    BY <1>1, FS_AddElement
  <1>3. \A y \in U : f[y] \in Nat
    BY <1>1
  <1> QED BY <1>1, <1>2, <1>3, SumSplit

(* The sum when one value changes. *)
LEMMA SumChange ==
  ASSUME NEW U, IsFiniteSet(U), NEW i \in U, NEW f, NEW g,
         \A x \in U : f[x] \in Nat /\ g[x] \in Nat,
         \A x \in U : x # i => g[x] = f[x]
  PROVE  /\ SumFunctionOnSet(f, U) \in Nat /\ SumFunctionOnSet(g, U) \in Nat
         /\ f[i] <= SumFunctionOnSet(f, U)
         /\ SumFunctionOnSet(g, U) = SumFunctionOnSet(f, U) - f[i] + g[i]
  <1>1. PICK T : T = U \ {i}
    OBVIOUS
  <1>2. IsFiniteSet(T) /\ i \notin T /\ T \cup {i} = U
    BY <1>1, FS_RemoveElement
  <1>3. \A x \in T \cup {i} : f[x] \in Nat /\ g[x] \in Nat
    BY <1>2
  <1>4. /\ SumFunctionOnSet(f, T) \in Nat
        /\ SumFunctionOnSet(f, T \cup {i}) = f[i] + SumFunctionOnSet(f, T)
        /\ SumFunctionOnSet(g, T \cup {i}) = g[i] + SumFunctionOnSet(g, T)
    BY <1>2, <1>3, SumAdd
  <1>5. SumFunctionOnSet(f, T) = SumFunctionOnSet(g, T)
    BY <1>1, <1>2, SumSame
  <1>6. /\ f[i] \in Nat /\ g[i] \in Nat
        /\ SumFunctionOnSet(f, U) = f[i] + SumFunctionOnSet(f, T)
        /\ SumFunctionOnSet(g, U) = g[i] + SumFunctionOnSet(f, T)
    BY <1>2, <1>4, <1>5
  <1> QED BY <1>4, <1>6

(* Elements whose value is 0 do not count. *)
LEMMA SumZeros ==
  ASSUME NEW U, IsFiniteSet(U), NEW f, \A x \in U : f[x] \in Nat,
         NEW T \in SUBSET U, \A x \in U \ T : f[x] = 0
  PROVE  SumFunctionOnSet(f, U) = SumFunctionOnSet(f, T)
  <1> DEFINE Fam == {R \in SUBSET U :
                       SumFunctionOnSet(f, R) = SumFunctionOnSet(f, R \cap T)}
  <1>1. {} \in Fam
    <2>1. {} \cap T = {}
      OBVIOUS
    <2> QED BY <2>1
  <1>2. ASSUME NEW R \in SUBSET U, NEW x \in U \ R, R \in Fam PROVE R \cup {x} \in Fam
    <2>1. IsFiniteSet(R) /\ IsFiniteSet(R \cap T) /\ R \cap T \in SUBSET U
      BY FS_Subset, FS_Intersection
    <2>2. SumFunctionOnSet(f, R) = SumFunctionOnSet(f, R \cap T)
      BY <1>2
    <2>3. /\ SumFunctionOnSet(f, R) \in Nat
          /\ SumFunctionOnSet(f, R \cup {x}) = f[x] + SumFunctionOnSet(f, R)
      BY <2>1, SumAdd
    <2>4. CASE x \in T
      <3>1. PICK V, W : V = R \cap T /\ W = (R \cup {x}) \cap T
        OBVIOUS
      <3>2. IsFiniteSet(V) /\ x \notin V /\ \A y \in V \cup {x} : f[y] \in Nat
        BY <2>1, <2>4, <3>1
      <3>3. W = V \cup {x}
        BY <2>4, <3>1
      <3>4. SumFunctionOnSet(f, W) = f[x] + SumFunctionOnSet(f, V)
        BY <3>2, <3>3, SumAdd
      <3>5. SumFunctionOnSet(f, R) = SumFunctionOnSet(f, V)
        BY <2>2, <3>1
      <3>6. SumFunctionOnSet(f, R \cup {x}) = SumFunctionOnSet(f, W)
        BY <2>3, <3>4, <3>5
      <3> QED BY <3>1, <3>6
    <2>5. CASE x \notin T
      <3>1. PICK V, W : V = R \cap T /\ W = (R \cup {x}) \cap T
        OBVIOUS
      <3>2. W = V /\ f[x] = 0
        BY <2>5, <3>1
      <3>3. SumFunctionOnSet(f, R) = SumFunctionOnSet(f, V)
        BY <2>2, <3>1
      <3>4. SumFunctionOnSet(f, R \cup {x}) = SumFunctionOnSet(f, W)
        BY <2>3, <3>2, <3>3
      <3> QED BY <3>1, <3>4
    <2> QED BY <2>4, <2>5
  <1> HIDE DEF Fam
  <1>3. SUBSET U \subseteq Fam
    BY <1>1, <1>2, SubsetInduction
  <1>4. U \in Fam /\ U \cap T = T
    BY <1>3
  <1> QED BY <1>4 DEF Fam

(* A sum of smaller values is smaller. *)
LEMMA SumMonotone ==
  ASSUME NEW U, IsFiniteSet(U), NEW f, NEW g,
         \A x \in U : f[x] \in Nat /\ g[x] \in Nat /\ f[x] <= g[x]
  PROVE  SumFunctionOnSet(f, U) <= SumFunctionOnSet(g, U)
  <1> DEFINE Fam == {R \in SUBSET U :
                       SumFunctionOnSet(f, R) <= SumFunctionOnSet(g, R)}
  <1>1. {} \in Fam
    BY SumNothing
  <1>2. ASSUME NEW R \in SUBSET U, NEW x \in U \ R, R \in Fam PROVE R \cup {x} \in Fam
    <2>1. IsFiniteSet(R)
      BY FS_Subset
    <2>2. /\ SumFunctionOnSet(f, R) \in Nat /\ SumFunctionOnSet(g, R) \in Nat
          /\ SumFunctionOnSet(f, R \cup {x}) = f[x] + SumFunctionOnSet(f, R)
          /\ SumFunctionOnSet(g, R \cup {x}) = g[x] + SumFunctionOnSet(g, R)
      BY <2>1, SumAdd
    <2>3. SumFunctionOnSet(f, R) <= SumFunctionOnSet(g, R)
      BY <1>2
    <2>4. SumFunctionOnSet(f, R \cup {x}) <= SumFunctionOnSet(g, R \cup {x})
      BY <2>2, <2>3
    <2> QED BY <2>4
  <1> HIDE DEF Fam
  <1>3. U \in Fam
    BY <1>1, <1>2, SubsetInduction
  <1> QED BY <1>3 DEF Fam

(* A sum does not depend on what the elements are called. *)
LEMMA SumRenamed ==
  ASSUME NEW U, IsFiniteSet(U), NEW f, NEW g, NEW h,
         \A x \in U : f[x] \in Nat /\ g[h[x]] = f[x],
         \A x, y \in U : h[x] = h[y] => x = y
  PROVE  SumFunctionOnSet(g, {h[x] : x \in U}) = SumFunctionOnSet(f, U)
  <1> DEFINE Image(R) == {h[x] : x \in R}
             Fam == {R \in SUBSET U :
                       /\ IsFiniteSet(Image(R))
                       /\ SumFunctionOnSet(g, Image(R)) = SumFunctionOnSet(f, R)}
  <1>1. {} \in Fam
    <2>1. Image({}) = {}
      OBVIOUS
    <2> QED BY <2>1, SumNothing, FS_EmptySet
  <1>2. ASSUME NEW R \in SUBSET U, NEW x \in U \ R, R \in Fam PROVE R \cup {x} \in Fam
    <2>1. PICK I : I = Image(R)
      OBVIOUS
    <2>2. /\ IsFiniteSet(R) /\ IsFiniteSet(I)
          /\ SumFunctionOnSet(g, I) = SumFunctionOnSet(f, R)
      BY <1>2, <2>1, FS_Subset
    <2>3. /\ Image(R \cup {x}) = I \cup {h[x]} /\ h[x] \notin I
          /\ \A y \in I \cup {h[x]} : g[y] \in Nat
      BY <2>1
    <2> HIDE DEF Image
    <2>4. PICK z : z = h[x]
      OBVIOUS
    <2>5. z \notin I /\ \A y \in I \cup {z} : g[y] \in Nat
      BY <2>3, <2>4
    <2>6. /\ SumFunctionOnSet(f, R \cup {x}) = f[x] + SumFunctionOnSet(f, R)
          /\ SumFunctionOnSet(g, I \cup {z}) = g[z] + SumFunctionOnSet(g, I)
          /\ IsFiniteSet(I \cup {z})
      BY <2>2, <2>5, SumAdd, FS_AddElement
    <2>7. g[z] = f[x]
      BY <2>4
    <2> QED BY <2>2, <2>3, <2>4, <2>6, <2>7
  <1> HIDE DEF Fam
  <1>3. U \in Fam
    BY <1>1, <1>2, SubsetInduction
  <1> QED BY <1>3 DEF Fam

----------------------------------------------------------------------------
(* The array operators *)

(* The fields of the array that arr_insert returns. *)
LEMMA InsertFields ==
  ASSUME NEW S, NEW arr, IsArray(arr, S), NEW f, NEW index
  PROVE  LET new == arr_insert(index, f, arr)
             shifted == {arr.list[k] : k \in index .. arr.size - 1}
         IN  /\ new = [size |-> new.size, list |-> new.list, pos |-> new.pos]
             /\ new.size = arr.size + 1
             /\ new.list = [k \in 0 .. arr.size |->
                              IF k < index THEN arr.list[k]
                              ELSE IF k = index THEN f ELSE arr.list[k - 1]]
             /\ new.pos = [g \in S |->
                             IF g = f THEN index
                             ELSE IF g \in shifted THEN arr.pos[g] + 1 ELSE arr.pos[g]]
  BY DEF arr_insert, IsArray

(* arr_insert of a file that the array does not hold: every element of the
   array, and the new one, is where its back pointer says. *)
LEMMA InsertKeeps ==
  ASSUME NEW S, NEW arr, IsArray(arr, S), PointsBack(arr, S),
         NEW f \in S, arr.pos[f] = -1, NEW index \in 0 .. arr.size
  PROVE  LET new == arr_insert(index, f, arr)
         IN  /\ IsArray(new, S) /\ PointsBack(new, S)
             /\ new.pos[f] = index
             /\ \A g \in S : g # f => (new.pos[g] = -1 <=> arr.pos[g] = -1)
  <1> DEFINE new == arr_insert(index, f, arr)
             shifted == {arr.list[k] : k \in index .. arr.size - 1}
  <1>1. /\ new = [size |-> new.size, list |-> new.list, pos |-> new.pos]
        /\ new.size = arr.size + 1
        /\ new.list = [k \in 0 .. arr.size |->
                         IF k < index THEN arr.list[k]
                         ELSE IF k = index THEN f ELSE arr.list[k - 1]]
        /\ new.pos = [g \in S |->
                        IF g = f THEN index
                        ELSE IF g \in shifted THEN arr.pos[g] + 1 ELSE arr.pos[g]]
    BY InsertFields
  <1>2. /\ arr.size \in Nat /\ index \in Int
        /\ arr.list \in [0 .. arr.size - 1 -> S] /\ arr.pos \in [S -> Int]
        /\ new.size - 1 = arr.size
    BY <1>1 DEF IsArray
  <1> HIDE DEF new
  <1>3. \A k \in 0 .. arr.size - 1 : arr.pos[arr.list[k]] = k
    BY DEF PointsBack
  <1>4. \A g \in S : g \in shifted <=> arr.pos[g] >= index
    BY <1>2, <1>3 DEF PointsBack
  <1> HIDE DEF shifted
  <1>5. \A g \in S : new.pos[g] = IF g = f THEN index
                                  ELSE IF arr.pos[g] >= index THEN arr.pos[g] + 1
                                  ELSE arr.pos[g]
    BY <1>1, <1>4
  <1>6. IsArray(new, S)
    <2>1. new.list \in [0 .. new.size - 1 -> S]
      <3>1. ASSUME NEW k \in 0 .. arr.size
            PROVE  (IF k < index THEN arr.list[k]
                    ELSE IF k = index THEN f ELSE arr.list[k - 1]) \in S
        <4>1. /\ k < index => k \in 0 .. arr.size - 1
              /\ k > index => k - 1 \in 0 .. arr.size - 1
              /\ k < index \/ k = index \/ k > index
          BY <1>2
        <4> QED BY <4>1, <1>2
      <3> QED BY <3>1, <1>1, <1>2
    <2>2. new.pos \in [S -> Int]
      BY <1>1, <1>2
    <2> QED BY <1>1, <1>2, <2>1, <2>2 DEF IsArray
  <1>7. \A k \in 0 .. arr.size - 1 : arr.list[k] \in S /\ arr.list[k] # f
    BY <1>2, <1>3
  <1>8. ASSUME NEW k \in 0 .. new.size - 1 PROVE new.pos[new.list[k]] = k
    <2>1. CASE k < index
      <3>1. new.list[k] = arr.list[k] /\ k \in 0 .. arr.size - 1
        BY <1>1, <1>2, <2>1
      <3> QED BY <3>1, <1>3, <1>5, <1>7, <1>2, <2>1
    <2>2. CASE k = index
      BY <1>1, <1>2, <1>5, <2>2
    <2>3. CASE k > index
      <3>1. new.list[k] = arr.list[k - 1] /\ k - 1 \in 0 .. arr.size - 1
        BY <1>1, <1>2, <2>3
      <3>2. arr.pos[arr.list[k - 1]] = k - 1
        BY <3>1, <1>3
      <3>3. arr.list[k - 1] \in S /\ arr.list[k - 1] # f
        BY <3>1, <1>7
      <3> QED BY <3>1, <3>2, <3>3, <1>5, <1>2, <2>3
    <2> QED BY <2>1, <2>2, <2>3, <1>2
  <1>9. ASSUME NEW g \in S, new.pos[g] # -1
        PROVE  new.pos[g] \in 0 .. new.size - 1 /\ new.list[new.pos[g]] = g
    <2>1. CASE g = f
      BY <2>1, <1>1, <1>2, <1>5
    <2>2. CASE g # f
      <3>1. arr.pos[g] \in 0 .. arr.size - 1 /\ arr.list[arr.pos[g]] = g
        BY <1>2, <1>5, <1>9, <2>2 DEF PointsBack
      <3>2. CASE arr.pos[g] >= index
        <4>1. new.pos[g] = arr.pos[g] + 1
          BY <3>2, <2>2, <1>5
        <4>2. arr.pos[g] + 1 \in 0 .. arr.size /\ arr.pos[g] + 1 > index
          BY <3>1, <3>2, <1>2
        <4>3. new.list[arr.pos[g] + 1] = arr.list[arr.pos[g] + 1 - 1]
          BY <4>2, <1>1, <1>2
        <4>4. arr.pos[g] + 1 - 1 = arr.pos[g]
          BY <3>1, <1>2
        <4> QED BY <4>1, <4>2, <4>3, <4>4, <3>1, <1>2
      <3>3. CASE arr.pos[g] < index
        <4>1. new.pos[g] = arr.pos[g]
          BY <3>1, <3>3, <2>2, <1>2, <1>5
        <4>2. arr.pos[g] \in 0 .. arr.size
          BY <3>1, <1>2
        <4>3. new.list[arr.pos[g]] = arr.list[arr.pos[g]]
          BY <4>2, <3>3, <1>1
        <4> QED BY <4>1, <4>2, <4>3, <3>1, <1>2
      <3> QED BY <3>1, <3>2, <3>3, <1>2
    <2> QED BY <2>1, <2>2
  <1>10. PointsBack(new, S)
    BY <1>8, <1>9 DEF PointsBack
  <1>11. \A g \in S : g # f => (new.pos[g] = -1 <=> arr.pos[g] = -1)
    BY <1>2, <1>5 DEF PointsBack
  <1> QED BY <1>5, <1>6, <1>10, <1>11 DEF new

(* The fields of the array that arr_remove returns. *)
LEMMA RemoveFields ==
  ASSUME NEW S, NEW arr, IsArray(arr, S), NEW index
  PROVE  LET new == arr_remove(index, arr)
             shifted == {arr.list[k] : k \in index + 1 .. arr.size - 1}
         IN  /\ new = [size |-> new.size, list |-> new.list, pos |-> new.pos]
             /\ new.size = arr.size - 1
             /\ new.list = [k \in 0 .. arr.size - 2 |->
                              IF k < index THEN arr.list[k] ELSE arr.list[k + 1]]
             /\ new.pos = [g \in S |->
                             IF g = arr.list[index] THEN -1
                             ELSE IF g \in shifted THEN arr.pos[g] - 1 ELSE arr.pos[g]]
  BY DEF arr_remove, IsArray

(* arr_remove by the back pointer of a file: that file leaves, and every
   other element is where its back pointer says. *)
LEMMA RemoveKeeps ==
  ASSUME NEW S, NEW arr, IsArray(arr, S), PointsBack(arr, S),
         NEW f \in S, arr.pos[f] # -1
  PROVE  LET new == arr_remove(arr.pos[f], arr)
         IN  /\ IsArray(new, S) /\ PointsBack(new, S)
             /\ new.pos[f] = -1
             /\ \A g \in S : g # f => (new.pos[g] = -1 <=> arr.pos[g] = -1)
  <1> DEFINE index == arr.pos[f]
             new == arr_remove(index, arr)
             shifted == {arr.list[k] : k \in index + 1 .. arr.size - 1}
  <1>1. /\ new = [size |-> new.size, list |-> new.list, pos |-> new.pos]
        /\ new.size = arr.size - 1
        /\ new.list = [k \in 0 .. arr.size - 2 |->
                         IF k < index THEN arr.list[k] ELSE arr.list[k + 1]]
        /\ new.pos = [g \in S |->
                        IF g = arr.list[index] THEN -1
                        ELSE IF g \in shifted THEN arr.pos[g] - 1 ELSE arr.pos[g]]
    BY RemoveFields
  <1>2. /\ arr.size \in Nat
        /\ index \in 0 .. arr.size - 1 /\ arr.list[index] = f
        /\ arr.list \in [0 .. arr.size - 1 -> S] /\ arr.pos \in [S -> Int]
        /\ new.size - 1 = arr.size - 2
    BY <1>1 DEF IsArray, PointsBack
  <1> HIDE DEF new, index
  <1>3. \A k \in 0 .. arr.size - 1 : arr.pos[arr.list[k]] = k
    BY DEF PointsBack
  <1>4. ASSUME NEW g \in S PROVE g \in shifted <=> arr.pos[g] > index
    <2>1. ASSUME arr.pos[g] > index PROVE g \in shifted
      <3>1. arr.pos[g] \in index + 1 .. arr.size - 1 /\ arr.list[arr.pos[g]] = g
        BY <1>2, <2>1 DEF PointsBack
      <3> QED BY <3>1
    <2>2. ASSUME NEW k \in index + 1 .. arr.size - 1, arr.list[k] = g
          PROVE  arr.pos[g] > index
      BY <1>2, <1>3, <2>2
    <2> QED BY <2>1, <2>2
  <1>5. \A g \in S : new.pos[g] = IF g = f THEN -1
                                  ELSE IF arr.pos[g] > index THEN arr.pos[g] - 1
                                  ELSE arr.pos[g]
    BY <1>1, <1>2, <1>4
  <1> HIDE DEF shifted
  <1>6. IsArray(new, S)
    <2>1. new.list \in [0 .. new.size - 1 -> S]
      <3>1. ASSUME NEW k \in 0 .. arr.size - 2
            PROVE  (IF k < index THEN arr.list[k] ELSE arr.list[k + 1]) \in S
        <4>1. k \in 0 .. arr.size - 1 /\ k + 1 \in 0 .. arr.size - 1
          BY <1>2
        <4> QED BY <4>1, <1>2
      <3> QED BY <3>1, <1>1, <1>2
    <2>2. new.pos \in [S -> Int]
      BY <1>1, <1>2
    <2> QED BY <1>1, <1>2, <2>1, <2>2 DEF IsArray
  <1>7. ASSUME NEW k \in 0 .. new.size - 1 PROVE new.pos[new.list[k]] = k
    <2>1. CASE k < index
      <3>1. new.list[k] = arr.list[k] /\ k \in 0 .. arr.size - 1
        BY <1>1, <1>2, <2>1
      <3>2. arr.pos[arr.list[k]] = k /\ arr.list[k] \in S /\ arr.list[k] # f
        BY <3>1, <1>2, <1>3, <2>1
      <3> QED BY <3>1, <3>2, <1>2, <1>5, <2>1
    <2>2. CASE k >= index
      <3>1. new.list[k] = arr.list[k + 1] /\ k + 1 \in 0 .. arr.size - 1
        BY <1>1, <1>2, <2>2
      <3>2. arr.pos[arr.list[k + 1]] = k + 1 /\ arr.list[k + 1] \in S
        BY <3>1, <1>2, <1>3
      <3>3. arr.list[k + 1] # f
        BY <3>1, <3>2, <1>2, <1>3, <2>2
      <3> QED BY <3>1, <3>2, <3>3, <1>2, <1>5, <2>2
    <2> QED BY <2>1, <2>2, <1>2
  <1>8. ASSUME NEW g \in S, new.pos[g] # -1
        PROVE  new.pos[g] \in 0 .. new.size - 1 /\ new.list[new.pos[g]] = g
    <2>1. g # f /\ arr.pos[g] # index
      BY <1>2, <1>5, <1>8 DEF PointsBack
    <2>2. arr.pos[g] \in 0 .. arr.size - 1 /\ arr.list[arr.pos[g]] = g
      BY <1>2, <1>5, <1>8, <2>1 DEF PointsBack
    <2>3. CASE arr.pos[g] > index
      <3>1. new.pos[g] = arr.pos[g] - 1
        BY <2>1, <2>3, <1>5
      <3>2. arr.pos[g] - 1 \in 0 .. arr.size - 2 /\ ~ (arr.pos[g] - 1 < index)
        BY <2>2, <2>3, <1>2, SMTT(30)
      <3>3. new.list[arr.pos[g] - 1] = arr.list[arr.pos[g] - 1 + 1]
        BY <3>2, <1>1
      <3>4. arr.pos[g] - 1 + 1 = arr.pos[g]
        BY <2>2, <1>2
      <3> QED BY <3>1, <3>2, <3>3, <3>4, <2>2, <1>2
    <2>4. CASE arr.pos[g] < index
      <3>1. new.pos[g] = arr.pos[g]
        BY <2>1, <2>2, <2>4, <1>2, <1>5
      <3>2. arr.pos[g] \in 0 .. arr.size - 2
        BY <2>2, <2>4, <1>2
      <3>3. new.list[arr.pos[g]] = arr.list[arr.pos[g]]
        BY <3>2, <2>4, <1>1
      <3> QED BY <3>1, <3>2, <3>3, <2>2, <1>2
    <2> QED BY <2>1, <2>2, <2>3, <2>4, <1>2
  <1>9. PointsBack(new, S)
    BY <1>7, <1>8 DEF PointsBack
  <1>10. new.pos[f] = -1
    BY <1>5
  <1>11. \A g \in S : g # f => (new.pos[g] = -1 <=> arr.pos[g] = -1)
    BY <1>2, <1>5 DEF PointsBack
  <1> QED BY <1>6, <1>9, <1>10, <1>11 DEF new, index

(* An array has at most as many elements as there are files, and fewer when
   some file is outside: the "array full" assertion (arr.c:172). *)
LEMMA ArraySize ==
  ASSUME NEW S, IsFiniteSet(S), NEW arr, IsArray(arr, S), PointsBack(arr, S)
  PROVE  /\ arr.size <= Cardinality(S)
         /\ \A f \in S : arr.pos[f] = -1 => arr.size < Cardinality(S)
  <1>1. arr.size \in Nat /\ arr.list \in [0 .. arr.size - 1 -> S]
    BY DEF IsArray
  <1>2. IsFiniteSet(0 .. arr.size - 1) /\ Cardinality(0 .. arr.size - 1) = arr.size
    BY <1>1, FS_Interval, SMTT(30)
  <1>3. arr.list \in Injection(0 .. arr.size - 1, S)
    <2>1. ASSUME NEW j \in 0 .. arr.size - 1, NEW k \in 0 .. arr.size - 1,
                 arr.list[j] = arr.list[k]
          PROVE  j = k
      BY <2>1 DEF PointsBack
    <2> QED BY <2>1, <1>1 DEF Injection, IsInjective
  <1>4. /\ Cardinality(0 .. arr.size - 1) <= Cardinality(S)
        /\ Cardinality(0 .. arr.size - 1) = Cardinality(S)
             <=> arr.list \in Surjection(0 .. arr.size - 1, S)
    BY <1>3, FS_Injection
  <1>5. ASSUME NEW f \in S, arr.pos[f] = -1
        PROVE  arr.list \notin Surjection(0 .. arr.size - 1, S)
    BY <1>1, <1>5 DEF PointsBack, Surjection
  <1>6. Cardinality(S) \in Nat
    BY FS_CardinalityType
  <1> QED BY <1>1, <1>2, <1>4, <1>5, <1>6

----------------------------------------------------------------------------
(* What arr_get_index returns *)

(* One iteration of the search between the given bounds, with F for the
   result of the iterations that follow. *)
Probe(F, cmp, insert, bounds) ==
  LET l == bounds[1]
      h == bounds[2]
      m == (l + h) \div 2
  IN  IF cmp[m] < 0
      THEN IF l >= m THEN (IF insert THEN m ELSE -1) ELSE F[<<l, m - 1>>]
      ELSE IF cmp[m] > 0
      THEN IF h <= m THEN (IF insert THEN m + 1 ELSE -1) ELSE F[<<m + 1, h>>]
      ELSE IF insert THEN -1 ELSE m

Bounds(size) == (0 .. size) \X (-1 .. size - 1)

(* The recursive function of arr_get_index. *)
Search(cmp, size, insert) ==
  CHOOSE F : F = [bounds \in Bounds(size) |-> Probe(F, cmp, insert, bounds)]

LEMMA SearchUnfold ==
  ASSUME NEW cmp, NEW size, NEW insert
  PROVE  arr_get_index(cmp, size, insert) =
           IF size = 0 THEN (IF insert THEN 0 ELSE -1)
           ELSE Search(cmp, size, insert)[<<0, size - 1>>]
  BY DEF arr_get_index, Search, Probe, Bounds

(* The middle of the range, and the ranges on its two sides. *)
LEMMA Halves ==
  ASSUME NEW size \in Nat, NEW l \in 0 .. size, NEW h \in -1 .. size - 1,
         NEW mid, mid = (l + h) \div 2
  PROVE  /\ mid \in Int
         /\ l < mid => l <= h /\ <<l, mid - 1>> \in Bounds(size) /\ l <= mid - 1
         /\ h > mid => <<mid + 1, h>> \in Bounds(size) /\ mid >= l - 1
         /\ l <= h => mid \in l .. h
         /\ l > h => l > mid /\ h <= mid
  BY DEF Bounds

(* A range is searched further only in a shorter range. *)
LEMMA ProbeLocal ==
  ASSUME NEW size \in Nat, NEW cmp, NEW insert, NEW F, NEW G, NEW bounds \in Bounds(size),
         \A b \in Bounds(size) :
           b[1] <= b[2] /\ b[2] - b[1] < bounds[2] - bounds[1] => F[b] = G[b]
  PROVE  Probe(F, cmp, insert, bounds) = Probe(G, cmp, insert, bounds)
  <1>1. PICK l \in 0 .. size, h \in -1 .. size - 1 : bounds = <<l, h>>
    BY DEF Bounds
  <1>2. PICK mid : mid = (l + h) \div 2
    OBVIOUS
  <1>3. /\ mid \in Int /\ l \in Int /\ h \in Int
        /\ l < mid => l <= h /\ <<l, mid - 1>> \in Bounds(size) /\ l <= mid - 1
        /\ h > mid => <<mid + 1, h>> \in Bounds(size)
        /\ l <= h => l <= mid /\ mid <= h
        /\ l > h => l > mid /\ h <= mid
    BY <1>2, Halves
  <1>4. l < mid => F[<<l, mid - 1>>] = G[<<l, mid - 1>>]
    BY <1>1, <1>3
  <1>5. h > mid => F[<<mid + 1, h>>] = G[<<mid + 1, h>>]
    BY <1>1, <1>3
  <1>6. /\ ~ (l >= mid) => l < mid
        /\ ~ (h <= mid) => h > mid
    BY <1>3
  <1> QED BY <1>1, <1>2, <1>4, <1>5, <1>6 DEF Probe

(* The search ends: its recursion defines a function. *)
LEMMA SearchDefined ==
  ASSUME NEW cmp, NEW size \in Nat, NEW insert
  PROVE  LET F == Search(cmp, size, insert)
         IN  F = [bounds \in Bounds(size) |-> Probe(F, cmp, insert, bounds)]
  <1> DEFINE B == Bounds(size)
             Upto(n) == {b \in B : b[2] - b[1] + size + 1 < n}
             S == {n \in Nat : \E F : F = [b \in Upto(n) |-> Probe(F, cmp, insert, b)]}
  <1>1. \A b \in B : /\ b[1] \in 0 .. size /\ b[2] \in -1 .. size - 1
                     /\ b[2] - b[1] + size + 1 \in Nat
                     /\ b[2] - b[1] + size + 1 < 2 * size + 1
    BY DEF Bounds
  <1>2. 0 \in S
    <2> DEFINE F == [b \in {} |-> 0]
    <2>1. Upto(0) = {}
      BY <1>1
    <2> HIDE DEF Upto
    <2>2. F = [b \in Upto(0) |-> Probe(F, cmp, insert, b)]
      BY <2>1
    <2> QED BY <2>2
  <1>3. ASSUME NEW n \in S PROVE n + 1 \in S
    <2>1. PICK F : F = [b \in Upto(n) |-> Probe(F, cmp, insert, b)]
      OBVIOUS
    <2> DEFINE G == [b \in Upto(n + 1) |-> Probe(F, cmp, insert, b)]
    <2>2. Upto(n) \subseteq Upto(n + 1)
      BY <1>1
    <2>3. \A b \in Upto(n) : G[b] = F[b]
      <3> HIDE DEF Upto
      <3> QED BY <2>1, <2>2
    <2>4. ASSUME NEW b \in Upto(n + 1)
          PROVE  Probe(F, cmp, insert, b) = Probe(G, cmp, insert, b)
      <3>1. b \in Bounds(size)
        OBVIOUS
      <3>2. ASSUME NEW c \in Bounds(size), c[2] - c[1] < b[2] - b[1]
            PROVE  F[c] = G[c]
        <4>1. c \in Upto(n)
          BY <3>1, <3>2, <1>1
        <4> QED BY <4>1, <2>3
      <3> HIDE DEF G
      <3> QED BY <3>1, <3>2, ProbeLocal
    <2>5. G = [b \in Upto(n + 1) |-> Probe(G, cmp, insert, b)]
      <3> HIDE DEF Upto
      <3> QED BY <2>4
    <2> HIDE DEF G, Upto
    <2> QED BY <2>5
  <1> HIDE DEF Upto
  <1>4. S \in SUBSET Nat
    OBVIOUS
  <1> HIDE DEF S
  <1>5. S = Nat
    BY <1>2, <1>3, <1>4, InductionRule
  <1>6. Upto(2 * size + 1) = Bounds(size)
    BY <1>1 DEF Upto
  <1>7. 2 * size + 1 \in S
    BY <1>5
  <1> HIDE DEF B
  <1>8. \E F : F = [b \in Bounds(size) |-> Probe(F, cmp, insert, b)]
    BY <1>6, <1>7 DEF S
  <1> QED BY <1>8 DEF Search

(* The search between given bounds is the search in one of its halves,
   unless the middle element decides. *)
LEMMA SearchStep ==
  ASSUME NEW cmp, NEW size \in Nat, NEW insert, NEW bounds \in Bounds(size)
  PROVE  Search(cmp, size, insert)[bounds] =
           Probe(Search(cmp, size, insert), cmp, insert, bounds)
  BY SearchDefined

(* The key belongs at position p of the array: between an element that
   compares below it and one that compares above. *)
Gap(cmp, size, p) ==
  /\ p \in 0 .. size
  /\ p > 0 => cmp[p - 1] > 0
  /\ p < size => cmp[p] < 0

Hit(cmp, size, p) == p \in 0 .. size - 1 /\ cmp[p] = 0

(* r is the answer to a search that ends in a gap or at an equal element. *)
Answer(cmp, size, insert, r) ==
  \E p \in 0 .. size :
    \/ Gap(cmp, size, p) /\ r = IF insert THEN p ELSE -1
    \/ Hit(cmp, size, p) /\ r = IF insert THEN -1 ELSE p

LEMMA RangeAnswer ==
  ASSUME NEW size \in Nat, NEW cmp \in [0 .. size - 1 -> Int], NEW insert,
         NEW l \in 0 .. size, NEW h \in -1 .. size - 1, l <= h,
         l > 0 => cmp[l - 1] > 0, h < size - 1 => cmp[h + 1] < 0
  PROVE  Answer(cmp, size, insert, Search(cmp, size, insert)[<<l, h>>])
  <1> DEFINE F == Search(cmp, size, insert)
             Ok(b) == /\ b[1] <= b[2]
                      /\ b[1] > 0 => cmp[b[1] - 1] > 0
                      /\ b[2] < size - 1 => cmp[b[2] + 1] < 0
             S == {n \in Nat : \A b \in Bounds(size) :
                     Ok(b) /\ b[2] - b[1] < n => Answer(cmp, size, insert, F[b])}
  <1>1. 0 \in S
    BY DEF Bounds
  <1>2. ASSUME NEW i \in 0 .. size, NEW j \in -1 .. size - 1
        PROVE  F[<<i, j>>] = Probe(F, cmp, insert, <<i, j>>)
    <2>1. <<i, j>> \in Bounds(size)
      BY DEF Bounds
    <2> QED BY <2>1, SearchStep
  <1>3. ASSUME NEW i \in 0 .. size, NEW j \in -1 .. size - 1, i <= j,
               NEW mid, mid = (i + j) \div 2
        PROVE  /\ mid \in Int /\ i <= mid /\ mid <= j
               /\ i < mid => <<i, mid - 1>> \in Bounds(size)
               /\ j > mid => <<mid + 1, j>> \in Bounds(size)
    <2>1. mid \in i .. j
      BY <1>3, Halves
    <2>2. /\ i < mid => <<i, mid - 1>> \in Bounds(size)
          /\ j > mid => <<mid + 1, j>> \in Bounds(size)
      BY <1>3, Halves
    <2> QED BY <2>1, <2>2
  <1>4. ASSUME NEW n \in S PROVE n + 1 \in S
    <2> SUFFICES ASSUME NEW b \in Bounds(size), Ok(b), b[2] - b[1] < n + 1
                 PROVE  Answer(cmp, size, insert, F[b])
      OBVIOUS
    <2>1. /\ n \in Nat
          /\ \A c \in Bounds(size) : Ok(c) /\ c[2] - c[1] < n => Answer(cmp, size, insert, F[c])
      OBVIOUS
    <2> HIDE DEF F, S
    <2>2. PICK i \in 0 .. size, j \in -1 .. size - 1 : b = <<i, j>>
      BY DEF Bounds
    <2>3. PICK mid : mid = (i + j) \div 2
      OBVIOUS
    <2>4. /\ i <= j /\ j - i < n + 1 /\ i \in Int /\ j \in Int /\ n \in Nat
          /\ i > 0 => cmp[i - 1] > 0
          /\ j < size - 1 => cmp[j + 1] < 0
      BY <2>2, <2>1
    <2>5. /\ mid \in 0 .. size - 1 /\ mid \in Int /\ i <= mid /\ mid <= j /\ cmp[mid] \in Int
          /\ i < mid => <<i, mid - 1>> \in Bounds(size)
          /\ j > mid => <<mid + 1, j>> \in Bounds(size)
      <3>1. /\ mid \in Int /\ i <= mid /\ mid <= j
            /\ i < mid => <<i, mid - 1>> \in Bounds(size)
            /\ j > mid => <<mid + 1, j>> \in Bounds(size)
        BY <1>3, <2>3, <2>4
      <3>2. mid \in 0 .. size - 1
        BY <3>1, <2>4
      <3> QED BY <3>1, <3>2
    <2>6. F[b] = Probe(F, cmp, insert, <<i, j>>)
      BY <2>2, <1>2
    <2>7. F[b] = IF cmp[mid] < 0
                 THEN IF i >= mid THEN (IF insert THEN mid ELSE -1) ELSE F[<<i, mid - 1>>]
                 ELSE IF cmp[mid] > 0
                 THEN IF j <= mid THEN (IF insert THEN mid + 1 ELSE -1)
                      ELSE F[<<mid + 1, j>>]
                 ELSE IF insert THEN -1 ELSE mid
      BY <2>6, <2>3 DEF Probe
    <2>8. CASE cmp[mid] < 0
      <3>1. CASE i >= mid
        <4>1. mid = i /\ Gap(cmp, size, mid) /\ mid \in 0 .. size
          BY <2>4, <2>5, <2>8, <3>1 DEF Gap
        <4> QED BY <4>1, <2>7, <2>8, <3>1 DEF Answer
      <3>2. CASE i < mid
        <4>1. Ok(<<i, mid - 1>>) /\ (mid - 1) - i < n /\ (mid - 1) + 1 = mid
          BY <2>4, <2>5, <2>8, <3>2
        <4>2. F[b] = F[<<i, mid - 1>>]
          BY <2>4, <2>5, <2>7, <2>8, <3>2
        <4> QED BY <4>1, <4>2, <2>5, <2>1, <3>2
      <3> QED BY <3>1, <3>2, <2>4, <2>5
    <2>9. CASE cmp[mid] > 0
      <3>1. CASE j <= mid
        <4>1. mid = j /\ mid + 1 \in 0 .. size /\ (mid + 1) - 1 = mid
          BY <2>4, <2>5, <3>1
        <4>2. Gap(cmp, size, mid + 1)
          BY <4>1, <2>4, <2>5, <2>9 DEF Gap
        <4> QED BY <4>1, <4>2, <2>5, <2>7, <2>9, <3>1 DEF Answer
      <3>2. CASE j > mid
        <4>1. Ok(<<mid + 1, j>>) /\ j - (mid + 1) < n
          <5>1. (mid + 1) - 1 = mid
            BY <2>5
          <5> QED BY <5>1, <2>4, <2>5, <2>9, <3>2
        <4>2. F[b] = F[<<mid + 1, j>>]
          BY <2>4, <2>5, <2>7, <2>9, <3>2, SMTT(30)
        <4> QED BY <4>1, <4>2, <2>5, <2>1, <3>2
      <3> QED BY <3>1, <3>2, <2>4, <2>5
    <2>10. CASE cmp[mid] = 0
      <3>1. Hit(cmp, size, mid) /\ mid \in 0 .. size
        BY <2>5, <2>10 DEF Hit
      <3>2. F[b] = IF insert THEN -1 ELSE mid
        BY <2>7, <2>10
      <3> QED BY <3>1, <3>2 DEF Answer
    <2>11. cmp[mid] < 0 \/ cmp[mid] > 0 \/ cmp[mid] = 0
      BY <2>5
    <2> QED BY <2>8, <2>9, <2>10, <2>11
  <1>5. S \in SUBSET Nat
    OBVIOUS
  <1> HIDE DEF S
  <1>6. S = Nat
    BY <1>1, <1>4, <1>5, InductionRule
  <1>7. h - l + 1 \in S /\ <<l, h>> \in Bounds(size) /\ Ok(<<l, h>>) /\ h - l < h - l + 1
    BY <1>6 DEF Bounds
  <1> QED BY <1>7 DEF S

(* Whatever the order of the array, a search ends at a place for the key or
   at an element that has it. *)
LEMMA SearchAnswer ==
  ASSUME NEW size \in Nat, NEW cmp \in [0 .. size - 1 -> Int], NEW insert
  PROVE  Answer(cmp, size, insert, arr_get_index(cmp, size, insert))
  <1>1. CASE size = 0
    <2>1. Gap(cmp, size, 0) /\ 0 \in 0 .. size
      BY <1>1 DEF Gap
    <2> QED BY <2>1, <1>1, SearchUnfold DEF Answer
  <1>2. CASE size # 0
    <2>1. 0 \in 0 .. size /\ size - 1 \in -1 .. size - 1 /\ 0 <= size - 1
      BY <1>2
    <2>2. Answer(cmp, size, insert, Search(cmp, size, insert)[<<0, size - 1>>])
      BY <2>1, RangeAnswer, SMTT(30)
    <2> QED BY <2>2, <1>2, SearchUnfold
  <1> QED BY <1>1, <1>2

(* In a sorted array there is no equal element around a gap. *)
LEMMA GapNoHit ==
  ASSUME NEW size \in Nat, NEW cmp \in [0 .. size - 1 -> Int],
         \A j, k \in 0 .. size - 1 : j < k => cmp[j] >= cmp[k],
         NEW p, Gap(cmp, size, p)
  PROVE  \A k \in 0 .. size - 1 : cmp[k] # 0
  <1> SUFFICES ASSUME NEW k \in 0 .. size - 1 PROVE cmp[k] # 0
    OBVIOUS
  <1>1. p \in 0 .. size /\ \A j \in 0 .. size - 1 : cmp[j] \in Int
    BY DEF Gap
  <1>2. CASE k < p
    <2>1. p - 1 \in 0 .. size - 1 /\ cmp[p - 1] > 0 /\ (k < p - 1 \/ k = p - 1)
      BY <1>1, <1>2 DEF Gap
    <2>2. cmp[k] >= cmp[p - 1]
      BY <2>1, <1>1
    <2> QED BY <2>1, <2>2, <1>1
  <1>3. CASE k >= p
    <2>1. p \in 0 .. size - 1 /\ cmp[p] < 0 /\ (p < k \/ k = p)
      BY <1>1, <1>3 DEF Gap
    <2>2. cmp[p] >= cmp[k]
      BY <2>1, <1>1
    <2> QED BY <2>1, <2>2, <1>1
  <1> QED BY <1>1, <1>2, <1>3

(* An insertion position of a search: -1 only when an element is equal, and
   otherwise a gap. *)
LEMMA InsertAnswer ==
  ASSUME NEW size \in Nat, NEW cmp \in [0 .. size - 1 -> Int], NEW r,
         r = arr_get_index(cmp, size, TRUE)
  PROVE  \/ r = -1 /\ \E k \in 0 .. size - 1 : cmp[k] = 0
         \/ Gap(cmp, size, r)
  <1>1. Answer(cmp, size, TRUE, r)
    BY SearchAnswer
  <1> QED BY <1>1 DEF Answer, Hit

(* The result of a lookup in a sorted array: the element with the key, or -1
   when there is none. *)
LEMMA FindAnswer ==
  ASSUME NEW size \in Nat, NEW cmp \in [0 .. size - 1 -> Int],
         \A j, k \in 0 .. size - 1 : j < k => cmp[j] >= cmp[k],
         NEW r, r = arr_get_index(cmp, size, FALSE)
  PROVE  \/ r = -1 /\ \A k \in 0 .. size - 1 : cmp[k] # 0
         \/ r \in 0 .. size - 1 /\ cmp[r] = 0
  <1>1. Answer(cmp, size, FALSE, r)
    BY SearchAnswer
  <1>2. \A p \in 0 .. size : Gap(cmp, size, p) => \A k \in 0 .. size - 1 : cmp[k] # 0
    BY GapNoHit
  <1> QED BY <1>1, <1>2 DEF Answer, Hit

----------------------------------------------------------------------------
(* Arrays in order: K[f] is the key of the file f *)

Ascending(arr, K) ==
  \A j, k \in 0 .. arr.size - 1 : j < k => K[arr.list[j]] < K[arr.list[k]]

(* cmp compares the key of f with those in the array, none of which is the
   same. *)
Compares(cmp, f, arr, K) ==
  /\ cmp \in [0 .. arr.size - 1 -> Int] /\ K[f] \in Int
  /\ \A k \in 0 .. arr.size - 1 :
       /\ K[arr.list[k]] \in Int
       /\ cmp[k] # 0
       /\ cmp[k] > 0 => K[arr.list[k]] < K[f]
       /\ cmp[k] < 0 => K[f] < K[arr.list[k]]

(* The position that the search returns. *)
LEMMA InsertPosition ==
  ASSUME NEW arr, arr.size \in Nat, NEW f, NEW K, NEW cmp, Compares(cmp, f, arr, K),
         NEW r, r = arr_get_index(cmp, arr.size, TRUE)
  PROVE  Gap(cmp, arr.size, r)
  BY InsertAnswer DEF Compares

(* Insertion there keeps the array in order. *)
LEMMA InsertAscending ==
  ASSUME NEW arr, arr.size \in Nat, NEW f, NEW K, Ascending(arr, K),
         NEW cmp, Compares(cmp, f, arr, K), NEW r, Gap(cmp, arr.size, r)
  PROVE  r \in 0 .. arr.size /\ Ascending(arr_insert(r, f, arr), K)
  <1> DEFINE N(k) == K[arr.list[k]]
             key == K[f]
             new == arr_insert(r, f, arr)
  <1>1. /\ cmp \in [0 .. arr.size - 1 -> Int] /\ key \in Int
        /\ \A k \in 0 .. arr.size - 1 : N(k) \in Int /\ cmp[k] # 0
        /\ \A k \in 0 .. arr.size - 1 : cmp[k] > 0 => N(k) < key
        /\ \A k \in 0 .. arr.size - 1 : cmp[k] < 0 => key < N(k)
    BY DEF Compares
  <1>2. \A j, k \in 0 .. arr.size - 1 : j < k => N(j) < N(k)
    BY DEF Ascending
  <1>3. /\ new.size = arr.size + 1
        /\ new.list = [k \in 0 .. arr.size |->
                         IF k < r THEN arr.list[k] ELSE IF k = r THEN f ELSE arr.list[k - 1]]
    BY DEF arr_insert
  <1> HIDE DEF new
  <1>5. /\ r \in 0 .. arr.size
        /\ r > 0 => r - 1 \in 0 .. arr.size - 1 /\ cmp[r - 1] > 0
        /\ r < arr.size => r \in 0 .. arr.size - 1 /\ cmp[r] < 0
    BY DEF Gap
  <1>6. \A k \in 0 .. arr.size :
          /\ k < r => k \in 0 .. arr.size - 1 /\ K[new.list[k]] = N(k)
          /\ k = r => K[new.list[k]] = key
          /\ k > r => k - 1 \in 0 .. arr.size - 1 /\ K[new.list[k]] = N(k - 1)
    BY <1>3, <1>5
  <1> HIDE DEF N, key
  <1>7. \A k \in 0 .. r - 1 : N(k) < key
    <2> SUFFICES ASSUME NEW k \in 0 .. r - 1 PROVE N(k) < key
      OBVIOUS
    <2>1. r - 1 \in 0 .. arr.size - 1 /\ k \in 0 .. arr.size - 1 /\ N(r - 1) < key
      BY <1>1, <1>5
    <2>2. k = r - 1 \/ N(k) < N(r - 1)
      BY <2>1, <1>2, <1>5
    <2> QED BY <2>1, <2>2, <1>1
  <1>8. \A k \in r .. arr.size - 1 : key < N(k)
    <2> SUFFICES ASSUME NEW k \in r .. arr.size - 1 PROVE key < N(k)
      OBVIOUS
    <2>1. r \in 0 .. arr.size - 1 /\ k \in 0 .. arr.size - 1 /\ key < N(r)
      BY <1>1, <1>5
    <2>2. k = r \/ N(r) < N(k)
      BY <2>1, <1>2, <1>5
    <2> QED BY <2>1, <2>2, <1>1
  <1>9. Ascending(new, K)
    <2>1. new.size - 1 = arr.size
      BY <1>3
    <2> SUFFICES ASSUME NEW j \in 0 .. arr.size, NEW k \in 0 .. arr.size, j < k
                 PROVE  K[new.list[j]] < K[new.list[k]]
      BY <2>1 DEF Ascending
    <2>2. CASE k < r
      <3>1. j < r /\ K[new.list[j]] = N(j) /\ K[new.list[k]] = N(k)
        BY <2>2, <1>5, <1>6
      <3> QED BY <3>1, <2>2, <1>2, <1>6
    <2>3. CASE k = r
      <3>1. j \in 0 .. r - 1 /\ K[new.list[j]] = N(j) /\ K[new.list[k]] = key
        BY <2>3, <1>5, <1>6
      <3> QED BY <3>1, <1>7
    <2>4. CASE k > r
      <3>1. /\ K[new.list[k]] = N(k - 1) /\ k - 1 \in r .. arr.size - 1
            /\ k - 1 \in 0 .. arr.size - 1
        BY <2>4, <1>5, <1>6
      <3>2. CASE j < r
        <4>1. K[new.list[j]] = N(j) /\ j \in 0 .. arr.size - 1 /\ j < k - 1
          BY <3>1, <3>2, <1>5, <1>6
        <4> QED BY <3>1, <4>1, <1>2
      <3>3. CASE j = r
        BY <3>1, <3>3, <1>6, <1>8
      <3>4. CASE j > r
        <4>1. K[new.list[j]] = N(j - 1) /\ j - 1 \in 0 .. arr.size - 1 /\ j - 1 < k - 1
          BY <3>4, <1>5, <1>6
        <4> QED BY <3>1, <4>1, <1>2
      <3> QED BY <3>2, <3>3, <3>4, <1>5
    <2> QED BY <2>2, <2>3, <2>4, <1>5
  <1> QED BY <1>5, <1>9 DEF new

(* arr_remove keeps the array in order. *)
LEMMA RemoveAscending ==
  ASSUME NEW arr, arr.size \in Nat, NEW p \in 0 .. arr.size - 1, NEW K, Ascending(arr, K)
  PROVE  Ascending(arr_remove(p, arr), K)
  <1> DEFINE new == arr_remove(p, arr)
  <1>1. /\ new.size = arr.size - 1
        /\ new.list = [k \in 0 .. arr.size - 2 |->
                         IF k < p THEN arr.list[k] ELSE arr.list[k + 1]]
    BY DEF arr_remove
  <1> HIDE DEF new
  <1>2. \A k \in 0 .. arr.size - 2 :
          /\ k < p => new.list[k] = arr.list[k]
          /\ k >= p => new.list[k] = arr.list[k + 1]
    BY <1>1
  <1>3. new.size - 1 = arr.size - 2
    BY <1>1
  <1>4. \A a, b \in 0 .. arr.size - 1 : a < b => K[arr.list[a]] < K[arr.list[b]]
    BY DEF Ascending
  <1>5. Ascending(new, K)
    <2> SUFFICES ASSUME NEW j \in 0 .. arr.size - 2, NEW k \in 0 .. arr.size - 2, j < k
                 PROVE  K[new.list[j]] < K[new.list[k]]
      BY <1>3 DEF Ascending
    <2>1. /\ j \in 0 .. arr.size - 1 /\ j + 1 \in 0 .. arr.size - 1
          /\ k \in 0 .. arr.size - 1 /\ k + 1 \in 0 .. arr.size - 1
      OBVIOUS
    <2>2. CASE k < p
      <3>1. j < p
        BY <2>2
      <3> QED BY <2>1, <2>2, <3>1, <1>2, <1>4
    <2>3. CASE k >= p /\ j < p
      <3>1. j < k + 1
        OBVIOUS
      <3> QED BY <2>1, <2>3, <3>1, <1>2, <1>4
    <2>4. CASE j >= p
      <3>1. k >= p /\ j + 1 < k + 1
        BY <2>4
      <3> QED BY <2>1, <2>4, <3>1, <1>2, <1>4
    <2> QED BY <2>2, <2>3, <2>4
  <1> QED BY <1>5 DEF new
=============================================================================
