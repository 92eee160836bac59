--------------------------- MODULE FletcherProofs --------------------------
(***************************************************************************)
(* For words of any number of bytes of any size, and every buffer: the     *)
(* closed form of the four sums, which bytes count, and what a checksum     *)
(* notices.                                                                *)
(***************************************************************************)
EXTENDS FletcherSums, DataLemmas

----------------------------------------------------------------------------
(* Remainders *)

LEMMA Remainder ==
  ASSUME NEW x \in Int, NEW m \in Nat, m > 0
  PROVE  x % m \in 0 .. m - 1 /\ \E q \in Int : x = m * q + (x % m)
  <1>1. x \div m \in Int /\ x = m * (x \div m) + (x % m) /\ x % m \in 0 .. m - 1
    OBVIOUS
  <1> QED BY <1>1

(* A number has one remainder. *)
LEMMA RemainderUnique ==
  ASSUME NEW m \in Nat, NEW q \in Int, NEW p \in Int,
         NEW r \in 0 .. m - 1, NEW s \in 0 .. m - 1, m * q + r = m * p + s
  PROVE  r = s
  <1>1. ASSUME NEW a \in Int, NEW b \in Int, a < b PROVE m * a + m <= m * b
    <2>1. PICK d \in Nat : b = a + 1 + d
      BY <1>1
    <2>2. m * b = m * a + m + m * d /\ m * d \in Nat /\ m * a \in Int
      BY <2>1
    <2> QED BY <2>2
  <1>2. m * q \in Int /\ m * p \in Int
    OBVIOUS
  <1>3. ~ (q < p) /\ ~ (p < q)
    BY <1>1, <1>2
  <1>4. q = p
    BY <1>3
  <1> QED BY <1>2, <1>4

LEMMA RemainderIs ==
  ASSUME NEW m \in Nat, NEW x \in Int, NEW q \in Int, NEW r \in 0 .. m - 1, x = m * q + r
  PROVE  x % m = r
  <1>1. m > 0
    OBVIOUS
  <1>2. PICK p \in Int : x = m * p + (x % m)
    BY <1>1, Remainder
  <1>3. x % m \in 0 .. m - 1
    BY <1>1, Remainder
  <1>4. PICK s : s = x % m
    OBVIOUS
  <1>5. s \in 0 .. m - 1 /\ m * p + s = m * q + r
    BY <1>2, <1>3, <1>4
  <1> QED BY <1>4, <1>5, RemainderUnique

(* The remainder may be taken before an addition or after it. *)
LEMMA RemainderAdd ==
  ASSUME NEW m \in Nat, m > 0, NEW x \in Int, NEW y \in Int
  PROVE  ((x % m) + y) % m = (x + y) % m
  <1>1. PICK q \in Int : x = m * q + (x % m)
    BY Remainder
  <1>2. PICK r : r = x % m
    OBVIOUS
  <1>3. r \in Int /\ x = m * q + r
    BY <1>1, <1>2, Remainder
  <1>4. PICK p \in Int : r + y = m * p + ((r + y) % m)
    BY <1>3, Remainder
  <1>5. PICK s : s = (r + y) % m
    OBVIOUS
  <1>6. s \in 0 .. m - 1 /\ r + y = m * p + s
    BY <1>3, <1>4, <1>5, Remainder
  <1>7. x + y = m * (q + p) + s /\ q + p \in Int /\ x + y \in Int
    <2>1. m * (q + p) = m * q + m * p /\ m * q \in Int /\ m * p \in Int
      OBVIOUS
    <2> QED BY <1>3, <1>6, <2>1
  <1>8. (x + y) % m = s
    <2>1. PICK t \in Int : t = q + p
      OBVIOUS
    <2> QED BY <1>6, <1>7, <2>1, RemainderIs
  <1> QED BY <1>2, <1>5, <1>8

LEMMA RemaindersAdd ==
  ASSUME NEW m \in Nat, m > 0, NEW x \in Int, NEW y \in Int
  PROVE  ((x % m) + (y % m)) % m = (x + y) % m
  <1>1. PICK r \in Int : r = y % m
    BY Remainder
  <1>2. PICK s \in Int : s = x % m
    BY Remainder
  <1>3. (s + r) % m = (x + r) % m
    BY <1>2, RemainderAdd
  <1>4. (r + x) % m = (y + x) % m
    BY <1>1, RemainderAdd
  <1>5. x + r = r + x /\ y + x = x + y
    OBVIOUS
  <1> QED BY <1>1, <1>2, <1>3, <1>4, <1>5

(* What is added on both sides does not hide a difference. *)
LEMMA RemainderCancel ==
  ASSUME NEW m \in Nat, m > 0, NEW x \in Int, NEW y \in Int, NEW z \in Int,
         (x + z) % m = (y + z) % m
  PROVE  x % m = y % m
  <1>1. ASSUME NEW w \in Int PROVE (((w + z) % m) + (-z)) % m = w % m
    <2>1. w + z \in Int /\ -z \in Int /\ (w + z) + (-z) = w
      OBVIOUS
    <2>2. PICK v \in Int : v = w + z
      BY <2>1
    <2>3. PICK n \in Int : n = -z
      BY <2>1
    <2>4. ((v % m) + n) % m = (v + n) % m
      BY RemainderAdd
    <2> QED BY <2>1, <2>2, <2>3, <2>4
  <1>2. (((x + z) % m) + (-z)) % m = x % m /\ (((y + z) % m) + (-z)) % m = y % m
    BY <1>1
  <1> QED BY <1>2

----------------------------------------------------------------------------
(* The weights *)

(* Each weight adds up the one before it. *)
AddsUp(v, u) ==
  /\ v \in [Nat -> Nat] /\ u \in [Nat -> Nat] /\ v[0] = 0
  /\ \A n \in Nat : v[n + 1] = v[n] + u[n + 1]

LEMMA LineAddsUp == AddsUp(Line, One)
  BY DEF AddsUp, Line, One

LEMMA TriangleAddsUp ==
  /\ \A n \in Nat : n * (n + 1) = 2 * Triangle[n]
  /\ AddsUp(Triangle, Line)
  <1> DEFINE S == {n \in Nat : \E t \in Nat : n * (n + 1) = 2 * t}
  <1>1. 0 \in S
    <2>1. 0 * (0 + 1) = 2 * 0
      OBVIOUS
    <2> QED BY <2>1
  <1>2. ASSUME NEW m \in S PROVE m + 1 \in S
    <2>1. PICK t \in Nat : m * (m + 1) = 2 * t
      BY <1>2
    <2>2. m \in Nat /\ m + 1 \in Nat /\ t + (m + 1) \in Nat
      OBVIOUS
    <2>3. (m + 1) * ((m + 1) + 1) = m * (m + 1) + 2 * (m + 1)
      BY <2>2
    <2>4. (m + 1) * ((m + 1) + 1) = 2 * (t + (m + 1))
      BY <2>1, <2>2, <2>3
    <2> QED BY <2>2, <2>4
  <1>3. S = Nat
    <2> HIDE DEF S
    <2>1. S \in SUBSET Nat
      BY DEF S
    <2> QED BY <1>1, <1>2, <2>1, InductionRule
  <1>4. ASSUME NEW n \in Nat PROVE Triangle[n] \in Nat /\ n * (n + 1) = 2 * Triangle[n]
    <2>1. PICK t \in Nat : n * (n + 1) = 2 * t
      BY <1>3
    <2>2. Triangle[n] = (2 * t) \div 2
      BY <2>1 DEF Triangle
    <2>3. (2 * t) \div 2 = t
      OBVIOUS
    <2> QED BY <2>1, <2>2, <2>3
  <1>5. ASSUME NEW n \in Nat PROVE Triangle[n + 1] = Triangle[n] + Line[n + 1]
    <2>1. n + 1 \in Nat /\ Line[n + 1] = n + 1
      BY DEF Line
    <2>2. (n + 1) * ((n + 1) + 1) = n * (n + 1) + 2 * (n + 1)
      OBVIOUS
    <2>3. /\ (n + 1) * ((n + 1) + 1) = 2 * Triangle[n + 1] /\ Triangle[n + 1] \in Nat
          /\ n * (n + 1) = 2 * Triangle[n] /\ Triangle[n] \in Nat
      BY <1>4, <2>1
    <2> QED BY <2>1, <2>2, <2>3
  <1>6. Triangle[0] = 0
    <2>1. 0 * (0 + 1) = 2 * Triangle[0] /\ Triangle[0] \in Nat
      BY <1>4
    <2> QED BY <2>1
  <1>7. Triangle \in [Nat -> Nat] /\ Line \in [Nat -> Nat]
    <2>1. Triangle = [n \in Nat |-> Triangle[n]]
      BY DEF Triangle
    <2> QED BY <1>4, <2>1 DEF Line
  <1> QED BY <1>4, <1>5, <1>6, <1>7 DEF AddsUp

LEMMA TetrahedronAddsUp == AddsUp(Tetrahedron, Triangle)
  <1> DEFINE S == {n \in Nat : \E t \in Nat : n * (n + 1) * (n + 2) = 6 * t}
  <1>0. ASSUME NEW n \in Nat
        PROVE  /\ Triangle[n + 1] \in Nat
               /\ (n + 1) * ((n + 1) + 1) * ((n + 1) + 2) = n * (n + 1) * (n + 2) + 6 * Triangle[n + 1]
    <2>0. n + 1 \in Nat /\ Triangle \in [Nat -> Nat]
      <3>1. AddsUp(Triangle, Line)
        BY TriangleAddsUp
      <3> QED BY <3>1 DEF AddsUp
    <2>1. Triangle[n + 1] \in Nat
      BY <2>0
    <2>2. (n + 1) * ((n + 1) + 1) = 2 * Triangle[n + 1]
      BY <2>0, TriangleAddsUp
    <2>3. (n + 1) * ((n + 1) + 1) * ((n + 1) + 2) = n * (n + 1) * (n + 2) + 3 * ((n + 1) * ((n + 1) + 1))
      OBVIOUS
    <2>4. 3 * ((n + 1) * ((n + 1) + 1)) = 6 * Triangle[n + 1]
      BY <2>1, <2>2
    <2> QED BY <2>1, <2>3, <2>4
  <1>1. 0 \in S
    <2>1. 0 * (0 + 1) * (0 + 2) = 6 * 0
      OBVIOUS
    <2> QED BY <2>1
  <1>2. ASSUME NEW m \in S PROVE m + 1 \in S
    <2>1. PICK t \in Nat : m * (m + 1) * (m + 2) = 6 * t
      BY <1>2
    <2>2. PICK r \in Nat : r = Triangle[m + 1]
      BY <1>0
    <2>3. (m + 1) * ((m + 1) + 1) * ((m + 1) + 2) = 6 * t + 6 * r
      BY <1>0, <2>1, <2>2
    <2>4. 6 * t + 6 * r = 6 * (t + r) /\ t + r \in Nat
      OBVIOUS
    <2> QED BY <2>3, <2>4
  <1>3. S = Nat
    <2> HIDE DEF S
    <2>1. S \in SUBSET Nat
      BY DEF S
    <2> QED BY <1>1, <1>2, <2>1, InductionRule
  <1>4. ASSUME NEW n \in Nat
        PROVE  Tetrahedron[n] \in Nat /\ n * (n + 1) * (n + 2) = 6 * Tetrahedron[n]
    <2>1. PICK t \in Nat : n * (n + 1) * (n + 2) = 6 * t
      BY <1>3
    <2>2. Tetrahedron[n] = (6 * t) \div 6
      BY <2>1 DEF Tetrahedron
    <2>3. (6 * t) \div 6 = t
      OBVIOUS
    <2> QED BY <2>1, <2>2, <2>3
  <1>5. ASSUME NEW n \in Nat PROVE Tetrahedron[n + 1] = Tetrahedron[n] + Triangle[n + 1]
    <2>1. PICK a \in Nat : a = Tetrahedron[n]
      BY <1>4
    <2>2. PICK b \in Nat : b = Tetrahedron[n + 1]
      BY <1>4
    <2>3. PICK r \in Nat : r = Triangle[n + 1]
      BY <1>0
    <2>4. 6 * b = 6 * a + 6 * r
      <3>1. n + 1 \in Nat
        OBVIOUS
      <3>2. /\ n * (n + 1) * (n + 2) = 6 * a
            /\ (n + 1) * ((n + 1) + 1) * ((n + 1) + 2) = 6 * b
        BY <1>4, <2>1, <2>2, <3>1
      <3> QED BY <1>0, <2>3, <3>2
    <2>5. b = a + r
      BY <2>4
    <2> QED BY <2>1, <2>2, <2>3, <2>5
  <1>6. Tetrahedron[0] = 0
    <2>1. 0 * (0 + 1) * (0 + 2) = 6 * Tetrahedron[0] /\ Tetrahedron[0] \in Nat
      BY <1>4
    <2> QED BY <2>1
  <1>7. Tetrahedron \in [Nat -> Nat] /\ Triangle \in [Nat -> Nat]
    <2>1. Tetrahedron = [n \in Nat |-> Tetrahedron[n]]
      BY DEF Tetrahedron
    <2> QED BY <1>4, <2>1, TriangleAddsUp DEF AddsUp
  <1> QED BY <1>5, <1>6, <1>7 DEF AddsUp

----------------------------------------------------------------------------
(* Sums *)

LEMMA SumOfSums ==
  ASSUME NEW U, IsFiniteSet(U), NEW f, NEW g, NEW h,
         \A x \in U : f[x] \in Nat /\ g[x] \in Nat /\ h[x] = f[x] + g[x]
  PROVE  SumFunctionOnSet(h, U) = SumFunctionOnSet(f, U) + SumFunctionOnSet(g, U)
  <1> DEFINE Fam == {R \in SUBSET U :
                       /\ SumFunctionOnSet(f, R) \in Nat /\ SumFunctionOnSet(g, R) \in Nat
                       /\ SumFunctionOnSet(h, R) = SumFunctionOnSet(f, R) + SumFunctionOnSet(g, R)}
  <1>1. {} \in Fam
    BY SumNothing
  <1>2. ASSUME NEW T \in SUBSET U, NEW x \in U \ T, T \in Fam
        PROVE  T \cup {x} \in Fam
    <2>1. /\ SumFunctionOnSet(f, T \cup {x}) = f[x] + SumFunctionOnSet(f, T)
          /\ SumFunctionOnSet(g, T \cup {x}) = g[x] + SumFunctionOnSet(g, T)
          /\ SumFunctionOnSet(h, T \cup {x}) = h[x] + SumFunctionOnSet(h, T)
      <3>1. IsFiniteSet(T)
        BY FS_Subset
      <3>2. \A y \in T \cup {x} : f[y] \in Nat /\ g[y] \in Nat /\ h[y] \in Nat
        OBVIOUS
      <3> HIDE DEF Fam
      <3>3. x \notin T
        OBVIOUS
      <3> QED BY <3>1, <3>2, <3>3, SumAdd
    <2>2. f[x] \in Nat /\ g[x] \in Nat /\ h[x] = f[x] + g[x]
      OBVIOUS
    <2> QED BY <1>2, <2>1, <2>2
  <1> HIDE DEF Fam
  <1>3. SUBSET U \subseteq Fam
    BY <1>1, <1>2, SubsetInduction
  <1> QED BY <1>3 DEF Fam

Below(n) == 0 .. n - 1

LEMMA BelowNext ==
  ASSUME NEW n \in Nat
  PROVE  /\ IsFiniteSet(Below(n)) /\ n \notin Below(n)
         /\ Below(n + 1) = Below(n) \cup {n}
  <1>1. IsFiniteSet(0 .. n - 1)
    BY FS_Interval
  <1> QED BY <1>1 DEF Below

Terms(weight, w, n) == [j \in Below(n) |-> weight[n - j] * w[j]]

LEMMA WeightedIs ==
  ASSUME NEW weight, NEW w, NEW n \in Nat
  PROVE  Weighted(weight, w, n) = SumFunctionOnSet(Terms(weight, w, n), Below(n))
  BY DEF Weighted, SumFunction, Terms, Below, SumFunctionOnSet, FoldFunction

LEMMA TermNat ==
  ASSUME NEW weight \in [Nat -> Nat], NEW n \in Nat, NEW w, NEW j \in Below(n), w[j] \in Nat
  PROVE  Terms(weight, w, n)[j] \in Nat
  <1>1. n - j \in Nat
    BY DEF Below
  <1>2. PICK a \in Nat : a = weight[n - j]
    BY <1>1
  <1>3. PICK b \in Nat : b = w[j]
    OBVIOUS
  <1>4. a * b \in Nat
    OBVIOUS
  <1> QED BY <1>2, <1>3, <1>4 DEF Terms

LEMMA WeightedNat ==
  ASSUME NEW weight \in [Nat -> Nat], NEW n \in Nat, NEW w, \A j \in Below(n) : w[j] \in Nat
  PROVE  Weighted(weight, w, n) \in Nat
  <1>1. \A j \in Below(n) : Terms(weight, w, n)[j] \in Nat
    BY TermNat
  <1>2. SumFunctionOnSet(Terms(weight, w, n), Below(n)) \in Nat
    BY <1>1, BelowNext, SumSplit
  <1> QED BY <1>2, WeightedIs

(* With one more word every weight moves on by one place. *)
LEMMA WeightedNext ==
  ASSUME NEW v, NEW u, AddsUp(v, u), NEW n \in Nat, NEW w,
         \A j \in Below(n + 1) : w[j] \in Nat
  PROVE  Weighted(v, w, n + 1) = Weighted(v, w, n) + Weighted(u, w, n + 1)
  <1> DEFINE F == Terms(v, w, n + 1)
             G == [j \in Below(n + 1) |-> v[n - j] * w[j]]
             H == Terms(u, w, n + 1)
             Sum(f, T) == SumFunctionOnSet(f, T)
  <1>0. v \in [Nat -> Nat] /\ u \in [Nat -> Nat] /\ n + 1 \in Nat /\ v[0] = 0
    BY DEF AddsUp
  <1>1. ASSUME NEW j \in Below(n + 1)
        PROVE  G[j] \in Nat /\ H[j] \in Nat /\ F[j] = G[j] + H[j]
    <2>1. n - j \in Nat /\ (n + 1) - j = (n - j) + 1
      BY DEF Below
    <2>2. PICK m \in Nat : m = n - j
      BY <2>1
    <2>3. PICK a \in Nat : a = v[m]
      BY <1>0
    <2>4. PICK b \in Nat : b = u[m + 1]
      BY <1>0
    <2>5. PICK c \in Nat : c = w[j]
      OBVIOUS
    <2>6. v[m + 1] = a + b
      BY <2>3, <2>4 DEF AddsUp
    <2>7. (a + b) * c = a * c + b * c /\ a * c \in Nat /\ b * c \in Nat
      OBVIOUS
    <2>8. F[j] = (a + b) * c /\ G[j] = a * c /\ H[j] = b * c
      BY <2>1, <2>2, <2>3, <2>4, <2>5, <2>6 DEF Terms
    <2> QED BY <2>7, <2>8
  <1>2. G[n] = 0 /\ n \in Below(n + 1)
    <2>1. n \in Below(n + 1) /\ n - n = 0
      BY DEF Below
    <2>2. PICK c \in Nat : c = w[n]
      BY <2>1
    <2> QED BY <1>0, <2>1, <2>2
  <1>3. \A j \in Below(n) : G[j] = Terms(v, w, n)[j]
    BY BelowNext DEF Terms
  <1> HIDE DEF F, G, H
  <1>4. Sum(F, Below(n + 1)) = Sum(G, Below(n + 1)) + Sum(H, Below(n + 1))
    BY <1>0, <1>1, BelowNext, SumOfSums
  <1>5. Sum(G, Below(n) \cup {n}) = G[n] + Sum(G, Below(n)) /\ Sum(G, Below(n)) \in Nat
    BY <1>1, BelowNext, SumAdd
  <1>6. Sum(G, Below(n)) = Sum(Terms(v, w, n), Below(n))
    BY <1>3, BelowNext, SumSame
  <1>7. Sum(G, Below(n + 1)) = Sum(Terms(v, w, n), Below(n))
    BY <1>2, <1>5, <1>6, BelowNext
  <1> QED BY <1>0, <1>4, <1>7, WeightedIs DEF F, H

LEMMA TotalNext ==
  ASSUME NEW n \in Nat, NEW w, \A j \in Below(n + 1) : w[j] \in Nat
  PROVE  Weighted(One, w, n + 1) = Weighted(One, w, n) + w[n]
  <1> DEFINE F == Terms(One, w, n + 1)
             Sum(f, T) == SumFunctionOnSet(f, T)
  <1>1. ASSUME NEW j \in Below(n + 1) PROVE F[j] = w[j] /\ F[j] \in Nat
    <2>1. (n + 1) - j \in Nat
      BY DEF Below
    <2>2. PICK c \in Nat : c = w[j]
      OBVIOUS
    <2> QED BY <2>1, <2>2 DEF Terms, One
  <1>2. ASSUME NEW j \in Below(n) PROVE Terms(One, w, n)[j] = w[j]
    <2>1. n - j \in Nat /\ j \in Below(n + 1)
      BY BelowNext DEF Below
    <2>2. PICK c \in Nat : c = w[j]
      BY <2>1
    <2> QED BY <2>1, <2>2 DEF Terms, One
  <1>3. n \in Below(n + 1) /\ n + 1 \in Nat
    BY BelowNext
  <1> HIDE DEF F
  <1>4. Sum(F, Below(n) \cup {n}) = F[n] + Sum(F, Below(n)) /\ Sum(F, Below(n)) \in Nat
    BY <1>1, BelowNext, SumAdd
  <1>5. Sum(F, Below(n)) = Sum(Terms(One, w, n), Below(n))
    BY <1>1, <1>2, BelowNext, SumSame
  <1>6. Sum(F, Below(n + 1)) = w[n] + Sum(Terms(One, w, n), Below(n))
    BY <1>1, <1>3, <1>4, <1>5, BelowNext
  <1> QED BY <1>1, <1>3, <1>4, <1>5, <1>6, WeightedIs DEF F

----------------------------------------------------------------------------
(* The places of a word *)

(* The recursive definition of place has a solution. *)
PlaceBody(f, k) == IF k = 0 THEN 1 ELSE ByteBase * f[k - 1]

LEMMA PlaceDefined == place = [k \in 0 .. WordBytes |-> PlaceBody(place, k)]
  <1> USE WordAssumption
  <1>1. place = CHOOSE f : f = [k \in 0 .. WordBytes |-> PlaceBody(f, k)]
    BY DEF place, PlaceBody
  <1> DEFINE Good == {m \in 0 .. WordBytes : \E f : f = [k \in 0 .. m |-> PlaceBody(f, k)]}
  <1>2. 0 \in Good
    <2>1. PICK f : f = [k \in 0 .. 0 |-> 1]
      OBVIOUS
    <2>2. f = [k \in 0 .. 0 |-> PlaceBody(f, k)]
      BY <2>1 DEF PlaceBody
    <2> QED BY <2>2
  <1>3. ASSUME NEW m \in 0 .. WordBytes - 1, m \in Good PROVE m + 1 \in Good
    <2>1. PICK f : f = [k \in 0 .. m |-> PlaceBody(f, k)]
      BY <1>3
    <2>2. PICK g : g = [k \in 0 .. m + 1 |-> IF k = m + 1 THEN ByteBase * f[m] ELSE f[k]]
      OBVIOUS
    <2>3. ASSUME NEW k \in 0 .. m + 1 PROVE g[k] = PlaceBody(g, k)
      <3>1. CASE k = 0
        BY <3>1, <2>1, <2>2 DEF PlaceBody
      <3>2. CASE k # 0
        <4>1. k - 1 \in 0 .. m /\ k - 1 # m + 1 /\ k - 1 \in 0 .. m + 1 /\ (k # m + 1 => k \in 0 .. m)
              /\ (k = m + 1 => k - 1 = m)
          BY <3>2
        <4>2. g[k - 1] = f[k - 1]
          BY <4>1, <2>2
        <4> QED BY <3>2, <4>1, <4>2, <2>1, <2>2 DEF PlaceBody
      <3> QED BY <3>1, <3>2
    <2>4. g = [k \in 0 .. m + 1 |-> PlaceBody(g, k)]
      BY <2>2, <2>3
    <2>5. m + 1 \in 0 .. WordBytes
      OBVIOUS
    <2> QED BY <2>4, <2>5
  <1>4. WordBytes \in Good
    <2> HIDE DEF Good
    <2>1. 0 .. WordBytes \subseteq Good
      BY <1>2, <1>3, BoundedInduction
    <2> QED BY <2>1
  <1> QED BY <1>1, <1>4

LEMMA PlaceStep ==
  /\ place[0] = 1
  /\ \A k \in 0 .. WordBytes - 1 : place[k + 1] = ByteBase * place[k]
  <1> USE WordAssumption
  <1>1. \A k \in 0 .. WordBytes : place[k] = PlaceBody(place, k)
    BY PlaceDefined
  <1>2. place[0] = 1
    BY <1>1 DEF PlaceBody
  <1>3. ASSUME NEW k \in 0 .. WordBytes - 1 PROVE place[k + 1] = ByteBase * place[k]
    <2>1. k + 1 \in 0 .. WordBytes /\ k + 1 # 0 /\ (k + 1) - 1 = k
      OBVIOUS
    <2> QED BY <1>1, <2>1 DEF PlaceBody
  <1> QED BY <1>2, <1>3

(* The places of a word grow, so the modulus is positive. *)
LEMMA PlaceNat == \A k \in 0 .. WordBytes : place[k] \in Nat /\ place[k] > k
  <1> USE WordAssumption
  <1> DEFINE Good == {k \in 0 .. WordBytes : place[k] \in Nat /\ place[k] > k}
  <1>1. 0 \in Good
    BY PlaceStep
  <1>2. ASSUME NEW m \in 0 .. WordBytes - 1, m \in Good PROVE m + 1 \in Good
    <2>1. PICK p \in Nat : p = place[m]
      BY <1>2
    <2>2. p > m /\ place[m + 1] = ByteBase * p /\ m + 1 \in 0 .. WordBytes
      BY <1>2, <2>1, PlaceStep
    <2>3. PICK d \in Nat : ByteBase = d + 2
      <3>1. ByteBase - 2 \in Nat /\ ByteBase = (ByteBase - 2) + 2
        OBVIOUS
      <3> QED BY <3>1
    <2>4. ByteBase * p = d * p + 2 * p /\ d * p \in Nat
      BY <2>3
    <2> QED BY <2>2, <2>4
  <1>3. 0 .. WordBytes \subseteq Good
    <2> HIDE DEF Good
    <2> QED BY <1>1, <1>2, BoundedInduction
  <1> QED BY <1>3

LEMMA ModulusPositive == Modulus \in Nat /\ Modulus > 0
  <1>1. WordBytes \in 0 .. WordBytes /\ WordBytes \in Nat /\ WordBytes > 0
    BY WordAssumption
  <1>2. place[WordBytes] \in Nat /\ place[WordBytes] > WordBytes
    BY <1>1, PlaceNat
  <1> QED BY <1>1, <1>2 DEF Modulus

LEMMA PlaceMonotone == \A m \in 0 .. WordBytes : \A k \in 0 .. m : place[k] <= place[m]
  <1> USE WordAssumption
  <1> DEFINE Good == {m \in 0 .. WordBytes : \A k \in 0 .. m : place[k] <= place[m]}
  <1>1. 0 \in Good
    BY PlaceNat
  <1>2. ASSUME NEW m \in 0 .. WordBytes - 1, m \in Good PROVE m + 1 \in Good
    <2>1. m \in 0 .. WordBytes /\ m + 1 \in 0 .. WordBytes
      OBVIOUS
    <2>2. PICK p \in Nat : p = place[m]
      BY <2>1, PlaceNat
    <2>3. PICK d \in Nat : ByteBase = d + 1
      <3>1. ByteBase - 1 \in Nat /\ ByteBase = (ByteBase - 1) + 1
        OBVIOUS
      <3> QED BY <3>1
    <2>4. ByteBase * p = d * p + p /\ d * p \in Nat
      BY <2>3
    <2>5. place[m + 1] = ByteBase * p
      BY <2>2, PlaceStep
    <2>6. p <= place[m + 1] /\ place[m + 1] \in Nat
      BY <2>4, <2>5
    <2>7. ASSUME NEW k \in 0 .. m + 1 PROVE place[k] <= place[m + 1]
      <3>1. CASE k = m + 1
        BY <3>1, <2>6
      <3>2. CASE k # m + 1
        <4>1. k \in 0 .. m /\ k \in 0 .. WordBytes
          BY <3>2
        <4>2. place[k] <= p /\ place[k] \in Nat
          BY <1>2, <2>2, <4>1, PlaceNat
        <4> QED BY <4>2, <2>6
      <3> QED BY <3>1, <3>2
    <2> QED BY <2>1, <2>7
  <1>3. 0 .. WordBytes \subseteq Good
    <2> HIDE DEF Good
    <2> QED BY <1>1, <1>2, BoundedInduction
  <1> QED BY <1>3

(* In a word of two or more bytes, a single byte never reaches the modulus. *)
LEMMA ByteBelowModulus ==
  ASSUME WordBytes > 1, NEW k \in 0 .. WordBytes - 1, NEW x \in 0 .. ByteBase - 1
  PROVE  place[k] * x \in 0 .. Modulus - 1
  <1> USE WordAssumption
  <1>1. PICK p \in Nat : p = place[k] /\ p > k
    BY PlaceNat
  <1>2. PICK e \in Nat : ByteBase = x + e + 1
    <2>1. ByteBase - 1 - x \in Nat /\ ByteBase = x + (ByteBase - 1 - x) + 1
      OBVIOUS
    <2> QED BY <2>1
  <1>3. place[k + 1] = ByteBase * p
    BY <1>1, PlaceStep
  <1>4. ByteBase * p = p * x + p * e + p /\ p * x \in Nat /\ p * e \in Nat
    BY <1>2
  <1>5. WordBytes \in 0 .. WordBytes /\ place[WordBytes] \in Nat /\ Modulus = place[WordBytes] - 1
    BY PlaceNat DEF Modulus
  <1>6. CASE k = WordBytes - 1
    <2>1. k + 1 = WordBytes /\ p > 1
      BY <1>1, <1>6
    <2>2. place[WordBytes] = p * x + p * e + p
      BY <1>3, <1>4, <2>1
    <2> QED BY <1>1, <1>4, <1>5, <2>1, <2>2
  <1>7. CASE k # WordBytes - 1
    <2>1. k + 1 \in 0 .. WordBytes - 1 /\ WordBytes - 1 \in 0 .. WordBytes - 1
          /\ k + 1 \in 0 .. WordBytes /\ WordBytes - 1 \in 0 .. WordBytes /\ (WordBytes - 1) + 1 = WordBytes
      BY <1>7
    <2>2. PICK q \in Nat : q = place[WordBytes - 1] /\ q > WordBytes - 1
      BY <2>1, PlaceNat
    <2>3. place[k + 1] <= q
      BY <2>1, <2>2, PlaceMonotone
    <2>4. place[WordBytes] = ByteBase * q
      BY <2>1, <2>2, PlaceStep
    <2>5. PICK d \in Nat : ByteBase = d + 2
      <3>1. ByteBase - 2 \in Nat /\ ByteBase = (ByteBase - 2) + 2
        OBVIOUS
      <3> QED BY <3>1
    <2>6. ByteBase * q = d * q + 2 * q /\ d * q \in Nat
      BY <2>5
    <2>7. p * x + p * e + p <= q
      BY <1>3, <1>4, <2>3
    <2> QED BY <1>1, <1>4, <1>5, <2>2, <2>4, <2>6, <2>7
  <1> QED BY <1>6, <1>7

----------------------------------------------------------------------------
(* The words of a buffer *)

IsBuffer(b, n) == \A p \in 0 .. n - 1 : b[p] \in Nat

(* how many bytes of word j belong to the n bytes of the buffer *)
Bytes(n, j) == IF j < size(n) THEN WordBytes ELSE rem(n)

WordTerms(b, j, m) == [k \in 0 .. m - 1 |-> b[j * WordBytes + k] * place[k]]

LEMMA WordIs ==
  ASSUME NEW b, NEW j, NEW m
  PROVE  word(b, j, m) = SumFunctionOnSet(WordTerms(b, j, m), 0 .. m - 1)
  BY DEF word, WordTerms, SumFunction, SumFunctionOnSet, FoldFunction

LEMMA WordNat ==
  ASSUME NEW b, NEW j, NEW m \in 0 .. WordBytes,
         \A k \in 0 .. m - 1 : b[j * WordBytes + k] \in Nat
  PROVE  /\ word(b, j, m) \in Nat
         /\ \A k \in 0 .. m - 1 : WordTerms(b, j, m)[k] \in Nat
  <1> USE WordAssumption
  <1>1. ASSUME NEW k \in 0 .. m - 1 PROVE WordTerms(b, j, m)[k] \in Nat
    <2>1. PICK c \in Nat : c = b[j * WordBytes + k]
      OBVIOUS
    <2>2. k \in 0 .. WordBytes
      OBVIOUS
    <2>3. PICK d \in Nat : d = place[k]
      BY <2>2, PlaceNat
    <2>4. c * d \in Nat
      OBVIOUS
    <2> QED BY <2>1, <2>3, <2>4 DEF WordTerms
  <1>2. IsFiniteSet(0 .. m - 1)
    BY FS_Interval
  <1>3. SumFunctionOnSet(WordTerms(b, j, m), 0 .. m - 1) \in Nat
    BY <1>1, <1>2, SumSplit
  <1> QED BY <1>1, <1>3, WordIs

(* The words of n bytes, and the bytes of a word. *)
LEMMA WordsNat ==
  ASSUME NEW n \in Nat
  PROVE  /\ size(n) \in Nat /\ rem(n) \in 0 .. WordBytes - 1
         /\ n = size(n) * WordBytes + rem(n)
         /\ Words(n) \in Nat /\ size(n) <= Words(n) /\ Words(n) <= size(n) + 1
         /\ (Words(n) = size(n)) <=> (rem(n) = 0)
  <1> USE WordAssumption
  <1>1. /\ n \div WordBytes \in Nat /\ n % WordBytes \in 0 .. WordBytes - 1
        /\ n = WordBytes * (n \div WordBytes) + (n % WordBytes)
    OBVIOUS
  <1>2. PICK s \in Nat : s = size(n)
    BY <1>1 DEF size
  <1>3. PICK r \in 0 .. WordBytes - 1 : r = rem(n)
    BY <1>1 DEF rem
  <1>4. n = s * WordBytes + r
    <2>1. n = WordBytes * s + r
      BY <1>1, <1>2, <1>3 DEF size, rem
    <2> QED BY <2>1
  <1> QED BY <1>2, <1>3, <1>4 DEF Words

LEMMA BytesInside ==
  ASSUME NEW n \in Nat, NEW j \in Below(Words(n))
  PROVE  /\ j \in Nat /\ Bytes(n, j) \in 0 .. WordBytes /\ (~ (j < size(n)) => j = size(n))
         /\ \A k \in 0 .. Bytes(n, j) - 1 : j * WordBytes + k \in 0 .. n - 1
  <1> USE WordAssumption
  <1>1. PICK s \in Nat : s = size(n)
    BY WordsNat
  <1>2. PICK r \in 0 .. WordBytes - 1 : r = rem(n)
    BY WordsNat
  <1>3. n = s * WordBytes + r /\ Words(n) \in Nat /\ Words(n) <= s + 1
    BY <1>1, <1>2, WordsNat
  <1>4. j \in Nat /\ j <= s
    BY <1>3 DEF Below
  <1>5. CASE j < s
    <2>1. PICK d \in Nat : s = j + 1 + d
      <3>1. s - (j + 1) \in Nat /\ s = j + 1 + (s - (j + 1))
        BY <1>4, <1>5
      <3> QED BY <3>1
    <2>2. s * WordBytes = j * WordBytes + WordBytes + d * WordBytes
      BY <1>4, <2>1
    <2>3. d * WordBytes \in Nat /\ j * WordBytes \in Nat
      BY <1>4
    <2>4. Bytes(n, j) = WordBytes
      BY <1>1, <1>5 DEF Bytes
    <2> QED BY <1>1, <1>3, <1>4, <1>5, <2>2, <2>3, <2>4
  <1>6. CASE j = s
    <2>1. Bytes(n, j) = r /\ j * WordBytes \in Nat
      BY <1>1, <1>2, <1>6 DEF Bytes
    <2>2. j * WordBytes = s * WordBytes
      BY <1>6
    <2> QED BY <1>1, <1>3, <1>4, <1>6, <2>1, <2>2
  <1> QED BY <1>4, <1>5, <1>6

LEMMA WordsOf ==
  ASSUME NEW b, NEW n \in Nat, IsBuffer(b, n)
  PROVE  \A j \in Below(Words(n)) :
           words(b, n)[j] = word(b, j, Bytes(n, j)) /\ words(b, n)[j] \in Nat
  <1>1. ASSUME NEW j \in Below(Words(n)) PROVE words(b, n)[j] = word(b, j, Bytes(n, j))
    <2>1. words(b, n)[j] = IF j < size(n) THEN word(b, j, WordBytes) ELSE last(b, n)
      BY DEF words, Below
    <2>2. ~ (j < size(n)) => last(b, n) = word(b, j, rem(n))
      BY BytesInside DEF last
    <2> QED BY <2>1, <2>2 DEF Bytes
  <1>2. ASSUME NEW j \in Below(Words(n)) PROVE word(b, j, Bytes(n, j)) \in Nat
    <2>1. PICK m \in 0 .. WordBytes : m = Bytes(n, j)
      BY BytesInside
    <2>2. \A k \in 0 .. m - 1 : b[j * WordBytes + k] \in Nat
      BY <2>1, BytesInside DEF IsBuffer
    <2> QED BY <2>1, <2>2, WordNat
  <1> QED BY <1>1, <1>2

(* A byte is in one word, at one place. *)
LEMMA PlaceOfByte ==
  ASSUME NEW p \in Nat
  PROVE  /\ size(p) \in Nat /\ rem(p) \in 0 .. WordBytes - 1
         /\ p = size(p) * WordBytes + rem(p)
         /\ \A j \in Nat, k \in 0 .. WordBytes - 1 :
              p = j * WordBytes + k => j = size(p) /\ k = rem(p)
  <1> USE WordAssumption
  <1>1. PICK s \in Nat : s = size(p)
    BY WordsNat
  <1>2. PICK r \in 0 .. WordBytes - 1 : r = rem(p)
    BY WordsNat
  <1>3. p = s * WordBytes + r
    BY <1>1, <1>2, WordsNat
  <1>4. ASSUME NEW j \in Nat, NEW k \in 0 .. WordBytes - 1, p = j * WordBytes + k
        PROVE  j = s /\ k = r
    <2>1. WordBytes * j + k = WordBytes * s + r /\ j \in Int /\ s \in Int
      BY <1>3, <1>4
    <2>2. k = r
      BY <2>1, RemainderUnique
    <2>3. ASSUME NEW a \in Nat, NEW c \in Nat, a < c PROVE a * WordBytes # c * WordBytes
      <3>1. PICK d \in Nat : c = a + 1 + d
        <4>1. c - (a + 1) \in Nat /\ c = a + 1 + (c - (a + 1))
          BY <2>3
        <4> QED BY <4>1
      <3>2. c * WordBytes = a * WordBytes + WordBytes + d * WordBytes
        BY <3>1
      <3>3. a * WordBytes \in Nat /\ d * WordBytes \in Nat
        OBVIOUS
      <3> QED BY <3>2, <3>3
    <2>4. j * WordBytes = s * WordBytes
      <3>1. j * WordBytes \in Nat /\ s * WordBytes \in Nat
        OBVIOUS
      <3> QED BY <1>3, <1>4, <2>2, <3>1
    <2>5. ~ (j < s) /\ ~ (s < j)
      BY <2>3, <2>4
    <2> QED BY <2>2, <2>5
  <1> QED BY <1>1, <1>2, <1>3, <1>4

LEMMA WordOfByte ==
  ASSUME NEW n \in Nat, NEW p \in 0 .. n - 1
  PROVE  size(p) \in Below(Words(n)) /\ rem(p) \in 0 .. Bytes(n, size(p)) - 1
  <1> USE WordAssumption
  <1>1. PICK s \in Nat : s = size(n)
    BY WordsNat
  <1>2. PICK r \in 0 .. WordBytes - 1 : r = rem(n)
    BY WordsNat
  <1>3. n = s * WordBytes + r /\ Words(n) \in Nat /\ s <= Words(n) /\ (Words(n) = s <=> r = 0)
    BY <1>1, <1>2, WordsNat
  <1>4. PICK j \in Nat : j = size(p)
    BY PlaceOfByte
  <1>5. PICK k \in 0 .. WordBytes - 1 : k = rem(p)
    BY PlaceOfByte
  <1>6. p = j * WordBytes + k
    BY <1>4, <1>5, PlaceOfByte
  <1>7. CASE j < s
    <2>1. j \in Below(Words(n))
      BY <1>3, <1>7 DEF Below
    <2>2. Bytes(n, j) = WordBytes
      BY <1>1, <1>7 DEF Bytes
    <2> QED BY <1>4, <1>5, <2>1, <2>2
  <1>8. CASE ~ (j < s)
    <2>1. PICK d \in Nat : j = s + d
      <3>1. j - s \in Nat /\ j = s + (j - s)
        BY <1>8
      <3> QED BY <3>1
    <2>2. j * WordBytes = s * WordBytes + d * WordBytes
      BY <2>1
    <2>3. s * WordBytes \in Nat /\ d * WordBytes \in Nat
      OBVIOUS
    <2>4. d * WordBytes + k < r
      BY <1>3, <1>6, <2>2, <2>3
    <2>5. d = 0
      <3>1. CASE d > 0
        <4>1. PICK e \in Nat : d = e + 1
          <5>1. d - 1 \in Nat /\ d = (d - 1) + 1
            BY <3>1
          <5> QED BY <5>1
        <4>2. d * WordBytes = e * WordBytes + WordBytes /\ e * WordBytes \in Nat
          BY <4>1
        <4> QED BY <2>4, <4>2
      <3> QED BY <3>1
    <2>6. j = s /\ k < r
      BY <2>1, <2>3, <2>4, <2>5
    <2>7. j \in Below(Words(n))
      BY <1>3, <2>6 DEF Below
    <2>8. Bytes(n, j) = r
      BY <1>1, <1>2, <2>6 DEF Bytes
    <2> QED BY <1>4, <1>5, <2>6, <2>7, <2>8
  <1> QED BY <1>7, <1>8

----------------------------------------------------------------------------
(* The loop *)

LoopBody(s, w, k) == IF k = 0 THEN <<0, 0, 0, 0>> ELSE add_word(s[k - 1], w[k - 1])

LEMMA AddWordLocal ==
  ASSUME NEW s, NEW t, NEW w, NEW v, NEW k, s[k - 1] = t[k - 1], k # 0 => w[k - 1] = v[k - 1]
  PROVE  LoopBody(s, w, k) = LoopBody(t, v, k)
  BY DEF LoopBody

LEMMA LoopDefined ==
  ASSUME NEW w, NEW n \in Nat
  PROVE  loop(w, n) = [k \in 0 .. n |-> LoopBody(loop(w, n), w, k)]
  <1>1. loop(w, n) = CHOOSE s : s = [k \in 0 .. n |-> LoopBody(s, w, k)]
    BY DEF loop, LoopBody
  <1> DEFINE Good == {m \in 0 .. n : \E s : s = [k \in 0 .. m |-> LoopBody(s, w, k)]}
  <1>2. 0 \in Good
    <2>1. PICK s : s = [k \in 0 .. 0 |-> <<0, 0, 0, 0>>]
      OBVIOUS
    <2>2. s = [k \in 0 .. 0 |-> LoopBody(s, w, k)]
      BY <2>1 DEF LoopBody
    <2> QED BY <2>2
  <1>3. ASSUME NEW m \in 0 .. n - 1, m \in Good PROVE m + 1 \in Good
    <2>1. PICK s : s = [k \in 0 .. m |-> LoopBody(s, w, k)]
      BY <1>3
    <2>2. PICK t : t = [k \in 0 .. m + 1 |-> IF k = m + 1 THEN LoopBody(s, w, k) ELSE s[k]]
      OBVIOUS
    <2>3. ASSUME NEW k \in 0 .. m + 1 PROVE t[k] = LoopBody(t, w, k)
      <3>1. CASE k = 0
        BY <3>1, <2>1, <2>2 DEF LoopBody
      <3>2. CASE k # 0
        <4>1. /\ k - 1 \in 0 .. m /\ k - 1 # m + 1 /\ k - 1 \in 0 .. m + 1
              /\ k # m + 1 => k \in 0 .. m
          BY <3>2
        <4>2. t[k - 1] = s[k - 1]
          BY <4>1, <2>2
        <4>3. LoopBody(t, w, k) = LoopBody(s, w, k)
          BY <4>2, AddWordLocal
        <4> QED BY <4>1, <4>3, <2>1, <2>2
      <3> QED BY <3>1, <3>2
    <2>4. t = [k \in 0 .. m + 1 |-> LoopBody(t, w, k)]
      BY <2>2, <2>3
    <2>5. m + 1 \in 0 .. n
      OBVIOUS
    <2> QED BY <2>4, <2>5
  <1>4. n \in Good
    <2> HIDE DEF Good
    <2>1. 0 .. n \subseteq Good
      BY <1>2, <1>3, BoundedInduction
    <2> QED BY <2>1
  <1> QED BY <1>1, <1>4

LEMMA LoopStep ==
  ASSUME NEW w, NEW n \in Nat
  PROVE  /\ loop(w, n)[0] = <<0, 0, 0, 0>>
         /\ \A k \in 0 .. n - 1 : loop(w, n)[k + 1] = add_word(loop(w, n)[k], w[k])
  <1>1. PICK s : s = loop(w, n)
    OBVIOUS
  <1>2. \A k \in 0 .. n : s[k] = LoopBody(s, w, k)
    BY <1>1, LoopDefined
  <1>3. s[0] = <<0, 0, 0, 0>>
    BY <1>2 DEF LoopBody
  <1>4. ASSUME NEW k \in 0 .. n - 1 PROVE s[k + 1] = add_word(s[k], w[k])
    <2>1. k + 1 \in 0 .. n /\ k + 1 # 0 /\ (k + 1) - 1 = k
      OBVIOUS
    <2> QED BY <1>2, <2>1 DEF LoopBody
  <1> QED BY <1>1, <1>3, <1>4

(* The result depends on the words only. *)
LEMMA LoopSame ==
  ASSUME NEW n \in Nat, NEW w, NEW v, \A j \in Below(n) : w[j] = v[j]
  PROVE  loop(w, n)[n] = loop(v, n)[n]
  <1> DEFINE Good == {m \in 0 .. n : loop(w, n)[m] = loop(v, n)[m]}
  <1>1. 0 \in Good
    BY LoopStep
  <1>2. ASSUME NEW m \in 0 .. n - 1, m \in Good PROVE m + 1 \in Good
    <2>1. /\ loop(w, n)[m + 1] = add_word(loop(w, n)[m], w[m])
          /\ loop(v, n)[m + 1] = add_word(loop(v, n)[m], v[m])
      BY LoopStep
    <2>2. w[m] = v[m] /\ loop(w, n)[m] = loop(v, n)[m] /\ m + 1 \in 0 .. n
      BY <1>2 DEF Below
    <2> QED BY <2>1, <2>2
  <1>3. 0 .. n \subseteq Good
    <2> HIDE DEF Good
    <2> QED BY <1>1, <1>2, BoundedInduction
  <1> QED BY <1>3

LEMMA ModulusAdds ==
  /\ \A x, y \in Nat : ((x % Modulus) + y) % Modulus = (x + y) % Modulus
  /\ \A x, y \in Nat : ((x % Modulus) + (y % Modulus)) % Modulus = (x + y) % Modulus
  /\ \A x, y, z \in Int : (x + z) % Modulus = (y + z) % Modulus => x % Modulus = y % Modulus
  <1>1. Modulus \in Nat /\ Modulus > 0
    BY ModulusPositive
  <1>2. \A x, y \in Int : ((x % Modulus) + y) % Modulus = (x + y) % Modulus
    BY <1>1, RemainderAdd
  <1>3. \A x, y \in Int : ((x % Modulus) + (y % Modulus)) % Modulus = (x + y) % Modulus
    BY <1>1, RemaindersAdd
  <1>4. \A x, y, z \in Int :
          (x + z) % Modulus = (y + z) % Modulus => x % Modulus = y % Modulus
    BY <1>1, RemainderCancel
  <1>5. \A x \in Nat : x \in Int
    OBVIOUS
  <1> QED BY <1>2, <1>3, <1>4, <1>5, Zenon

(* What the sums are after n words. *)
Sums(s, w, n) ==
  /\ s = <<s[1], s[2], s[3], s[4]>>
  /\ s[1] = Weighted(One, w, n) % Modulus
  /\ s[2] = Weighted(Line, w, n) % Modulus
  /\ s[3] = Weighted(Triangle, w, n) % Modulus
  /\ s[4] = Weighted(Tetrahedron, w, n) % Modulus

LEMMA WeightedNothing == ASSUME NEW weight, NEW w PROVE Weighted(weight, w, 0) = 0
  <1>1. Below(0) = {}
    BY DEF Below
  <1> QED BY <1>1, WeightedIs, SumNothing

LEMMA SumsStart == ASSUME NEW w PROVE Sums(<<0, 0, 0, 0>>, w, 0)
  <1>1. 0 % Modulus = 0
    BY ModulusPositive
  <1> QED BY <1>1, WeightedNothing DEF Sums

LEMMA SumsNext ==
  ASSUME NEW n \in Nat, NEW w, \A j \in Below(n + 1) : w[j] \in Nat, NEW s, Sums(s, w, n)
  PROVE  Sums(add_word(s, w[n]), w, n + 1)
  <1>1. /\ One \in [Nat -> Nat] /\ Line \in [Nat -> Nat]
        /\ Triangle \in [Nat -> Nat] /\ Tetrahedron \in [Nat -> Nat]
    BY LineAddsUp, TriangleAddsUp, TetrahedronAddsUp DEF AddsUp
  <1>2. /\ w[n] \in Nat /\ n + 1 \in Nat /\ \A j \in Below(n) : w[j] \in Nat
    BY BelowNext
  <1>3. PICK a \in Nat : a = Weighted(One, w, n)
    BY <1>1, <1>2, WeightedNat
  <1>4. PICK b \in Nat : b = Weighted(Line, w, n)
    BY <1>1, <1>2, WeightedNat
  <1>5. PICK c \in Nat : c = Weighted(Triangle, w, n)
    BY <1>1, <1>2, WeightedNat
  <1>6. PICK d \in Nat : d = Weighted(Tetrahedron, w, n)
    BY <1>1, <1>2, WeightedNat
  <1>7. PICK x \in Nat : x = w[n]
    BY <1>2
  <1>9. /\ Weighted(One, w, n + 1) = a + x
        /\ Weighted(Line, w, n + 1) = b + (a + x)
        /\ Weighted(Triangle, w, n + 1) = c + (b + (a + x))
        /\ Weighted(Tetrahedron, w, n + 1) = d + (c + (b + (a + x)))
    <2>1. Weighted(One, w, n + 1) = a + x
      BY <1>3, <1>7, TotalNext
    <2>2. Weighted(Line, w, n + 1) = b + (a + x)
      BY <1>4, <2>1, LineAddsUp, WeightedNext
    <2>3. Weighted(Triangle, w, n + 1) = c + (b + (a + x))
      BY <1>5, <2>2, TriangleAddsUp, WeightedNext
    <2> QED BY <1>6, <2>1, <2>2, <2>3, TetrahedronAddsUp, WeightedNext
  <1>10. PICK y \in Nat : y = a + x
    OBVIOUS
  <1>11. PICK z \in Nat : z = b + y
    OBVIOUS
  <1>12. PICK u \in Nat : u = c + z
    OBVIOUS
  <1>13. /\ ((a % Modulus) + x) % Modulus = y % Modulus
         /\ ((b % Modulus) + (y % Modulus)) % Modulus = z % Modulus
         /\ ((c % Modulus) + (z % Modulus)) % Modulus = u % Modulus
         /\ ((d % Modulus) + (u % Modulus)) % Modulus = (d + u) % Modulus
    <2>1. ((a % Modulus) + x) % Modulus = (a + x) % Modulus
      BY ModulusAdds
    <2>2. ((b % Modulus) + (y % Modulus)) % Modulus = (b + y) % Modulus
      BY ModulusAdds
    <2>3. ((c % Modulus) + (z % Modulus)) % Modulus = (c + z) % Modulus
      BY ModulusAdds
    <2>4. ((d % Modulus) + (u % Modulus)) % Modulus = (d + u) % Modulus
      BY ModulusAdds
    <2> QED BY <1>10, <1>11, <1>12, <2>1, <2>2, <2>3, <2>4
  <1>14. /\ s[1] = a % Modulus /\ s[2] = b % Modulus
         /\ s[3] = c % Modulus /\ s[4] = d % Modulus
    BY <1>3, <1>4, <1>5, <1>6 DEF Sums
  <1>15. add_word(s, w[n]) = <<y % Modulus, z % Modulus, u % Modulus, (d + u) % Modulus>>
    BY <1>7, <1>13, <1>14 DEF add_word
  <1> QED BY <1>9, <1>10, <1>11, <1>12, <1>15 DEF Sums

LEMMA LoopSums ==
  ASSUME NEW n \in Nat, NEW w, \A j \in Below(n) : w[j] \in Nat
  PROVE  \A k \in 0 .. n : Sums(loop(w, n)[k], w, k)
  <1> DEFINE Good == {k \in 0 .. n : Sums(loop(w, n)[k], w, k)}
  <1>1. 0 \in Good
    BY LoopStep, SumsStart
  <1>2. ASSUME NEW m \in 0 .. n - 1, m \in Good PROVE m + 1 \in Good
    <2>1. m \in Nat /\ m + 1 \in 0 .. n /\ \A j \in Below(m + 1) : w[j] \in Nat
      BY DEF Below
    <2>2. Sums(add_word(loop(w, n)[m], w[m]), w, m + 1)
      BY <1>2, <2>1, SumsNext
    <2> QED BY <2>1, <2>2, LoopStep
  <1>3. 0 .. n \subseteq Good
    <2> HIDE DEF Good
    <2> QED BY <1>1, <1>2, BoundedInduction
  <1> QED BY <1>3

----------------------------------------------------------------------------
(* The steps of FletcherSums are the recursion of Fletcher. *)
LoopInv ==
  /\ buf \in Buffer /\ length \in 0 .. MaxLength
  /\ i \in 0 .. Words(length)
  /\ sums = loop(words(buf, length), Words(length))[i]

LEMMA BufferTyped ==
  ASSUME NEW b \in Buffer, NEW n \in 0 .. MaxLength
  PROVE  n \in Nat /\ IsBuffer(b, n)
  BY WordAssumption, MaxLengthAssumption DEF Buffer, IsBuffer

LEMMA LoopInvInit == Init => LoopInv
  <1> SUFFICES ASSUME Init PROVE LoopInv
    OBVIOUS
  <1>1. buf \in Buffer /\ length \in 0 .. MaxLength /\ i = 0 /\ sums = <<0, 0, 0, 0>>
    BY DEF Init
  <1>2. Words(length) \in Nat
    BY <1>1, BufferTyped, WordsNat
  <1> QED BY <1>1, <1>2, LoopStep DEF LoopInv

LEMMA LoopInvStep == LoopInv /\ [Next]_vars => LoopInv'
  <1> SUFFICES ASSUME LoopInv, [Next]_vars PROVE LoopInv'
    OBVIOUS
  <1>0. /\ length \in Nat /\ IsBuffer(buf, length)
        /\ size(length) \in Nat /\ Words(length) \in Nat
        /\ size(length) <= Words(length) /\ (Words(length) = size(length) <=> rem(length) = 0)
    BY BufferTyped, WordsNat DEF LoopInv
  <1>1. ASSUME i < Words(length), i' = i + 1, sums' = add_word(sums, words(buf, length)[i]),
               buf' = buf, length' = length
        PROVE  LoopInv'
    <2>1. i \in 0 .. Words(length) - 1 /\ i + 1 \in 0 .. Words(length)
      BY <1>0, <1>1 DEF LoopInv
    <2>2. sums' = loop(words(buf, length), Words(length))[i + 1]
      BY <1>0, <1>1, <2>1, LoopStep DEF LoopInv
    <2> QED BY <1>1, <2>1, <2>2 DEF LoopInv
  <1>2. CASE NextWord
    <2>1. i < size(length) /\ i \in 0 .. Words(length) - 1
      BY <1>0, <1>2 DEF NextWord, LoopInv
    <2>2. words(buf, length)[i] = word(buf, i, WordBytes)
      BY <2>1 DEF words
    <2> QED BY <1>0, <1>1, <1>2, <2>1, <2>2 DEF NextWord
  <1>3. CASE LastWord
    <2>1. i = size(length) /\ i \in 0 .. Words(length) - 1
      BY <1>0, <1>3 DEF LastWord, LoopInv
    <2>2. words(buf, length)[i] = last(buf, length)
      BY <1>0, <2>1 DEF words
    <2> QED BY <1>0, <1>1, <1>3, <2>1, <2>2 DEF LastWord
  <1>4. CASE UNCHANGED vars
    BY <1>4 DEF LoopInv, vars
  <1> QED BY <1>2, <1>3, <1>4 DEF Next

THEOREM LoopInvariance == Spec => []LoopInv
  BY LoopInvInit, LoopInvStep, PTL DEF Spec

(* For every size of words and bytes and every buffer, each sum is the
   weighted sum of the words read so far: the remainders taken on the way
   (myfilesystem.c:718) lose nothing. *)
THEOREM SumsHaveClosedForm == Spec => []ClosedForm
  <1>1. LoopInv => ClosedForm
    <2> SUFFICES ASSUME LoopInv PROVE ClosedForm
      OBVIOUS
    <2>1. Words(length) \in Nat
      BY BufferTyped, WordsNat DEF LoopInv
    <2>2. \A j \in Below(Words(length)) : words(buf, length)[j] \in Nat
      BY BufferTyped, WordsOf DEF LoopInv
    <2>3. Sums(sums, words(buf, length), i)
      BY <2>1, <2>2, LoopSums DEF LoopInv
    <2>4. ASSUME NEW s \in 1 .. 4
          PROVE  sums[s] = Weighted(<<One, Line, Triangle, Tetrahedron>>[s],
                                    words(buf, length), i) % Modulus
      <3>1. s = 1 \/ s = 2 \/ s = 3 \/ s = 4
        OBVIOUS
      <3> QED BY <2>3, <3>1 DEF Sums
    <2> QED BY <2>4 DEF ClosedForm
  <1> QED BY <1>1, LoopInvariance, PTL

(* Another value of one word changes the sum a. *)
LEMMA OneWordNoticed ==
  ASSUME NEW n \in Nat, NEW w, \A j \in Below(n) : w[j] \in Nat,
         NEW v, NEW j \in Below(n), v[j] \in Nat, \A k \in Below(n) : k # j => v[k] = w[k],
         Weighted(One, v, n) % Modulus = Weighted(One, w, n) % Modulus
  PROVE  v[j] % Modulus = w[j] % Modulus
  <1> DEFINE F == Terms(One, w, n)
             G == Terms(One, v, n)
  <1>1. ASSUME NEW k \in Below(n) PROVE F[k] = w[k] /\ G[k] = v[k] /\ F[k] \in Nat /\ G[k] \in Nat
    <2>1. n - k \in Nat
      BY DEF Below
    <2>2. PICK c \in Nat : c = w[k]
      OBVIOUS
    <2>3. PICK d \in Nat : d = v[k]
      OBVIOUS
    <2> QED BY <2>1, <2>2, <2>3 DEF Terms, One
  <1>2. \A k \in Below(n) : k # j => G[k] = F[k]
    BY <1>1
  <1> HIDE DEF F, G
  <1>3. /\ SumFunctionOnSet(F, Below(n)) \in Nat /\ SumFunctionOnSet(G, Below(n)) \in Nat
        /\ F[j] <= SumFunctionOnSet(F, Below(n))
        /\ SumFunctionOnSet(G, Below(n)) = SumFunctionOnSet(F, Below(n)) - F[j] + G[j]
    BY <1>1, <1>2, BelowNext, SumChange
  <1>4. PICK x \in Nat : x = v[j]
    OBVIOUS
  <1>5. PICK y \in Nat : y = w[j]
    OBVIOUS
  <1>6. PICK z \in Int : z = SumFunctionOnSet(F, Below(n)) - y
    BY <1>3
  <1>7. Weighted(One, w, n) = y + z /\ Weighted(One, v, n) = x + z
    <2>1. F[j] = y /\ G[j] = x
      BY <1>1, <1>4, <1>5
    <2>2. Weighted(One, w, n) = SumFunctionOnSet(F, Below(n)) /\ Weighted(One, v, n) = SumFunctionOnSet(G, Below(n))
      BY WeightedIs DEF F, G
    <2> QED BY <1>3, <1>6, <2>1, <2>2
  <1>8. x % Modulus = y % Modulus
    <2>1. (x + z) % Modulus = (y + z) % Modulus
      BY <1>7
    <2>2. x \in Int /\ y \in Int
      OBVIOUS
    <2> QED BY <2>1, <2>2, ModulusAdds
  <1> QED BY <1>4, <1>5, <1>8

DifferAt(U, k, f, g) ==
  /\ IsFiniteSet(U) /\ k \in U
  /\ \A l \in U : f[l] \in Nat /\ g[l] \in Nat
  /\ \A l \in U : l # k => g[l] = f[l]

(* Sums that differ in one term have the rest in common. *)
LEMMA OneTermChanged ==
  ASSUME NEW U, NEW k, NEW f, NEW g, DifferAt(U, k, f, g)
  PROVE  \E z \in Int : SumFunctionOnSet(f, U) = f[k] + z /\ SumFunctionOnSet(g, U) = g[k] + z
  <1>1. /\ SumFunctionOnSet(f, U) \in Nat /\ SumFunctionOnSet(g, U) \in Nat
        /\ SumFunctionOnSet(g, U) = SumFunctionOnSet(f, U) - f[k] + g[k]
    BY SumChange DEF DifferAt
  <1>2. PICK s \in Nat : s = SumFunctionOnSet(f, U)
    BY <1>1
  <1>3. PICK x \in Nat : x = f[k]
    BY DEF DifferAt
  <1>4. PICK y \in Nat : y = g[k]
    BY DEF DifferAt
  <1>5. s - x \in Int /\ s = x + (s - x) /\ s - x + y = y + (s - x)
    OBVIOUS
  <1> QED BY <1>1, <1>2, <1>3, <1>4, <1>5

ByteAt(b, j, k) == b[j * WordBytes + k]

(* Another value of one byte changes the word it is in. *)
LEMMA OneByteNoticed ==
  ASSUME WordBytes > 1, NEW j \in Nat, NEW m \in 0 .. WordBytes, NEW k \in 0 .. m - 1,
         NEW b, \A l \in 0 .. m - 1 : ByteAt(b, j, l) \in 0 .. ByteBase - 1,
         NEW c, \A l \in 0 .. m - 1 : ByteAt(c, j, l) \in 0 .. ByteBase - 1,
         \A l \in 0 .. m - 1 : l # k => ByteAt(c, j, l) = ByteAt(b, j, l),
         ByteAt(c, j, k) # ByteAt(b, j, k)
  PROVE  word(c, j, m) % Modulus # word(b, j, m) % Modulus
  <1> USE WordAssumption
  <1>1. PICK f : f = WordTerms(b, j, m)
    OBVIOUS
  <1>2. PICK g : g = WordTerms(c, j, m)
    OBVIOUS
  <1>3. \A l \in 0 .. m - 1 : ByteAt(b, j, l) \in Nat /\ ByteAt(c, j, l) \in Nat
    OBVIOUS
  <1>4. \A l \in 0 .. m - 1 : f[l] \in Nat /\ g[l] \in Nat
    BY <1>1, <1>2, <1>3, WordNat DEF ByteAt
  <1>5. \A l \in 0 .. m - 1 : l # k => g[l] = f[l]
    BY <1>1, <1>2 DEF WordTerms, ByteAt
  <1>6. PICK z \in Int : /\ SumFunctionOnSet(f, 0 .. m - 1) = f[k] + z
                        /\ SumFunctionOnSet(g, 0 .. m - 1) = g[k] + z
    <2>1. PICK U : U = 0 .. m - 1 /\ IsFiniteSet(U)
      BY FS_Interval
    <2>2. DifferAt(U, k, f, g)
      BY <1>4, <1>5, <2>1 DEF DifferAt
    <2>3. \E z \in Int : SumFunctionOnSet(f, U) = f[k] + z /\ SumFunctionOnSet(g, U) = g[k] + z
      BY <2>1, <2>2, OneTermChanged
    <2> QED BY <2>1, <2>3
  <1>7. PICK x \in 0 .. ByteBase - 1 : x = ByteAt(b, j, k)
    OBVIOUS
  <1>8. PICK y \in 0 .. ByteBase - 1 : y = ByteAt(c, j, k)
    OBVIOUS
  <1>9. k \in 0 .. WordBytes - 1 /\ k \in 0 .. WordBytes
    OBVIOUS
  <1>10. PICK p \in Nat : p = place[k] /\ p > 0
    <2>1. place[k] \in Nat /\ place[k] > k
      BY <1>9, PlaceNat
    <2> QED BY <2>1
  <1>11. PICK u \in 0 .. Modulus - 1 : u = p * x
    BY <1>9, <1>10, ByteBelowModulus
  <1>12. PICK v \in 0 .. Modulus - 1 : v = p * y
    BY <1>9, <1>10, ByteBelowModulus
  <1>13. f[k] = u /\ g[k] = v
    <2>1. f[k] = x * p /\ g[k] = y * p
      BY <1>1, <1>2, <1>7, <1>8, <1>10 DEF WordTerms, ByteAt
    <2>2. x * p = p * x /\ y * p = p * y
      OBVIOUS
    <2> QED BY <2>1, <2>2, <1>11, <1>12
  <1>14. word(b, j, m) = u + z /\ word(c, j, m) = v + z
    BY <1>1, <1>2, <1>6, <1>13, WordIs
  <1>15. ASSUME (v + z) % Modulus = (u + z) % Modulus PROVE FALSE
    <2>1. u \in Int /\ v \in Int /\ Modulus \in Nat
      BY ModulusPositive
    <2>2. v % Modulus = u % Modulus
      BY <1>15, <2>1, ModulusAdds
    <2>3. u = Modulus * 0 + u /\ v = Modulus * 0 + v /\ 0 \in Int
      BY <2>1
    <2>4. u % Modulus = u /\ v % Modulus = v
      BY <2>1, <2>3, RemainderIs
    <2>5. p * x = p * y
      BY <1>11, <1>12, <2>2, <2>4
    <2>6. ASSUME NEW s \in Nat, NEW t \in Nat, s < t PROVE p * s # p * t
      <3>1. PICK d \in Nat : t = s + 1 + d
        <4>1. t - (s + 1) \in Nat /\ t = s + 1 + (t - (s + 1))
          BY <2>6
        <4> QED BY <4>1
      <3>2. p * t = p * s + p + p * d /\ p * s \in Nat /\ p * d \in Nat
        BY <3>1
      <3> QED BY <1>10, <3>2
    <2>7. x \in Nat /\ y \in Nat /\ (x < y \/ y < x)
      BY <1>7, <1>8
    <2> QED BY <2>5, <2>6, <2>7
  <1> QED BY <1>14, <1>15

(* For every buffer and words of two or more bytes: another value in one byte
   gives another checksum exactly when the byte is within the length.  So no
   byte of a remainder is dropped, and none behind it is read (myfilesystem.c:725). *)
THEOREM EveryByteAlwaysCounts ==
  ASSUME WordBytes > 1
  PROVE  Spec => []EveryByteCounts
  <1>1. ASSUME LoopInv, Done, NEW p \in DOMAIN buf, NEW x \in 0 .. ByteBase - 1, x # buf[p]
        PROVE  fletcher([buf EXCEPT ![p] = x], length) # sums <=> p < length
    <2>1. PICK c : c = [buf EXCEPT ![p] = x]
      OBVIOUS
    <2>2. /\ buf \in Buffer /\ c \in Buffer /\ length \in Nat /\ p \in 0 .. MaxLength - 1
          /\ \A q \in 0 .. MaxLength - 1 : c[q] = IF q = p THEN x ELSE buf[q]
          /\ length <= MaxLength
      BY <1>1, <2>1, MaxLengthAssumption DEF LoopInv, Buffer
    <2>3. IsBuffer(buf, length) /\ IsBuffer(c, length)
      BY <1>1, <2>2, BufferTyped DEF LoopInv
    <2>4. PICK n \in Nat : n = Words(length)
      BY <2>2, WordsNat
    <2>5. PICK w : w = words(buf, length) /\ \A j \in Below(n) :
                     w[j] = word(buf, j, Bytes(length, j)) /\ w[j] \in Nat
      BY <2>2, <2>3, <2>4, WordsOf
    <2>6. PICK v : v = words(c, length) /\ \A j \in Below(n) :
                     v[j] = word(c, j, Bytes(length, j)) /\ v[j] \in Nat
      BY <2>2, <2>3, <2>4, WordsOf
    <2>7. sums = loop(w, n)[n] /\ fletcher(c, length) = loop(v, n)[n]
      BY <1>1, <2>4, <2>5, <2>6 DEF LoopInv, Done, fletcher
    <2>8. ASSUME NEW j \in Below(n), NEW m, m = Bytes(length, j)
          PROVE  /\ j \in Nat /\ m \in 0 .. WordBytes
                 /\ \A k \in 0 .. m - 1 :
                      /\ j * WordBytes + k \in 0 .. length - 1
                      /\ j * WordBytes + k \in 0 .. MaxLength - 1
      <3>1. /\ j \in Nat /\ m \in 0 .. WordBytes
            /\ \A k \in 0 .. m - 1 : j * WordBytes + k \in 0 .. length - 1
        BY <2>2, <2>4, <2>8, BytesInside
      <3>2. 0 .. length - 1 \subseteq 0 .. MaxLength - 1
        BY <2>2, MaxLengthAssumption
      <3> QED BY <3>1, <3>2
    <2>9. ASSUME NEW j \in Below(n),
                 \A k \in 0 .. Bytes(length, j) - 1 : j * WordBytes + k # p
          PROVE  v[j] = w[j]
      <3>1. PICK m : m = Bytes(length, j)
        OBVIOUS
      <3>2. \A k \in 0 .. m - 1 : c[j * WordBytes + k] = buf[j * WordBytes + k]
        BY <2>2, <2>8, <2>9, <3>1
      <3>3. WordTerms(c, j, m) = WordTerms(buf, j, m)
        BY <3>2 DEF WordTerms
      <3> QED BY <2>5, <2>6, <3>1, <3>3, WordIs
    <2>10. CASE p < length
      <3>1. PICK j : j = size(p)
        OBVIOUS
      <3>2. PICK k : k = rem(p)
        OBVIOUS
      <3>3. PICK m : m = Bytes(length, j)
        OBVIOUS
      <3>4. p \in 0 .. length - 1 /\ p \in Nat
        BY <2>2, <2>10
      <3>5. j \in Below(n) /\ k \in 0 .. m - 1 /\ p = j * WordBytes + k
        BY <2>2, <2>4, <3>1, <3>2, <3>3, <3>4, WordOfByte, PlaceOfByte
      <3>6. ASSUME NEW q \in Below(n), NEW l \in 0 .. Bytes(length, q) - 1, q * WordBytes + l = p
            PROVE  q = j /\ l = k
        <4>1. q \in Nat /\ l \in 0 .. WordBytes - 1
          <5>1. PICK h \in 0 .. WordBytes : h = Bytes(length, q)
            BY <2>8
          <5>2. l \in 0 .. h - 1 /\ q \in Nat
            BY <2>8, <5>1
          <5> QED BY <5>2, WordAssumption
        <4> QED BY <3>1, <3>2, <3>4, <3>6, <4>1, PlaceOfByte
      <3>7. \A q \in Below(n) : q # j => v[q] = w[q]
        BY <2>9, <3>6
      <3>8. /\ j \in Nat /\ m \in 0 .. WordBytes
            /\ \A l \in 0 .. m - 1 : j * WordBytes + l \in 0 .. MaxLength - 1
        BY <2>8, <3>3, <3>5
      <3>9. \A q \in 0 .. MaxLength - 1 : buf[q] \in 0 .. ByteBase - 1 /\ c[q] \in 0 .. ByteBase - 1
        BY <2>2 DEF Buffer
      <3>10. \A l \in 0 .. m - 1 : /\ buf[j * WordBytes + l] \in 0 .. ByteBase - 1
                                   /\ c[j * WordBytes + l] \in 0 .. ByteBase - 1
        BY <3>8, <3>9
      <3>11. \A l \in 0 .. m - 1 : l # k => c[j * WordBytes + l] = buf[j * WordBytes + l]
        BY <2>2, <3>3, <3>5, <3>6, <3>8
      <3>12. c[j * WordBytes + k] # buf[j * WordBytes + k]
        BY <1>1, <2>2, <3>5
      <3>13. word(c, j, m) % Modulus # word(buf, j, m) % Modulus
        BY <3>5, <3>8, <3>10, <3>11, <3>12, OneByteNoticed DEF ByteAt
      <3>14. v[j] % Modulus # w[j] % Modulus
        BY <2>5, <2>6, <3>3, <3>5, <3>13
      <3>15. ASSUME loop(v, n)[n] = loop(w, n)[n] PROVE FALSE
        <4>1. n \in 0 .. n
          OBVIOUS
        <4>2. Sums(loop(v, n)[n], v, n) /\ Sums(loop(w, n)[n], w, n)
          BY <2>5, <2>6, <4>1, LoopSums
        <4>3. Weighted(One, v, n) % Modulus = Weighted(One, w, n) % Modulus
          BY <3>15, <4>2 DEF Sums
        <4> QED BY <2>5, <2>6, <3>5, <3>7, <3>14, <4>3, OneWordNoticed
      <3> QED BY <2>1, <2>7, <2>10, <3>15
    <2>11. CASE ~ (p < length)
      <3>1. \A j \in Below(n) : v[j] = w[j]
        <4>1. ASSUME NEW j \in Below(n), NEW k \in 0 .. Bytes(length, j) - 1
              PROVE  j * WordBytes + k # p
          BY <2>2, <2>8, <2>11
        <4> QED BY <2>9, <4>1
      <3>2. loop(v, n)[n] = loop(w, n)[n]
        BY <3>1, LoopSame
      <3> QED BY <2>1, <2>7, <2>11, <3>2
    <2> QED BY <2>10, <2>11
  <1>2. LoopInv => EveryByteCounts
    BY <1>1 DEF EveryByteCounts
  <1> QED BY <1>2, LoopInvariance, PTL

(* What a sum becomes when two of its terms change. *)
LEMMA SumTwoChange ==
  ASSUME NEW U, IsFiniteSet(U), NEW f, NEW g, \A x \in U : f[x] \in Nat /\ g[x] \in Nat,
         NEW a \in U, NEW b \in U, a # b, \A x \in U : x # a /\ x # b => g[x] = f[x]
  PROVE  /\ SumFunctionOnSet(f, U) \in Nat /\ SumFunctionOnSet(g, U) \in Nat
         /\ SumFunctionOnSet(g, U) + (f[a] + f[b]) = SumFunctionOnSet(f, U) + (g[a] + g[b])
  <1>1. PICK h : h = [x \in U |-> IF x = a THEN g[x] ELSE f[x]]
    OBVIOUS
  <1>2. /\ \A x \in U : f[x] \in Nat /\ h[x] \in Nat
        /\ \A x \in U : x # a => h[x] = f[x]
    BY <1>1
  <1>3. /\ \A x \in U : h[x] \in Nat /\ g[x] \in Nat
        /\ \A x \in U : x # b => g[x] = h[x]
    BY <1>1
  <1>4. /\ SumFunctionOnSet(f, U) \in Nat /\ SumFunctionOnSet(h, U) \in Nat
        /\ SumFunctionOnSet(h, U) = SumFunctionOnSet(f, U) - f[a] + h[a]
    BY <1>2, SumChange
  <1>5. /\ SumFunctionOnSet(g, U) \in Nat
        /\ SumFunctionOnSet(g, U) = SumFunctionOnSet(h, U) - h[b] + g[b]
    BY <1>3, SumChange
  <1>6. h[a] = g[a] /\ h[b] = f[b]
    BY <1>1
  <1> QED BY <1>2, <1>3, <1>4, <1>5, <1>6

(* Two neighbours swapped change the sum b by their difference. *)
LEMMA SwapNoticed ==
  ASSUME NEW n \in Nat, NEW w, \A j \in Below(n) : w[j] \in Nat,
         NEW v, NEW j \in 0 .. n - 2, v[j] = w[j + 1], v[j + 1] = w[j],
         \A k \in Below(n) : k # j /\ k # j + 1 => v[k] = w[k],
         Weighted(Line, v, n) % Modulus = Weighted(Line, w, n) % Modulus
  PROVE  w[j] % Modulus = w[j + 1] % Modulus
  <1>1. PICK f : f = Terms(Line, w, n)
    OBVIOUS
  <1>2. PICK g : g = Terms(Line, v, n)
    OBVIOUS
  <1>3. PICK U : U = Below(n) /\ IsFiniteSet(U)
    BY BelowNext
  <1>4. /\ j \in U /\ j + 1 \in U /\ j # j + 1
        /\ n - j \in Nat /\ n - (j + 1) \in Nat /\ n - j = (n - (j + 1)) + 1
    BY <1>3 DEF Below
  <1>5. \A k \in U : v[k] \in Nat
    BY <1>3, <1>4
  <1>6. \A k \in U : f[k] \in Nat /\ g[k] \in Nat
    BY <1>1, <1>2, <1>3, <1>5, TermNat, LineAddsUp DEF AddsUp
  <1>7. \A k \in U : k # j /\ k # j + 1 => g[k] = f[k]
    BY <1>1, <1>2, <1>3 DEF Terms
  <1>8. PICK x \in Nat : x = w[j]
    BY <1>3, <1>4
  <1>9. PICK y \in Nat : y = w[j + 1]
    BY <1>3, <1>4
  <1>10. PICK e \in Nat : e = n - (j + 1)
    BY <1>4
  <1>11. f[j] = (e + 1) * x /\ f[j + 1] = e * y /\ g[j] = (e + 1) * y /\ g[j + 1] = e * x
    BY <1>1, <1>2, <1>3, <1>4, <1>8, <1>9, <1>10 DEF Terms, Line
  <1>12. /\ SumFunctionOnSet(f, U) \in Nat /\ SumFunctionOnSet(g, U) \in Nat
         /\ SumFunctionOnSet(g, U) + (f[j] + f[j + 1]) = SumFunctionOnSet(f, U) + (g[j] + g[j + 1])
    <2>1. PICK a \in U : a = j
      BY <1>4
    <2>2. PICK b \in U : b = j + 1
      BY <1>4
    <2>3. a # b /\ \A k \in U : k # a /\ k # b => g[k] = f[k]
      BY <1>4, <1>7, <2>1, <2>2
    <2>4. /\ SumFunctionOnSet(f, U) \in Nat /\ SumFunctionOnSet(g, U) \in Nat
          /\ SumFunctionOnSet(g, U) + (f[a] + f[b]) = SumFunctionOnSet(f, U) + (g[a] + g[b])
      BY <1>3, <1>6, <2>3, SumTwoChange
    <2> QED BY <2>1, <2>2, <2>4
  <1>13. SumFunctionOnSet(g, U) + x = SumFunctionOnSet(f, U) + y
    <2>1. (e + 1) * x = e * x + x /\ (e + 1) * y = e * y + y /\ e * x \in Nat /\ e * y \in Nat
      OBVIOUS
    <2> QED BY <1>11, <1>12, <2>1
  <1>14. PICK z \in Int : z = SumFunctionOnSet(f, U) - x
    BY <1>12
  <1>15. Weighted(Line, w, n) = x + z /\ Weighted(Line, v, n) = y + z
    <2>1. Weighted(Line, w, n) = SumFunctionOnSet(f, U) /\ Weighted(Line, v, n) = SumFunctionOnSet(g, U)
      BY <1>1, <1>2, <1>3, WeightedIs
    <2> QED BY <1>12, <1>13, <1>14, <2>1
  <1>16. y % Modulus = x % Modulus
    <2>1. (y + z) % Modulus = (x + z) % Modulus
      BY <1>15
    <2>2. x \in Int /\ y \in Int
      OBVIOUS
    <2> QED BY <2>1, <2>2, ModulusAdds
  <1> QED BY <1>8, <1>9, <1>16

(* The checksum notices another value of one word and two neighbouring words
   swapped, for every buffer. *)
THEOREM AlwaysNotices == Spec => []Notices
  <1>1. ASSUME LoopInv, Done, NEW w, w = words(buf, length)
        PROVE  /\ \A j \in 0 .. i - 1, x \in 0 .. Modulus :
                    x % Modulus # w[j] % Modulus => loop([w EXCEPT ![j] = x], i)[i] # sums
               /\ \A j \in 0 .. i - 2 :
                    w[j] % Modulus # w[j + 1] % Modulus =>
                      loop([w EXCEPT ![j] = w[j + 1], ![j + 1] = w[j]], i)[i] # sums
    <2>1. i \in Nat /\ i = Words(length)
      BY <1>1, BufferTyped, WordsNat DEF LoopInv, Done
    <2>2. w = [j \in Below(i) |-> w[j]] /\ \A j \in Below(i) : w[j] \in Nat
      BY <1>1, <2>1, BufferTyped, WordsOf DEF words, Below, LoopInv
    <2>3. sums = loop(w, i)[i]
      BY <1>1, <2>1 DEF LoopInv
    <2>4. ASSUME NEW v, \A j \in Below(i) : v[j] \in Nat, loop(v, i)[i] = sums
          PROVE  /\ Weighted(One, v, i) % Modulus = Weighted(One, w, i) % Modulus
                 /\ Weighted(Line, v, i) % Modulus = Weighted(Line, w, i) % Modulus
      <3>1. i \in 0 .. i
        BY <2>1
      <3>2. Sums(sums, v, i)
        BY <2>1, <2>4, <3>1, LoopSums
      <3>3. Sums(sums, w, i)
        BY <2>1, <2>2, <2>3, <3>1, LoopSums
      <3> QED BY <3>2, <3>3 DEF Sums
    <2>5. ASSUME NEW j \in 0 .. i - 1, NEW x \in 0 .. Modulus, x % Modulus # w[j] % Modulus,
                 loop([w EXCEPT ![j] = x], i)[i] = sums
          PROVE  FALSE
      <3>1. PICK v : v = [w EXCEPT ![j] = x]
        OBVIOUS
      <3>2. j \in Below(i) /\ x \in Nat
        BY ModulusPositive DEF Below
      <3>3. v[j] = x /\ \A k \in Below(i) : k # j => v[k] = w[k]
        BY <2>2, <3>1, <3>2
      <3>4. \A k \in Below(i) : v[k] \in Nat
        BY <2>2, <3>2, <3>3
      <3>5. Weighted(One, v, i) % Modulus = Weighted(One, w, i) % Modulus
        BY <2>4, <2>5, <3>1, <3>4
      <3>6. v[j] % Modulus = w[j] % Modulus
        BY <2>1, <2>2, <3>2, <3>3, <3>5, OneWordNoticed
      <3> QED BY <2>5, <3>3, <3>6
    <2>6. ASSUME NEW j \in 0 .. i - 2, w[j] % Modulus # w[j + 1] % Modulus,
                 loop([w EXCEPT ![j] = w[j + 1], ![j + 1] = w[j]], i)[i] = sums
          PROVE  FALSE
      <3>1. PICK v : v = [w EXCEPT ![j] = w[j + 1], ![j + 1] = w[j]]
        OBVIOUS
      <3>2. j \in Below(i) /\ j + 1 \in Below(i) /\ j # j + 1
        BY <2>1 DEF Below
      <3>3. /\ v[j] = w[j + 1] /\ v[j + 1] = w[j]
            /\ \A k \in Below(i) : k # j /\ k # j + 1 => v[k] = w[k]
        BY <2>2, <3>1, <3>2
      <3>4. \A k \in Below(i) : v[k] \in Nat
        BY <2>2, <3>2, <3>3
      <3>5. Weighted(Line, v, i) % Modulus = Weighted(Line, w, i) % Modulus
        BY <2>4, <2>6, <3>1, <3>4
      <3>6. w[j] % Modulus = w[j + 1] % Modulus
        BY <2>1, <2>2, <3>3, <3>5, SwapNoticed
      <3> QED BY <2>6, <3>6
    <2> QED BY <2>5, <2>6
  <1>2. LoopInv => Notices
    BY <1>1 DEF Notices
  <1> QED BY <1>2, LoopInvariance, PTL
============================================================================
