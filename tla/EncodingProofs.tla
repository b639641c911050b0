--------------------------- MODULE EncodingProofs ---------------------------
(***************************************************************************)
(* Both encodings of Encoding are undone by what their readers compute,    *)
(* for every radix and every width.  The library's theorems on induction   *)
(* are about predicates; the proofs here need them over sets of numbers.   *)
(***************************************************************************)
EXTENDS Encoding, FiniteSetTheorems, WellFoundedInduction, TLAPS

-----------------------------------------------------------------------------
(* A set of naturals has a least element: of the finite sets 0..x with x   *)
(* in it, one has no proper subset among the others.                       *)
LEMMA LeastOfSet ==
  ASSUME NEW T, T \subseteq Nat, T # {}
  PROVE  \E x \in T : \A y \in T : x <= y
<1> DEFINE Segments == {0..x : x \in T}
<1>1. IsWellFoundedOn(StrictSubsetOrdering(Nat), FiniteSubsetsOf(Nat))
  BY FS_StrictSubsetOrderingWellFounded
<1>2. Segments \subseteq FiniteSubsetsOf(Nat)
  <2>1. ASSUME NEW x \in T PROVE 0..x \in SUBSET Nat /\ IsFiniteSet(0..x)
    <3>1. 0 \in Int /\ x \in Int
      OBVIOUS
    <3>2. IsFiniteSet(0..x)
      BY <3>1, FS_Interval
    <3> QED
      BY <3>2
  <2> QED
    BY <2>1 DEF FiniteSubsetsOf
<1>3. PICK A \in Segments : \A B \in Segments : ~ (<<B, A>> \in StrictSubsetOrdering(Nat))
  <2>1. Segments # {}
    OBVIOUS
  <2> HIDE DEF Segments
  <2> QED
    BY <1>1, <1>2, <2>1, WFMin
<1>4. PICK x \in T : A = 0..x
  OBVIOUS
<1>5. ASSUME NEW y \in T PROVE x <= y
  <2>1. ~ (<<0..y, 0..x>> \in StrictSubsetOrdering(Nat))
    BY <1>3, <1>4
  <2>2. ~ (0..y \subseteq 0..x /\ 0..y # 0..x)
    BY <2>1 DEF StrictSubsetOrdering
  <2>3. CASE y < x
    <3>1. x \in 0..x /\ x \notin 0..y
      BY <2>3
    <3> QED
      BY <2>2, <2>3, <3>1
  <2> QED
    BY <2>3
<1> QED
  BY <1>5

(* A set that has 0 and the successor of each of its elements has all.     *)
LEMMA SetInduction ==
  ASSUME NEW S, 0 \in S, \A n \in Nat : n \in S => n + 1 \in S
  PROVE  Nat \subseteq S
<1> DEFINE T == Nat \ S
<1>1. SUFFICES ASSUME T # {} PROVE FALSE
  OBVIOUS
<1>2. PICK x \in T : \A y \in T : x <= y
  BY <1>1, LeastOfSet
<1>3. x \in Nat /\ x # 0 /\ x - 1 \in Nat
  BY <1>2
<1>4. x - 1 \in S
  BY <1>2, <1>3
<1> QED
  BY <1>2, <1>3, <1>4

(* The same, where the successor may lean on all that come before it.      *)
LEMMA StrongSetInduction ==
  ASSUME NEW S, \A n \in Nat : (0..n - 1) \subseteq S => n \in S
  PROVE  Nat \subseteq S
<1> DEFINE T == Nat \ S
<1>1. SUFFICES ASSUME T # {} PROVE FALSE
  OBVIOUS
<1>2. PICK x \in T : \A y \in T : x <= y
  BY <1>1, LeastOfSet
<1>3. (0..x - 1) \subseteq S
  BY <1>2
<1> QED
  BY <1>2, <1>3

(* A sequence of values each computed from the one before it exists.  This *)
(* is what a recursive function on an initial segment of the naturals, or  *)
(* on all of them, needs to satisfy its defining equation.                 *)
Iterates(f, A, a, step) ==
  /\ f \in [Nat -> A] /\ f[0] = a
  /\ \A n \in Nat : f[n + 1] = step[n][f[n]]

LEMMA RecursiveFunction ==
  ASSUME NEW A, NEW a \in A, NEW step \in [Nat -> [A -> A]]
  PROVE  \E f : Iterates(f, A, a, step)
<1> DEFINE Chain(n, f) == /\ f \in [0..n -> A] /\ f[0] = a
                          /\ \A k \in 0..n - 1 : f[k + 1] = step[k][f[k]]
           Reached  == {n \in Nat : \E f : Chain(n, f)}
           Along(n) == CHOOSE f : Chain(n, f)
           F        == [n \in Nat |-> Along(n)[n]]
<1>1. 0 \in Reached
  <2>1. Chain(0, [k \in 0..0 |-> a])
    OBVIOUS
  <2> HIDE DEF Chain
  <2> QED
    BY <2>1
<1>2. ASSUME NEW n \in Nat, n \in Reached PROVE n + 1 \in Reached
  <2>1. PICK f : Chain(n, f)
    BY <1>2
  <2> DEFINE g == [k \in 0..n + 1 |-> IF k = n + 1 THEN step[n][f[n]] ELSE f[k]]
  <2>2. n \in 0..n /\ f[n] \in A /\ step[n][f[n]] \in A
    BY <2>1
  <2>3. g \in [0..n + 1 -> A] /\ g[0] = a
    BY <2>1, <2>2
  <2>4. ASSUME NEW k \in 0..(n + 1) - 1 PROVE g[k + 1] = step[k][g[k]]
    <3>1. g[k] = f[k]
      BY <2>4
    <3>2. CASE k = n
      BY <3>1, <3>2
    <3>3. CASE k # n
      <4>1. k \in 0..n - 1 /\ k + 1 \in 0..n + 1 /\ k + 1 # n + 1
        BY <2>4, <3>3
      <4>2. g[k + 1] = f[k + 1] /\ f[k + 1] = step[k][f[k]]
        BY <2>1, <4>1
      <4> QED
        BY <3>1, <4>2
    <3> QED
      BY <3>2, <3>3
  <2>5. Chain(n + 1, g)
    BY <2>3, <2>4
  <2> HIDE DEF Chain, g
  <2> QED
    BY <2>5
<1>3. Nat \subseteq Reached
  <2> HIDE DEF Reached
  <2> QED
    BY <1>1, <1>2, SetInduction
<1>4. ASSUME NEW n \in Nat PROVE Chain(n, Along(n))
  <2>1. \E f : Chain(n, f)
    BY <1>3
  <2> HIDE DEF Chain
  <2> QED
    BY <2>1
<1>5. ASSUME NEW n \in Nat PROVE Along(n + 1)[n] = Along(n)[n]
  <2> DEFINE f == Along(n)
             g == Along(n + 1)
             Same == {k \in Nat : k \in 0..n => g[k] = f[k]}
  <2>1. Chain(n, f) /\ Chain(n + 1, g)
    <3> HIDE DEF Chain, Along
    <3> QED
      BY <1>4, n + 1 \in Nat
  <2> HIDE DEF f, g
  <2>2. 0 \in Same
    BY <2>1
  <2>3. ASSUME NEW k \in Nat, k \in Same PROVE k + 1 \in Same
    <3>1. CASE k + 1 \in 0..n
      <4>1. k \in 0..n /\ k \in 0..n - 1 /\ k \in 0..(n + 1) - 1
        BY <3>1
      <4>2. g[k + 1] = step[k][g[k]] /\ f[k + 1] = step[k][f[k]]
        BY <2>1, <4>1
      <4> QED
        BY <2>3, <4>1, <4>2
    <3> QED
      BY <3>1
  <2>4. Nat \subseteq Same
    <3> HIDE DEF Same
    <3> QED
      BY <2>2, <2>3, SetInduction
  <2>5. g[n] = f[n]
    BY <2>4
  <2> QED
    BY <2>5 DEF f, g
<1>6. ASSUME NEW n \in Nat PROVE F[n] \in A /\ F[n + 1] = step[n][F[n]]
  <2>1. Chain(n, Along(n)) /\ Chain(n + 1, Along(n + 1))
    <3> HIDE DEF Chain, Along
    <3> QED
      BY <1>4, n + 1 \in Nat
  <2>2. Along(n + 1)[n] = Along(n)[n]
    BY <1>5
  <2> HIDE DEF Along
  <2>3. Along(n)[n] \in A /\ Along(n + 1)[n + 1] = step[n][Along(n + 1)[n]]
    BY <2>1
  <2> QED
    BY <2>2, <2>3
<1>7. F[0] = a
  <2>1. Chain(0, Along(0))
    BY <1>4
  <2> HIDE DEF Along
  <2> QED
    BY <2>1
<1>8. F \in [Nat -> A]
  <2> HIDE DEF Along
  <2> QED
    BY <1>6
<1> HIDE DEF F
<1>9. Iterates(F, A, a, step)
  BY <1>6, <1>7, <1>8 DEF Iterates
<1> QED
  BY <1>9

IteratesTo(N, f, A, a, step) ==
  /\ f \in [0..N -> A] /\ f[0] = a
  /\ \A n \in 0..N - 1 : f[n + 1] = step[n][f[n]]

LEMMA RecursiveSequence ==
  ASSUME NEW A, NEW a \in A, NEW step \in [Nat -> [A -> A]], NEW N \in Nat
  PROVE  \E f : IteratesTo(N, f, A, a, step)
<1>1. PICK f : Iterates(f, A, a, step)
  BY RecursiveFunction
<1>2. f \in [Nat -> A] /\ f[0] = a /\ \A n \in Nat : f[n + 1] = step[n][f[n]]
  BY <1>1 DEF Iterates
<1> DEFINE g == [n \in 0..N |-> f[n]]
<1>3. g \in [0..N -> A] /\ g[0] = a
  BY <1>2
<1>4. ASSUME NEW n \in 0..N - 1 PROVE g[n + 1] = step[n][g[n]]
  <2>1. n \in Nat /\ n \in 0..N /\ n + 1 \in 0..N
    OBVIOUS
  <2> QED
    BY <1>2, <2>1
<1> HIDE DEF g
<1>5. IteratesTo(N, g, A, a, step)
  BY <1>3, <1>4 DEF IteratesTo
<1> QED
  BY <1>5

-----------------------------------------------------------------------------
(* Arithmetic.                                                             *)

LEMMA DivMod ==
  ASSUME NEW n \in Nat, n > 0, NEW x \in Int
  PROVE  /\ x = ((x \div n) * n) + (x % n)
         /\ x % n \in 0..n - 1 /\ x \div n \in Int
         /\ x >= 0 => x \div n >= 0
OBVIOUS

LEMMA DivModUnique ==
  ASSUME NEW n \in Nat, n > 0, NEW k \in Int, NEW r \in 0..n - 1
  PROVE  (k * n + r) % n = r /\ (k * n + r) \div n = k
OBVIOUS

LEMMA ProductBelow ==
  ASSUME NEW a \in Nat, NEW b \in Nat, NEW c \in Nat, a <= b
  PROVE  a * c <= b * c /\ c * a <= c * b /\ a * c \in Nat
OBVIOUS

(* Sequences are functions.                                                *)
LEMMA SequenceOfFunction ==
  ASSUME NEW S, NEW n \in Nat, NEW f \in [1..n -> S]
  PROVE  f \in Seq(S) /\ Len(f) = n
OBVIOUS

LEMMA SameSequence ==
  ASSUME NEW S, NEW s \in Seq(S), NEW t \in Seq(S), Len(s) = Len(t),
         \A i \in 1..Len(s) : s[i] = t[i]
  PROVE  s = t
OBVIOUS

LEMMA Concatenation ==
  ASSUME NEW S, NEW s \in Seq(S), NEW t \in Seq(S)
  PROVE  /\ s \o t \in Seq(S) /\ Len(s \o t) = Len(s) + Len(t)
         /\ \A i \in 1..Len(s) : (s \o t)[i] = s[i]
         /\ \A i \in 1..Len(t) : (s \o t)[Len(s) + i] = t[i]
         /\ <<>> \o t = t
OBVIOUS

(* A digit d in front of k digits.                                         *)
LEMMA DigitInFront ==
  ASSUME NEW r \in Nat, NEW p \in Nat, NEW s \in 0..p - 1, NEW d \in 0..r - 1
  PROVE  s + d * p \in 0..r * p - 1
<1>1. d + 1 \in Nat /\ d + 1 <= r
  OBVIOUS
<1>2. (d + 1) * p <= r * p
  BY <1>1, ProductBelow
<1>3. (d + 1) * p = d * p + p /\ d * p \in Nat
  OBVIOUS
<1>4. r * p \in Nat
  OBVIOUS
<1> QED
  BY <1>2, <1>3, <1>4

LEMMA Regroup ==
  ASSUME NEW s \in Int, NEW d \in Int, NEW p \in Int, NEW h \in Int, NEW r \in Int
  PROVE  s + (h * r + d) * p = (s + d * p) + h * (r * p)
OBVIOUS

-----------------------------------------------------------------------------
(* The powers.                                                             *)

LEMMA RadixValue ==
  /\ Base \in Nat /\ Base >= 2 /\ Radix \in Nat /\ Radix >= 4 /\ Radix = 2 * Base
  /\ WordBytes \in Nat /\ WordBytes >= 5
BY EncodingAssumption DEF EncodingAssumption, Radix

LEMMA PowerExists ==
  ASSUME NEW b \in Nat
  PROVE  \E p : p = [k \in Nat |-> IF k = 0 THEN 1 ELSE b * p[k - 1]]
<1> DEFINE step == [n \in Nat |-> [x \in Nat |-> b * x]]
<1>1. step \in [Nat -> [Nat -> Nat]]
  OBVIOUS
<1>2. \A n \in Nat : \A x \in Nat : step[n][x] = b * x
  OBVIOUS
<1> HIDE DEF step
<1>3. PICK p : Iterates(p, Nat, 1, step)
  BY <1>1, 1 \in Nat, RecursiveFunction
<1>4. /\ p \in [Nat -> Nat] /\ p[0] = 1
      /\ \A n \in Nat : p[n + 1] = step[n][p[n]]
  BY <1>3 DEF Iterates
<1>5. ASSUME NEW k \in Nat PROVE p[k] = IF k = 0 THEN 1 ELSE b * p[k - 1]
  <2>1. CASE k # 0
    <3>1. k - 1 \in Nat /\ (k - 1) + 1 = k
      BY <2>1
    <3> QED
      BY <1>2, <1>4, <2>1, <3>1
  <2> QED
    BY <1>4, <2>1
<1>6. p = [k \in Nat |-> IF k = 0 THEN 1 ELSE b * p[k - 1]]
  BY <1>4, <1>5
<1> QED
  BY <1>6

LEMMA PowerValues ==
  ASSUME NEW b \in Nat, b > 0, NEW p,
         p = [k \in Nat |-> IF k = 0 THEN 1 ELSE b * p[k - 1]]
  PROVE  /\ p[0] = 1
         /\ \A k \in Nat : p[k] \in Nat /\ p[k] > 0 /\ p[k + 1] = b * p[k]
<1>1. \A k \in Nat : p[k] = IF k = 0 THEN 1 ELSE b * p[k - 1]
  OBVIOUS
<1>2. ASSUME NEW k \in Nat PROVE p[k + 1] = b * p[k]
  <2>1. k + 1 \in Nat /\ k + 1 # 0 /\ (k + 1) - 1 = k
    OBVIOUS
  <2> QED
    BY <1>1, <2>1
<1> DEFINE S == {k \in Nat : p[k] \in Nat /\ p[k] > 0}
<1>3. 0 \in S
  BY <1>1
<1>4. ASSUME NEW k \in Nat, k \in S PROVE k + 1 \in S
  <2>1. p[k] \in Nat /\ p[k] > 0 /\ p[k + 1] = b * p[k]
    BY <1>2, <1>4
  <2>2. b * p[k] \in Nat /\ b * p[k] > 0
    BY <2>1
  <2> QED
    BY <2>1, <2>2
<1>5. Nat \subseteq S
  <2> HIDE DEF S
  <2> QED
    BY <1>3, <1>4, SetInduction
<1> QED
  BY <1>1, <1>2, <1>5

LEMMA RadixPowers ==
  /\ RadixTo[0] = 1
  /\ \A k \in Nat : /\ RadixTo[k] \in Nat /\ RadixTo[k] > 0
                    /\ RadixTo[k + 1] = Radix * RadixTo[k]
<1>1. \E p : p = [k \in Nat |-> IF k = 0 THEN 1 ELSE Radix * p[k - 1]]
  BY RadixValue, PowerExists
<1>2. RadixTo = [k \in Nat |-> IF k = 0 THEN 1 ELSE Radix * RadixTo[k - 1]]
  BY <1>1 DEF RadixTo
<1> QED
  BY <1>2, RadixValue, PowerValues

LEMMA BasePowers ==
  /\ BaseTo[0] = 1
  /\ \A k \in Nat : /\ BaseTo[k] \in Nat /\ BaseTo[k] > 0
                    /\ BaseTo[k + 1] = Base * BaseTo[k]
<1>1. \E p : p = [k \in Nat |-> IF k = 0 THEN 1 ELSE Base * p[k - 1]]
  BY RadixValue, PowerExists
<1>2. BaseTo = [k \in Nat |-> IF k = 0 THEN 1 ELSE Base * BaseTo[k - 1]]
  BY <1>1 DEF BaseTo
<1> QED
  BY <1>2, RadixValue, PowerValues

-----------------------------------------------------------------------------
(* LeBytes and LeValue.                                                    *)

Bytes == Seq(0..Radix - 1)

(* The partial sums of LeValue.                                            *)
LeSum(bytes) ==
  LET sum[i \in 0..Len(bytes)] ==
        IF i = 0 THEN 0 ELSE sum[i - 1] + bytes[i] * RadixTo[i - 1]
  IN  sum

LEMMA LeSumEquations ==
  ASSUME NEW bytes \in Bytes
  PROVE  /\ LeValue(bytes) = LeSum(bytes)[Len(bytes)]
         /\ LeSum(bytes)[0] = 0
         /\ \A i \in 0..Len(bytes) - 1 :
              LeSum(bytes)[i + 1] = LeSum(bytes)[i] + bytes[i + 1] * RadixTo[i]
<1> DEFINE N == Len(bytes)
           byte == [n \in Nat |-> IF n + 1 \in 1..N THEN bytes[n + 1] ELSE 0]
           step == [n \in Nat |-> [x \in Nat |-> x + byte[n] * RadixTo[n]]]
           sum[i \in 0..Len(bytes)] ==
             IF i = 0 THEN 0 ELSE sum[i - 1] + bytes[i] * RadixTo[i - 1]
<1>1. /\ N \in Nat /\ \A i \in 1..N : bytes[i] \in Nat
      /\ \A i \in 1..N : byte[i - 1] = bytes[i]
  BY RadixValue DEF Bytes
<1>2. \A n \in Nat : byte[n] \in Nat /\ RadixTo[n] \in Nat
  BY <1>1, RadixPowers
<1> HIDE DEF byte
<1>3. \A n \in Nat : \A x \in Nat : x + byte[n] * RadixTo[n] \in Nat
  BY <1>2
<1>4. /\ step \in [Nat -> [Nat -> Nat]]
      /\ \A n \in Nat : \A x \in Nat : step[n][x] = x + byte[n] * RadixTo[n]
  BY <1>3
<1> HIDE DEF step
<1>5. PICK f : IteratesTo(N, f, Nat, 0, step)
  <2>1. 0 \in Nat /\ N \in Nat
    BY <1>1
  <2> HIDE DEF N
  <2> QED
    BY <1>4, <2>1, RecursiveSequence
<1>6. /\ f \in [0..N -> Nat] /\ f[0] = 0
      /\ \A n \in 0..N - 1 : f[n + 1] = step[n][f[n]]
  BY <1>5 DEF IteratesTo
<1>7. ASSUME NEW i \in 0..N
      PROVE  f[i] = IF i = 0 THEN 0 ELSE f[i - 1] + bytes[i] * RadixTo[i - 1]
  <2>1. CASE i # 0
    <3>1. i - 1 \in 0..N - 1 /\ i - 1 \in Nat /\ (i - 1) + 1 = i /\ i \in 1..N
      BY <1>1, <2>1
    <3>2. f[i - 1] \in Nat /\ f[i] = step[i - 1][f[i - 1]]
      BY SMTT(30), <1>6, <3>1
    <3>3. step[i - 1][f[i - 1]] = f[i - 1] + byte[i - 1] * RadixTo[i - 1]
      BY <1>4, <3>1, <3>2
    <3>4. byte[i - 1] = bytes[i]
      BY <1>1, <3>1
    <3> QED
      BY <2>1, <3>2, <3>3, <3>4
  <2> QED
    BY <1>6, <2>1
<1>8. f = [i \in 0..Len(bytes) |->
             IF i = 0 THEN 0 ELSE f[i - 1] + bytes[i] * RadixTo[i - 1]]
  BY <1>6, <1>7
<1>9. sum = [i \in 0..Len(bytes) |->
               IF i = 0 THEN 0 ELSE sum[i - 1] + bytes[i] * RadixTo[i - 1]]
  BY <1>8
<1>10. LeValue(bytes) = sum[Len(bytes)] /\ LeSum(bytes) = sum
  BY DEF LeValue, LeSum
<1> HIDE DEF sum
<1>11. sum[0] = 0
  BY <1>1, <1>9
<1>12. ASSUME NEW i \in 0..Len(bytes) - 1
       PROVE  sum[i + 1] = sum[i] + bytes[i + 1] * RadixTo[i]
  <2>1. i + 1 \in 0..Len(bytes) /\ i + 1 # 0 /\ (i + 1) - 1 = i
    BY <1>1
  <2> QED
    BY <1>9, <2>1
<1> QED
  BY <1>10, <1>11, <1>12

(* The least significant digits make a number below their power.           *)
LEMMA LeSumBelow ==
  ASSUME NEW bytes \in Bytes, NEW i \in 0..Len(bytes)
  PROVE  LeSum(bytes)[i] \in 0..RadixTo[i] - 1
<1> DEFINE S == {n \in Nat : n \in 0..Len(bytes) =>
                               LeSum(bytes)[n] \in 0..RadixTo[n] - 1}
<1>1. Len(bytes) \in Nat /\ \A k \in 1..Len(bytes) : bytes[k] \in 0..Radix - 1
  BY RadixValue DEF Bytes
<1>2. 0 \in S
  <2>1. LeSum(bytes)[0] = 0 /\ RadixTo[0] = 1
    BY LeSumEquations, RadixPowers
  <2> QED
    BY <2>1
<1>3. ASSUME NEW n \in Nat, n \in S PROVE n + 1 \in S
  <2>1. CASE n + 1 \in 0..Len(bytes)
    <3>1. n \in 0..Len(bytes) - 1 /\ n \in 0..Len(bytes) /\ n + 1 \in 1..Len(bytes)
      BY <1>1, <2>1
    <3>2. LeSum(bytes)[n] \in 0..RadixTo[n] - 1
      BY <1>3, <3>1
    <3>3. bytes[n + 1] \in 0..Radix - 1
      BY <1>1, <3>1
    <3>4. RadixTo[n] \in Nat /\ Radix \in Nat /\ RadixTo[n + 1] = Radix * RadixTo[n]
      BY RadixPowers, RadixValue
    <3>5. LeSum(bytes)[n + 1] = LeSum(bytes)[n] + bytes[n + 1] * RadixTo[n]
      BY <3>1, LeSumEquations
    <3>6. LeSum(bytes)[n + 1] \in 0..RadixTo[n + 1] - 1
      BY <3>2, <3>3, <3>4, <3>5, DigitInFront
    <3> QED
      BY <3>6
  <2> QED
    BY <2>1
<1>4. Nat \subseteq S
  <2> HIDE DEF S
  <2> QED
    BY <1>2, <1>3, SetInduction
<1> QED
  BY <1>1, <1>4

(* Dividing by Radix k times over is dividing by its k-th power.           *)
LEMMA HigherDigits ==
  ASSUME NEW n \in Nat, NEW k \in Nat
  PROVE  n \div RadixTo[k + 1] = (n \div RadixTo[k]) \div Radix
<1> DEFINE p == RadixTo[k]
           h == n \div p
<1>1. p \in Nat /\ p > 0 /\ RadixTo[k + 1] = Radix * p /\ Radix * p > 0
  BY RadixPowers, RadixValue
<1>2. n = h * p + (n % p) /\ n % p \in 0..p - 1 /\ h \in Int
  <2> HIDE DEF p
  <2> QED
    BY <1>1, DivMod
<1>3. h = (h \div Radix) * Radix + (h % Radix) /\ h % Radix \in 0..Radix - 1
      /\ h \div Radix \in Int
  BY <1>2, RadixValue, DivMod
<1> DEFINE g == h \div Radix
           d == h % Radix
           s == n % p
<1>4. n = s + (g * Radix + d) * p
  BY <1>1, <1>2, <1>3
<1> HIDE DEF p, h, g, d, s
<1>5. s \in 0..p - 1 /\ d \in 0..Radix - 1 /\ g \in Int /\ p \in Nat /\ Radix \in Nat
  BY <1>1, <1>2, <1>3, RadixValue DEF s, d, g
<1>6. n = (s + d * p) + g * (Radix * p)
  BY <1>4, <1>5, Regroup
<1>7. s + d * p \in 0..Radix * p - 1
  BY <1>5, DigitInFront
<1>8. Radix * p \in Nat /\ n = g * (Radix * p) + (s + d * p)
  BY <1>5, <1>6, <1>7
<1>9. n \div (Radix * p) = g
  BY <1>1, <1>5, <1>7, <1>8, DivModUnique
<1> QED
  BY <1>1, <1>9 DEF g, h, p

LEMMA LeBytesTyped ==
  ASSUME NEW n \in Nat, NEW w \in Nat
  PROVE  /\ LeBytes(n, w) \in Bytes /\ Len(LeBytes(n, w)) = w
         /\ \A i \in 1..w : LeBytes(n, w)[i] = (n \div RadixTo[i - 1]) % Radix
<1>1. ASSUME NEW i \in 1..w
      PROVE  (n \div RadixTo[i - 1]) % Radix \in 0..Radix - 1
  <2>1. RadixTo[i - 1] \in Nat /\ RadixTo[i - 1] > 0
    BY RadixPowers
  <2>2. n \div RadixTo[i - 1] \in Int
    BY <2>1, DivMod
  <2> QED
    BY <2>2, RadixValue, DivMod
<1> QED
  BY <1>1 DEF LeBytes, Bytes

(* Reading what was written.                                               *)
LEMMA LeValueOfLeBytes ==
  ASSUME NEW w \in Nat, NEW n \in Nat, n < RadixTo[w]
  PROVE  LeValue(LeBytes(n, w)) = n
<1> DEFINE bytes == LeBytes(n, w)
           S == {k \in Nat : k \in 0..w =>
                   n = LeSum(bytes)[k] + (n \div RadixTo[k]) * RadixTo[k]}
<1>1. /\ bytes \in Bytes /\ Len(bytes) = w
      /\ \A i \in 1..w : bytes[i] = (n \div RadixTo[i - 1]) % Radix
  BY LeBytesTyped
<1> HIDE DEF bytes
<1>2. 0 \in S
  <2>1. LeSum(bytes)[0] = 0 /\ RadixTo[0] = 1
    BY <1>1, LeSumEquations, RadixPowers
  <2>2. n = 0 + (n \div 1) * 1
    OBVIOUS
  <2> QED
    BY <2>1, <2>2
<1>3. ASSUME NEW k \in Nat, k \in S PROVE k + 1 \in S
  <2>1. SUFFICES ASSUME k + 1 \in 0..w
                 PROVE  n = LeSum(bytes)[k + 1]
                              + (n \div RadixTo[k + 1]) * RadixTo[k + 1]
    OBVIOUS
  <2> DEFINE p == RadixTo[k]
             h == n \div p
             s == LeSum(bytes)[k]
  <2>2. k \in 0..Len(bytes) - 1 /\ k \in 0..w /\ k + 1 \in 1..w /\ (k + 1) - 1 = k
    BY <1>1, <2>1
  <2>3. p \in Nat /\ p > 0 /\ RadixTo[k + 1] = Radix * p /\ Radix \in Nat /\ Radix > 0
    BY RadixPowers, RadixValue
  <2>4. h \in Int
    BY <2>3, DivMod
  <2>5. bytes[k + 1] = h % Radix /\ n \div RadixTo[k + 1] = h \div Radix
    BY <1>1, <2>2, HigherDigits
  <2>6. LeSum(bytes)[k + 1] = s + (h % Radix) * p
    BY <1>1, <2>2, <2>5, LeSumEquations
  <2>7. n = s + h * p
    BY <1>3, <2>2
  <2>8. s \in Int
    BY <1>1, <2>2, LeSumBelow
  <2> HIDE DEF h, p, s
  <2>9. /\ h = (h \div Radix) * Radix + (h % Radix)
        /\ h \div Radix \in Int /\ h % Radix \in Int
    BY <2>3, <2>4, DivMod
  <2> DEFINE g == h \div Radix
             d == h % Radix
  <2>10. g \in Int /\ d \in Int /\ n = s + (g * Radix + d) * p
    BY <2>7, <2>9
  <2>11. n = (s + d * p) + g * (Radix * p)
    BY <2>3, <2>8, <2>10, Regroup
  <2> QED
    BY <2>3, <2>5, <2>6, <2>11
<1>4. Nat \subseteq S
  <2> HIDE DEF S
  <2> QED
    BY <1>2, <1>3, SetInduction
<1>5. n = LeSum(bytes)[w] + (n \div RadixTo[w]) * RadixTo[w]
  BY <1>4
<1>6. n \div RadixTo[w] = 0
  <2>1. RadixTo[w] \in Nat /\ RadixTo[w] > 0 /\ n \in 0..RadixTo[w] - 1
    BY RadixPowers
  <2>2. n = 0 * RadixTo[w] + n
    BY <2>1
  <2> QED
    BY <2>1, <2>2, DivModUnique
<1>7. LeSum(bytes)[w] \in Int
  <2>1. w \in 0..Len(bytes)
    BY <1>1
  <2> QED
    BY <1>1, <2>1, LeSumBelow
<1>8. LeSum(bytes)[w] = n
  BY <1>5, <1>6, <1>7, RadixPowers
<1> QED
  BY <1>1, <1>8, LeSumEquations DEF bytes

(* Writing what was read.                                                  *)
LEMMA LeBytesOfLeValue ==
  ASSUME NEW bytes \in Bytes
  PROVE  /\ LeValue(bytes) \in 0..RadixTo[Len(bytes)] - 1
         /\ LeBytes(LeValue(bytes), Len(bytes)) = bytes
<1> DEFINE w == Len(bytes)
           v == LeValue(bytes)
           Splits(k) == \E h \in Nat : v = LeSum(bytes)[k] + h * RadixTo[k]
           S == {j \in Nat : j \in 0..w => Splits(w - j)}
<1>1. w \in Nat /\ \A k \in 1..w : bytes[k] \in 0..Radix - 1
  BY RadixValue DEF Bytes
<1>2. v = LeSum(bytes)[w] /\ v \in 0..RadixTo[w] - 1
  <2>1. w \in 0..w
    BY <1>1
  <2> QED
    BY <2>1, LeSumEquations, LeSumBelow
<1>3. \A k \in 0..w : /\ LeSum(bytes)[k] \in Int /\ LeSum(bytes)[k] \in 0..RadixTo[k] - 1
                      /\ RadixTo[k] \in Nat /\ RadixTo[k] > 0
  <2>1. ASSUME NEW k \in 0..w
        PROVE  /\ LeSum(bytes)[k] \in 0..RadixTo[k] - 1
               /\ RadixTo[k] \in Nat /\ RadixTo[k] > 0
    BY <1>1, LeSumBelow, RadixPowers
  <2> QED
    BY <2>1
<1> HIDE DEF v
<1>4. ASSUME NEW k \in 1..w, NEW h \in Nat, v = LeSum(bytes)[k] + h * RadixTo[k]
      PROVE  /\ h * Radix + bytes[k] \in Nat
             /\ v = LeSum(bytes)[k - 1] + (h * Radix + bytes[k]) * RadixTo[k - 1]
  <2> DEFINE s == LeSum(bytes)[k - 1]
             p == RadixTo[k - 1]
             d == bytes[k]
  <2>1. k - 1 \in 0..w - 1 /\ k - 1 \in 0..w /\ k - 1 \in Nat /\ (k - 1) + 1 = k
    BY <1>1
  <2>2. LeSum(bytes)[k] = s + d * p
    BY <2>1, LeSumEquations
  <2>3. RadixTo[k] = Radix * p
    BY <2>1, RadixPowers
  <2>4. s \in Int /\ p \in Int /\ d \in Nat /\ Radix \in Nat
    BY <1>1, <1>3, <2>1, RadixValue
  <2> HIDE DEF s, p, d
  <2>5. v = (s + d * p) + h * (Radix * p)
    BY <1>4, <2>2, <2>3
  <2>6. v = s + (h * Radix + d) * p
    BY <2>4, <2>5, Regroup
  <2> QED
    BY <2>4, <2>6 DEF s, p, d
<1>5. 0 \in S
  <2>1. v = LeSum(bytes)[w - 0] + 0 * RadixTo[w - 0]
    BY <1>1, <1>2, <1>3
  <2> QED
    BY <2>1
<1>6. ASSUME NEW j \in Nat, j \in S PROVE j + 1 \in S
  <2>1. SUFFICES ASSUME j + 1 \in 0..w PROVE Splits(w - (j + 1))
    OBVIOUS
  <2>2. w - j \in 1..w /\ j \in 0..w /\ (w - j) - 1 = w - (j + 1)
    BY <1>1, <2>1
  <2>3. PICK h \in Nat : v = LeSum(bytes)[w - j] + h * RadixTo[w - j]
    BY <1>6, <2>2
  <2> QED
    BY <1>4, <2>2, <2>3
<1>7. Nat \subseteq S
  <2> HIDE DEF S
  <2> QED
    BY <1>5, <1>6, SetInduction
<1>8. ASSUME NEW k \in 1..w PROVE (v \div RadixTo[k - 1]) % Radix = bytes[k]
  <2>1. w - k \in Nat /\ w - k \in 0..w /\ w - (w - k) = k
    BY <1>1
  <2>2. PICK h \in Nat : v = LeSum(bytes)[k] + h * RadixTo[k]
    BY <1>7, <2>1
  <2> DEFINE s == LeSum(bytes)[k - 1]
             p == RadixTo[k - 1]
             q == h * Radix + bytes[k]
  <2>3. q \in Nat /\ v = s + q * p
    BY <1>4, <2>2
  <2>4. k - 1 \in 0..w
    BY <1>1
  <2>5. s \in 0..p - 1 /\ p \in Nat /\ p > 0
    BY <1>3, <2>4
  <2>6. v \div p = q
    <3> HIDE DEF s, p, q
    <3> QED
      BY <2>3, <2>5, DivModUnique
  <2>7. q % Radix = bytes[k]
    <3>1. bytes[k] \in 0..Radix - 1 /\ Radix \in Nat /\ Radix > 0 /\ h \in Int
      BY <1>1, RadixValue
    <3> QED
      BY <3>1, DivModUnique
  <2> QED
    BY <2>6, <2>7
<1>9. LeBytes(v, w) = bytes
  <2>1. /\ LeBytes(v, w) \in Bytes /\ Len(LeBytes(v, w)) = w
        /\ \A i \in 1..w : LeBytes(v, w)[i] = (v \div RadixTo[i - 1]) % Radix
    <3>1. v \in Nat
      BY <1>2, <1>3
    <3> QED
      BY <1>1, <3>1, LeBytesTyped
  <2> QED
    BY <1>8, <2>1 DEF Bytes
<1> QED
  BY <1>2, <1>9 DEF v

-----------------------------------------------------------------------------
(* WriteVarInt.                                                            *)

LEMMA WordValue ==
  /\ MaxU64 \in Nat /\ MaxU64 + 1 = RadixTo[WordBytes] /\ MaxU64 >= 3
  /\ \E q \in Nat : MaxU64 + 1 = q * Base
<1>1. WordBytes - 1 \in Nat /\ (WordBytes - 1) + 1 = WordBytes
  BY RadixValue
<1> DEFINE p == RadixTo[WordBytes - 1]
<1>2. p \in Nat /\ p > 0 /\ RadixTo[WordBytes] = Radix * p
  BY <1>1, RadixPowers
<1> HIDE DEF p
<1>3. Radix * p = (2 * p) * Base /\ Radix * p \in Nat /\ Radix * p >= 4 /\ 2 * p \in Nat
  BY <1>2, RadixValue
<1> QED
  BY <1>2, <1>3 DEF MaxU64

LEMMA SquareOfBase ==
  ASSUME NEW j \in Nat PROVE BaseTo[2 * j] >= RadixTo[j]
<1> DEFINE S == {n \in Nat : BaseTo[2 * n] >= RadixTo[n]}
<1>1. 0 \in S
  <2>1. 2 * 0 = 0
    OBVIOUS
  <2> QED
    BY <2>1, BasePowers, RadixPowers
<1>2. ASSUME NEW n \in Nat, n \in S PROVE n + 1 \in S
  <2> DEFINE b == BaseTo[2 * n]
             r == RadixTo[n]
  <2>1. 2 * n \in Nat /\ 2 * n + 1 \in Nat /\ (2 * n + 1) + 1 = 2 * (n + 1)
    OBVIOUS
  <2>2. b \in Nat /\ BaseTo[2 * n + 1] = Base * b
    BY <2>1, BasePowers
  <2>3. BaseTo[2 * (n + 1)] = Base * (Base * b)
    BY <2>1, <2>2, BasePowers
  <2>4. r \in Nat /\ RadixTo[n + 1] = Radix * r /\ r <= b
    BY <1>2, RadixPowers
  <2> HIDE DEF b, r
  <2>5. Base * b \in Nat /\ 2 * (Base * b) <= Base * (Base * b)
    BY <2>2, RadixValue, ProductBelow
  <2>6. Radix * r <= Radix * b /\ Radix * b = 2 * (Base * b) /\ Radix * r \in Nat
    BY <2>2, <2>4, RadixValue, ProductBelow
  <2>7. BaseTo[2 * (n + 1)] >= RadixTo[n + 1]
    <3>1. Base * (Base * b) \in Nat /\ Radix * b \in Nat
      BY <2>2, <2>5, RadixValue
    <3> QED
      BY <2>3, <2>4, <2>5, <2>6, <3>1
  <2> QED
    BY <2>7
<1>3. Nat \subseteq S
  <2> HIDE DEF S
  <2> QED
    BY <1>1, <1>2, SetInduction
<1> QED
  BY <1>3

LEMMA TmpSizeValue ==
  /\ TmpSize \in Nat /\ TmpSize >= 1
  /\ BaseTo[TmpSize] \in Nat /\ BaseTo[TmpSize] > MaxU64
<1> DEFINE T == {k \in Nat : BaseTo[k] > MaxU64}
           w == 2 * WordBytes
<1>1. w \in Nat /\ BaseTo[w] \in Nat /\ BaseTo[w] >= RadixTo[WordBytes]
  BY RadixValue, SquareOfBase, BasePowers
<1>2. w \in T
  BY <1>1, WordValue
<1>3. PICK k \in T : \A m \in T : k <= m
  <2>1. T \subseteq Nat /\ T # {}
    BY <1>2
  <2> HIDE DEF T
  <2> QED
    BY <2>1, LeastOfSet
<1>4. k # 0
  BY BasePowers, WordValue
<1>5. k - 1 \in Nat /\ k - 1 \notin T
  BY <1>3, <1>4
<1>6. BaseTo[k - 1] \in Nat /\ BaseTo[k - 1] <= MaxU64
  BY <1>5, BasePowers, WordValue
<1>7. k \in 1..9 * WordBytes
  BY <1>2, <1>3, <1>4, RadixValue
<1>8. /\ TmpSize \in 1..9 * WordBytes
      /\ BaseTo[TmpSize] > MaxU64 /\ BaseTo[TmpSize - 1] <= MaxU64
  BY <1>3, <1>6, <1>7 DEF TmpSize
<1> QED
  BY <1>8, BasePowers, RadixValue

(* What is left of n after each turn of write_varint_u64's loop.           *)
Rest(n) ==
  LET rest[k \in 0..TmpSize] ==
        IF k = 0 THEN n ELSE rest[k - 1] \div Base - 1
  IN  rest

LEMMA RestEquations ==
  ASSUME NEW n \in Int
  PROVE  /\ Rest(n) \in [0..TmpSize -> Int] /\ Rest(n)[0] = n
         /\ \A k \in 0..TmpSize - 1 : Rest(n)[k + 1] = (Rest(n)[k] \div Base) - 1
<1> DEFINE step == [k \in Nat |-> [x \in Int |-> (x \div Base) - 1]]
           rest[k \in 0..TmpSize] ==
             IF k = 0 THEN n ELSE rest[k - 1] \div Base - 1
<1>1. /\ step \in [Nat -> [Int -> Int]]
      /\ \A k \in Nat : \A x \in Int : step[k][x] = (x \div Base) - 1
  BY RadixValue
<1> HIDE DEF step
<1>2. PICK f : IteratesTo(TmpSize, f, Int, n, step)
  BY <1>1, TmpSizeValue, RecursiveSequence
<1>3. /\ f \in [0..TmpSize -> Int] /\ f[0] = n
      /\ \A k \in 0..TmpSize - 1 : f[k + 1] = step[k][f[k]]
  BY <1>2 DEF IteratesTo
<1>4. ASSUME NEW k \in 0..TmpSize
      PROVE  f[k] = IF k = 0 THEN n ELSE f[k - 1] \div Base - 1
  <2>1. CASE k # 0
    <3>1. k - 1 \in 0..TmpSize - 1 /\ k - 1 \in Nat /\ (k - 1) + 1 = k
      BY <2>1, TmpSizeValue
    <3>2. f[k - 1] \in Int /\ f[k] = step[k - 1][f[k - 1]]
      BY <1>3, <3>1, TmpSizeValue
    <3> QED
      BY <1>1, <2>1, <3>1, <3>2
  <2> QED
    BY <1>3, <2>1
<1>5. f = [k \in 0..TmpSize |-> IF k = 0 THEN n ELSE f[k - 1] \div Base - 1]
  BY <1>3, <1>4
<1>6. rest = [k \in 0..TmpSize |-> IF k = 0 THEN n ELSE rest[k - 1] \div Base - 1]
  BY <1>5
<1>7. Rest(n) = rest
  BY DEF Rest
<1> HIDE DEF rest
<1>8. rest[0] = n
  BY <1>6, TmpSizeValue
<1>9. ASSUME NEW k \in 0..TmpSize - 1 PROVE rest[k + 1] = (rest[k] \div Base) - 1
  <2>1. k + 1 \in 0..TmpSize /\ k + 1 # 0 /\ (k + 1) - 1 = k
    BY TmpSizeValue
  <2> QED
    BY <1>6, <2>1
<1> DEFINE S == {k \in Nat : k \in 0..TmpSize => rest[k] \in Int}
<1>10. 0 \in S
  BY <1>8
<1>11. ASSUME NEW k \in Nat, k \in S PROVE k + 1 \in S
  <2>1. CASE k + 1 \in 0..TmpSize
    <3>1. k \in 0..TmpSize - 1 /\ rest[k] \in Int
      BY <1>11, <2>1, TmpSizeValue
    <3> QED
      BY <1>9, <3>1, RadixValue
  <2> QED
    BY <2>1
<1>12. Nat \subseteq S
  <2> HIDE DEF S
  <2> QED
    BY <1>10, <1>11, SetInduction
<1>13. rest \in [0..TmpSize -> Int]
  <2>1. rest = [k \in 0..TmpSize |-> rest[k]]
    BY <1>6
  <2>2. \A k \in 0..TmpSize : rest[k] \in Int
    BY <1>12, TmpSizeValue
  <2> QED
    BY <2>1, <2>2
<1> QED
  BY <1>7, <1>8, <1>9, <1>13

LEMMA RestFacts ==
  ASSUME NEW n \in 0..MaxU64
  PROVE  /\ TmpSize \in Nat /\ Base \in Nat /\ Base >= 2 /\ n \in Int /\ n \in Nat
         /\ n >= 0 /\ n <= MaxU64 /\ MaxU64 \in Nat
         /\ Rest(n)[0] = n /\ \A j \in 0..TmpSize : Rest(n)[j] \in Int
         /\ \A j \in 0..TmpSize - 1 : Rest(n)[j + 1] = (Rest(n)[j] \div Base) - 1
<1>1. n \in Nat /\ n <= MaxU64 /\ n \in Int /\ MaxU64 \in Nat
  BY WordValue
<1>2. /\ Rest(n) \in [0..TmpSize -> Int] /\ Rest(n)[0] = n
      /\ \A k \in 0..TmpSize - 1 : Rest(n)[k + 1] = (Rest(n)[k] \div Base) - 1
  BY <1>1, RestEquations
<1>3. \A j \in 0..TmpSize : Rest(n)[j] \in Int
  BY <1>2
<1> QED
  BY <1>1, <1>2, <1>3, TmpSizeValue, RadixValue

(* A turn that leaves nothing more than a digit is the last.               *)
LEMMA TurnShrinks ==
  ASSUME NEW x \in Int
  PROVE  /\ x < Base => (x \div Base) - 1 < 0
         /\ x >= Base => (x \div Base) - 1 >= 0
         /\ x >= 0 => (x \div Base) - 1 < x
         /\ ((x \div Base) - 1) * Base <= x
<1>1. x = (x \div Base) * Base + (x % Base) /\ x % Base \in 0..Base - 1
      /\ x \div Base \in Int
  BY RadixValue, DivMod
<1> DEFINE q == x \div Base
           r == x % Base
<1>2. q \in Int /\ r \in 0..Base - 1 /\ x = q * Base + r /\ Base \in Nat /\ Base >= 2
  BY <1>1, RadixValue
<1> HIDE DEF q, r
<1>3. q * Base \in Int /\ (q - 1) * Base = q * Base - Base
  BY <1>2
<1>4. x < Base => q - 1 < 0
  BY <1>2
<1>5. x >= Base => q - 1 >= 0
  BY <1>2
<1>6. x >= 0 => q - 1 < x
  <2>1. q >= 0 => q <= q * Base
    BY <1>2
  <2> QED
    BY <1>2, <1>3, <2>1
<1>7. (q - 1) * Base <= x
  BY <1>2, <1>3
<1> QED
  BY <1>4, <1>5, <1>6, <1>7 DEF q

(* Once less than a full digit is left, all later values are negative.     *)
LEMMA RestStaysNegative ==
  ASSUME NEW n \in Int, NEW k \in 0..TmpSize, Rest(n)[k] < Base,
         NEW m \in 0..TmpSize, k < m
  PROVE  Rest(n)[m] < 0
<1> DEFINE S == {j \in Nat : k + 1 + j \in 0..TmpSize => Rest(n)[k + 1 + j] < 0}
<1>1. /\ TmpSize \in Nat /\ Base \in Nat /\ Base >= 2
      /\ \A j \in 0..TmpSize : Rest(n)[j] \in Int
      /\ \A j \in 0..TmpSize - 1 : Rest(n)[j + 1] = (Rest(n)[j] \div Base) - 1
  BY TmpSizeValue, RestEquations, RadixValue
<1>2. 0 \in S
  <2>1. CASE k + 1 \in 0..TmpSize
    <3>1. k \in 0..TmpSize - 1 /\ k + 1 + 0 = k + 1
      BY <1>1, <2>1
    <3> QED
      BY <1>1, <3>1, TurnShrinks
  <2>2. CASE k + 1 \notin 0..TmpSize
    BY <2>2
  <2> QED
    BY <2>1, <2>2
<1>3. ASSUME NEW j \in Nat, j \in S PROVE j + 1 \in S
  <2>1. CASE k + 1 + (j + 1) \in 0..TmpSize
    <3>1. /\ k + 1 + j \in 0..TmpSize - 1 /\ k + 1 + j \in 0..TmpSize
          /\ k + 1 + (j + 1) = (k + 1 + j) + 1
      BY <1>1, <2>1
    <3>2. Rest(n)[k + 1 + j] < 0 /\ Rest(n)[k + 1 + j] \in Int
      BY <1>1, <1>3, <3>1
    <3>3. Rest(n)[k + 1 + j] < Base
      BY <1>1, <3>2
    <3>4. (Rest(n)[k + 1 + j] \div Base) - 1 < 0
      BY <3>2, <3>3, TurnShrinks
    <3>5. Rest(n)[k + 1 + (j + 1)] < 0
      BY <1>1, <3>1, <3>4
    <3> QED
      BY <3>5
  <2>2. CASE k + 1 + (j + 1) \notin 0..TmpSize
    BY <2>2
  <2> QED
    BY <2>1, <2>2
<1>4. Nat \subseteq S
  <2> HIDE DEF S
  <2> QED
    BY <1>2, <1>3, SetInduction
<1>5. m - (k + 1) \in Nat /\ k + 1 + (m - (k + 1)) = m
  BY <1>1
<1>6. m - (k + 1) \in S
  BY <1>4, <1>5
<1> QED
  BY <1>5, <1>6

(* Within the size of tmp nothing is left of a u64.                        *)
LEMMA RestRunsOut ==
  ASSUME NEW n \in 0..MaxU64
  PROVE  Rest(n)[TmpSize] < 0
<1> DEFINE S == {k \in Nat : k \in 0..TmpSize => Rest(n)[k] * BaseTo[k] <= n}
<1>1. /\ TmpSize \in Nat /\ Base \in Nat /\ Base >= 2 /\ n \in Int /\ n \in Nat
      /\ n <= MaxU64 /\ MaxU64 \in Nat
      /\ Rest(n)[0] = n /\ \A j \in 0..TmpSize : Rest(n)[j] \in Int
      /\ \A j \in 0..TmpSize - 1 : Rest(n)[j + 1] = (Rest(n)[j] \div Base) - 1
  BY RestFacts
<1>2. 0 \in S
  BY <1>1, BasePowers
<1>3. ASSUME NEW k \in Nat, k \in S PROVE k + 1 \in S
  <2>1. CASE k + 1 \in 0..TmpSize
    <3>1. k \in 0..TmpSize - 1 /\ k \in 0..TmpSize
      BY <1>1, <2>1
    <3> DEFINE x == Rest(n)[k]
               y == Rest(n)[k + 1]
               p == BaseTo[k]
    <3>2. x \in Int /\ y \in Int /\ y = (x \div Base) - 1 /\ x * p <= n
      BY <1>1, <1>3, <2>1, <3>1
    <3>3. p \in Nat /\ p > 0 /\ BaseTo[k + 1] = Base * p
      BY BasePowers
    <3> HIDE DEF x, y, p
    <3>4. y * Base <= x
      BY <3>2, TurnShrinks
    <3>5. y * (Base * p) = (y * Base) * p /\ y * Base \in Int
      BY <1>1, <3>2, <3>3
    <3>6. (y * Base) * p <= x * p
      BY <3>2, <3>3, <3>4, <3>5
    <3>7. x * p \in Int /\ (y * Base) * p \in Int
      BY <3>2, <3>3, <3>5
    <3>8. y * (Base * p) <= n
      BY <1>1, <3>2, <3>5, <3>6, <3>7
    <3>9. Rest(n)[k + 1] * BaseTo[k + 1] <= n
      BY <3>3, <3>8 DEF y
    <3> QED
      BY <3>9
  <2>2. CASE k + 1 \notin 0..TmpSize
    BY <2>2
  <2> QED
    BY <2>1, <2>2
<1>4. Nat \subseteq S
  <2> HIDE DEF S
  <2> QED
    BY <1>2, <1>3, SetInduction
<1> DEFINE x == Rest(n)[TmpSize - 1]
           y == Rest(n)[TmpSize]
           p == BaseTo[TmpSize - 1]
<1>5. /\ x \in Int /\ x * p <= n /\ p \in Nat /\ p > 0
      /\ y \in Int /\ y = (x \div Base) - 1 /\ Base * p > n
  <2>1. /\ TmpSize - 1 \in 0..TmpSize - 1 /\ TmpSize - 1 \in Nat
        /\ TmpSize - 1 \in 0..TmpSize /\ (TmpSize - 1) + 1 = TmpSize
        /\ TmpSize \in 0..TmpSize
    BY <1>1, TmpSizeValue
  <2>2. p \in Nat /\ p > 0 /\ BaseTo[(TmpSize - 1) + 1] = Base * p
    BY <2>1, BasePowers
  <2>3. Base * p > n
    BY <1>1, <2>1, <2>2, TmpSizeValue
  <2>4. x * p <= n
    BY <1>4, <2>1
  <2> QED
    BY <1>1, <2>1, <2>2, <2>3, <2>4
<1> HIDE DEF x, y, p
<1>6. (y + 1) * Base <= x
  BY <1>1, <1>5
<1>7. y >= 0 => FALSE
  <2> SUFFICES ASSUME y >= 0 PROVE FALSE
    OBVIOUS
  <2>1. x >= Base
    BY <1>1, <1>5, <1>6
  <2>2. x * p >= Base * p
    BY <1>1, <1>5, <2>1
  <2>3. x * p \in Int /\ Base * p \in Int
    BY <1>1, <1>5
  <2> QED
    BY <1>1, <1>5, <2>2, <2>3
<1> QED
  BY <1>5, <1>7 DEF y

(* The turn on which the loop ends.                                        *)
IsFinal(n, k) == k \in 0..TmpSize /\ Rest(n)[k] >= 0 /\ Rest(n)[k] < Base

FinalTurn(n) == CHOOSE k \in 0..TmpSize : Rest(n)[k] >= 0 /\ Rest(n)[k] < Base

LEMMA FinalTurnExists ==
  ASSUME NEW n \in 0..MaxU64
  PROVE  /\ IsFinal(n, FinalTurn(n))
         /\ \A k : IsFinal(n, k) => k = FinalTurn(n)
<1>1. /\ TmpSize \in Nat /\ n \in Int /\ n >= 0 /\ Base \in Nat
      /\ Rest(n)[0] = n /\ \A j \in 0..TmpSize : Rest(n)[j] \in Int
      /\ \A j \in 0..TmpSize - 1 : Rest(n)[j + 1] = (Rest(n)[j] \div Base) - 1
  BY RestFacts
<1> DEFINE T == {k \in 0..TmpSize : Rest(n)[k] < Base}
<1>2. PICK k \in T : \A m \in T : k <= m
  <2>1. T \subseteq Nat /\ T # {}
    BY <1>1, RestRunsOut
  <2> HIDE DEF T
  <2> QED
    BY <2>1, LeastOfSet
<1>3. Rest(n)[k] >= 0
  <2>1. CASE k = 0
    BY <1>1, <2>1
  <2>2. CASE k # 0
    <3>1. k - 1 \in 0..TmpSize - 1 /\ k - 1 \in 0..TmpSize /\ (k - 1) + 1 = k
      BY <1>1, <2>2
    <3>2. k - 1 \notin T
      BY <1>2, <3>1
    <3>3. Rest(n)[k - 1] \in Int /\ Rest(n)[k - 1] >= Base
      BY <1>1, <3>1, <3>2
    <3>4. Rest(n)[k] = (Rest(n)[k - 1] \div Base) - 1
      BY <1>1, <3>1
    <3> QED
      BY <3>3, <3>4, TurnShrinks
  <2> QED
    BY <2>1, <2>2
<1>4. IsFinal(n, k)
  BY <1>2, <1>3 DEF IsFinal
<1>5. IsFinal(n, FinalTurn(n))
  BY <1>4 DEF IsFinal, FinalTurn
<1>6. ASSUME NEW i, NEW j, IsFinal(n, i), IsFinal(n, j), i < j PROVE FALSE
  <2>1. /\ i \in 0..TmpSize /\ j \in 0..TmpSize
        /\ Rest(n)[i] < Base /\ Rest(n)[j] >= 0
    BY <1>6 DEF IsFinal
  <2>2. Rest(n)[j] < 0
    BY <1>1, <1>6, <2>1, RestStaysNegative
  <2> QED
    BY <1>1, <2>1, <2>2
<1>7. ASSUME NEW i, IsFinal(n, i) PROVE i = FinalTurn(n)
  <2>1. i \in Nat /\ FinalTurn(n) \in Nat
    BY <1>1, <1>5, <1>7 DEF IsFinal
  <2>2. ~ (i < FinalTurn(n)) /\ ~ (FinalTurn(n) < i)
    BY <1>5, <1>6, <1>7
  <2> QED
    BY <2>1, <2>2
<1> QED
  BY <1>5, <1>7

LEMMA RestBounds ==
  ASSUME NEW n \in 0..MaxU64, NEW k \in 0..FinalTurn(n)
  PROVE  /\ k \in 0..TmpSize /\ Rest(n)[k] \in 0..n
         /\ k > 0 => Rest(n)[k] < n /\ Rest(n)[k - 1] \div Base = Rest(n)[k] + 1
         /\ k < FinalTurn(n) => Rest(n)[k] >= Base
<1> DEFINE L == FinalTurn(n)
           S == {j \in Nat : j \in 0..L => Rest(n)[j] <= n /\ (j > 0 => Rest(n)[j] < n)}
<1>1. /\ TmpSize \in Nat /\ Base \in Nat /\ Base >= 2 /\ n \in Int /\ n >= 0
      /\ Rest(n)[0] = n /\ \A j \in 0..TmpSize : Rest(n)[j] \in Int
      /\ \A j \in 0..TmpSize - 1 : Rest(n)[j + 1] = (Rest(n)[j] \div Base) - 1
  BY RestFacts
<1>2. L \in 0..TmpSize /\ L \in Nat /\ Rest(n)[L] >= 0 /\ Rest(n)[L] < Base
  BY <1>1, FinalTurnExists DEF IsFinal
<1> HIDE DEF L
<1>3. \A j \in 0..L : j \in 0..TmpSize
  BY <1>1, <1>2
<1>4. ASSUME NEW j \in 0..L, j < L PROVE Rest(n)[j] >= Base
  <2>1. Rest(n)[j] \in Int /\ j \in 0..TmpSize
    BY <1>1, <1>3
  <2>2. ~ (Rest(n)[j] < Base)
    BY <1>2, <1>4, <2>1, <1>1, RestStaysNegative
  <2> QED
    BY <1>1, <2>1, <2>2
<1>5. 0 \in S
  BY <1>1
<1>6. ASSUME NEW j \in Nat, j \in S PROVE j + 1 \in S
  <2>1. CASE j + 1 \in 0..L
    <3>1. j \in 0..L /\ j < L /\ j \in 0..TmpSize - 1 /\ j + 1 \in 0..TmpSize
      BY <1>2, <2>1, <1>1
    <3>2. /\ Rest(n)[j] \in Int /\ Rest(n)[j] >= Base /\ Rest(n)[j] <= n
          /\ Rest(n)[j + 1] = (Rest(n)[j] \div Base) - 1 /\ Rest(n)[j + 1] \in Int
      BY <1>1, <1>4, <1>6, <3>1
    <3>3. Rest(n)[j + 1] < Rest(n)[j]
      BY <1>1, <3>2, TurnShrinks
    <3>4. Rest(n)[j + 1] < n
      BY <1>1, <3>2, <3>3
    <3> QED
      BY <1>1, <3>2, <3>4
  <2>2. CASE j + 1 \notin 0..L
    BY <2>2
  <2> QED
    BY <2>1, <2>2
<1>7. Nat \subseteq S
  <2> HIDE DEF S
  <2> QED
    BY <1>5, <1>6, SetInduction
<1>8. k \in 0..L /\ k \in Nat /\ k \in 0..TmpSize /\ Rest(n)[k] \in Int
  BY <1>1, <1>2, <1>3 DEF L
<1>9. Rest(n)[k] <= n /\ (k > 0 => Rest(n)[k] < n)
  BY <1>7, <1>8
<1>10. Rest(n)[k] >= 0
  <2>1. CASE k = L
    BY <1>2, <2>1
  <2>2. CASE k # L
    <3>1. k < L
      BY <1>2, <1>8, <2>2
    <3> QED
      BY <1>1, <1>4, <1>8, <3>1
  <2> QED
    BY <2>1, <2>2
<1>11. k > 0 => Rest(n)[k - 1] \div Base = Rest(n)[k] + 1
  <2>1. ASSUME k > 0 PROVE Rest(n)[k - 1] \div Base = Rest(n)[k] + 1
    <3>1. /\ k - 1 \in 0..TmpSize - 1 /\ k - 1 \in 0..TmpSize /\ (k - 1) + 1 = k
      BY <1>1, <1>8, <2>1
    <3>2. /\ Rest(n)[k] = (Rest(n)[k - 1] \div Base) - 1 /\ Rest(n)[k - 1] \in Int
      BY <1>1, <3>1
    <3>3. Rest(n)[k - 1] \div Base \in Int
      BY <1>1, <3>2
    <3> QED
      BY <3>2, <3>3
  <2> QED
    BY <2>1
<1> QED
  BY <1>1, <1>4, <1>8, <1>9, <1>10, <1>11 DEF L

(* A VARINT, from its most significant digit to its least.                 *)
LEMMA VarIntBytes ==
  ASSUME NEW n \in 0..MaxU64
  PROVE  /\ WriteVarInt(n) \in Bytes /\ Len(WriteVarInt(n)) = FinalTurn(n) + 1
         /\ FinalTurn(n) \in Nat
         /\ \A k \in 0..FinalTurn(n) :
              WriteVarInt(n)[FinalTurn(n) + 1 - k]
                = (Rest(n)[k] % Base) + (IF k = 0 THEN 0 ELSE Base)
<1> DEFINE L == FinalTurn(n)
           tmp == [k \in 0..L |-> (Rest(n)[k] % Base) + (IF k = 0 THEN 0 ELSE Base)]
<1>1. WriteVarInt(n) = [i \in 1..L + 1 |-> tmp[L + 1 - i]]
  BY DEF WriteVarInt, FinalTurn, Rest
<1>2. L \in 0..TmpSize /\ L \in Nat
  BY TmpSizeValue, FinalTurnExists DEF IsFinal
<1>3. ASSUME NEW k \in 0..L
      PROVE  tmp[k] \in 0..Radix - 1
  <2>1. Rest(n)[k] \in Int
    BY <1>2, RestFacts
  <2>2. Rest(n)[k] % Base \in 0..Base - 1
    BY <2>1, RadixValue, DivMod
  <2> QED
    BY <2>2, RadixValue
<1>4. \A k \in 0..L :
        tmp[k] = (Rest(n)[k] % Base) + (IF k = 0 THEN 0 ELSE Base)
  OBVIOUS
<1> HIDE DEF tmp, L
<1>5. WriteVarInt(n) \in [1..L + 1 -> 0..Radix - 1]
  <2>1. \A i \in 1..L + 1 : tmp[L + 1 - i] \in 0..Radix - 1
    BY <1>2, <1>3
  <2> QED
    BY <1>1, <2>1
<1>6. WriteVarInt(n) \in Bytes /\ Len(WriteVarInt(n)) = L + 1
  <2>1. L + 1 \in Nat
    BY <1>2
  <2> QED
    BY <1>5, <2>1, SequenceOfFunction DEF Bytes
<1>7. ASSUME NEW k \in 0..L
      PROVE  WriteVarInt(n)[L + 1 - k]
               = (Rest(n)[k] % Base) + (IF k = 0 THEN 0 ELSE Base)
  <2>1. L + 1 - k \in 1..L + 1 /\ L + 1 - (L + 1 - k) = k
    BY <1>2
  <2>2. WriteVarInt(n)[L + 1 - k] = tmp[k]
    BY <1>1, <2>1
  <2> QED
    BY <1>4, <2>2
<1> QED
  BY <1>2, <1>6, <1>7 DEF L

(* The same bytes, every digit marked as one that others follow.           *)
Marked(n) == [i \in 1..Len(WriteVarInt(n)) |->
                IF i = Len(WriteVarInt(n)) THEN WriteVarInt(n)[i] + Base
                ELSE WriteVarInt(n)[i]]

LEMMA OneDigit ==
  ASSUME NEW n \in 0..MaxU64, n < Base
  PROVE  WriteVarInt(n) = <<n>>
<1>1. /\ TmpSize \in Nat /\ Base \in Nat /\ n \in Nat /\ Rest(n)[0] = n
  BY RestFacts
<1>2. IsFinal(n, 0)
  BY <1>1 DEF IsFinal
<1>3. FinalTurn(n) = 0
  BY <1>2, FinalTurnExists
<1>4. /\ WriteVarInt(n) \in Bytes /\ Len(WriteVarInt(n)) = 1
      /\ WriteVarInt(n)[1] = n % Base
  <2>1. 0 \in 0..FinalTurn(n) /\ FinalTurn(n) + 1 - 0 = 1
    BY <1>3
  <2>2. /\ WriteVarInt(n) \in Bytes /\ Len(WriteVarInt(n)) = FinalTurn(n) + 1
        /\ WriteVarInt(n)[FinalTurn(n) + 1 - 0] = (Rest(n)[0] % Base) + 0
    BY <2>1, VarIntBytes
  <2>3. n % Base \in Int
    BY <1>1, RadixValue
  <2> QED
    BY <1>1, <1>3, <2>1, <2>2, <2>3
<1>5. n % Base = n
  BY <1>1
<1> QED
  BY <1>4, <1>5 DEF Bytes

(* A VARINT of more than one digit is that of the digits in front, all     *)
(* marked, with the last digit behind it.                                  *)
LEMMA MoreDigits ==
  ASSUME NEW n \in 0..MaxU64, n >= Base
  PROVE  /\ (n \div Base) - 1 \in 0..MaxU64
         /\ WriteVarInt(n) = Append(Marked((n \div Base) - 1), n % Base)
<1> DEFINE m == (n \div Base) - 1
           L == FinalTurn(n)
<1>1. /\ TmpSize \in Nat /\ Base \in Nat /\ Base >= 2 /\ n \in Int /\ n \in Nat
      /\ Rest(n)[0] = n /\ \A j \in 0..TmpSize : Rest(n)[j] \in Int
      /\ \A j \in 0..TmpSize - 1 : Rest(n)[j + 1] = (Rest(n)[j] \div Base) - 1
      /\ n <= MaxU64 /\ MaxU64 \in Nat
  BY RestFacts
<1>2. m \in 0..MaxU64
  <2>1. m >= 0 /\ m < n
    BY <1>1, TurnShrinks
  <2>2. m \in Int
    BY <1>1
  <2> QED
    BY <1>1, <2>1, <2>2
<1>3. /\ Rest(m)[0] = m /\ \A j \in 0..TmpSize : Rest(m)[j] \in Int
      /\ \A j \in 0..TmpSize - 1 : Rest(m)[j + 1] = (Rest(m)[j] \div Base) - 1
  BY <1>2, RestFacts
<1>4. L \in 0..TmpSize /\ L \in Nat /\ Rest(n)[L] >= 0 /\ Rest(n)[L] < Base
  BY <1>1, FinalTurnExists DEF IsFinal
<1>5. L # 0
  BY <1>1, <1>4
<1>6. \A k \in 0..TmpSize - 1 : Rest(m)[k] = Rest(n)[k + 1]
  <2> DEFINE S == {k \in Nat : k \in 0..TmpSize - 1 => Rest(m)[k] = Rest(n)[k + 1]}
  <2>1. 0 \in S
    <3>1. CASE 0 \in 0..TmpSize - 1
      <4>1. Rest(n)[0 + 1] = (Rest(n)[0] \div Base) - 1
        BY <1>1, <3>1
      <4> QED
        BY <1>1, <1>3, <4>1
    <3> QED
      BY <3>1
  <2>2. ASSUME NEW k \in Nat, k \in S PROVE k + 1 \in S
    <3>1. CASE k + 1 \in 0..TmpSize - 1
      <4>1. k \in 0..TmpSize - 1 /\ k + 1 \in 0..TmpSize - 1
        BY <1>1, <3>1
      <4>2. Rest(m)[k] = Rest(n)[k + 1]
        BY <2>2, <4>1
      <4>3. /\ Rest(m)[k + 1] = (Rest(m)[k] \div Base) - 1
            /\ Rest(n)[(k + 1) + 1] = (Rest(n)[k + 1] \div Base) - 1
        BY <1>1, <1>3, <4>1
      <4> QED
        BY <4>2, <4>3
    <3> QED
      BY <3>1
  <2>3. Nat \subseteq S
    <3> HIDE DEF S
    <3> QED
      BY <2>1, <2>2, SetInduction
  <2> QED
    BY <1>1, <2>3
<1> HIDE DEF m, L
<1>7. FinalTurn(m) = L - 1
  <2>1. L - 1 \in 0..TmpSize - 1 /\ L - 1 \in 0..TmpSize /\ (L - 1) + 1 = L
    BY <1>1, <1>4, <1>5
  <2>2. Rest(m)[L - 1] = Rest(n)[L]
    BY <1>6, <2>1
  <2>3. IsFinal(m, L - 1)
    BY <1>4, <2>1, <2>2 DEF IsFinal
  <2> QED
    BY <1>2, <2>3, FinalTurnExists
<1>8. /\ WriteVarInt(n) \in Bytes /\ Len(WriteVarInt(n)) = L + 1
      /\ \A k \in 0..L : WriteVarInt(n)[L + 1 - k]
                           = (Rest(n)[k] % Base) + (IF k = 0 THEN 0 ELSE Base)
  BY VarIntBytes DEF L
<1>9. /\ WriteVarInt(m) \in Bytes /\ Len(WriteVarInt(m)) = L
      /\ \A k \in 0..L - 1 : WriteVarInt(m)[L - k]
                           = (Rest(m)[k] % Base) + (IF k = 0 THEN 0 ELSE Base)
  <2>1. (L - 1) + 1 = L /\ \A k \in 0..L - 1 : (L - 1) + 1 - k = L - k
    BY <1>4
  <2> QED
    BY <1>2, <1>7, <2>1, VarIntBytes
<1>10. WriteVarInt(n)[L + 1] = n % Base
  <2>1. 0 \in 0..L /\ L + 1 - 0 = L + 1
    BY <1>4
  <2>2. WriteVarInt(n)[L + 1] = (n % Base) + 0
    BY <1>1, <1>8, <2>1
  <2> QED
    BY <1>1, <2>2
<1>11. ASSUME NEW i \in 1..L PROVE WriteVarInt(n)[i] = Marked(m)[i]
  <2> DEFINE k == L - i
  <2>1. /\ k \in 0..L - 1 /\ k + 1 \in 0..L /\ k \in 0..TmpSize - 1
        /\ L + 1 - (k + 1) = i /\ L - k = i /\ k + 1 # 0
        /\ k = 0 <=> i = L
    BY <1>1, <1>4
  <2>2. WriteVarInt(n)[i] = (Rest(n)[k + 1] % Base) + Base
    BY <1>8, <2>1
  <2>3. WriteVarInt(m)[i] = (Rest(m)[k] % Base) + (IF k = 0 THEN 0 ELSE Base)
    BY <1>9, <2>1
  <2>4. Rest(m)[k] = Rest(n)[k + 1] /\ Rest(n)[k + 1] % Base \in Int
    BY <1>1, <1>6, <2>1
  <2>5. Marked(m)[i] = IF i = L THEN WriteVarInt(m)[i] + Base ELSE WriteVarInt(m)[i]
    BY <1>9 DEF Marked
  <2> QED
    BY <1>1, <2>1, <2>2, <2>3, <2>4, <2>5
<1>12. Marked(m) \in Seq(Int) /\ Len(Marked(m)) = L
  <2>1. ASSUME NEW i \in 1..L PROVE Marked(m)[i] \in Int
    <3>1. WriteVarInt(m)[i] \in Int
      BY <1>9, RadixValue DEF Bytes
    <3> QED
      BY <1>1, <1>9, <3>1 DEF Marked
  <2>2. DOMAIN Marked(m) = 1..L /\ Marked(m) = [i \in 1..L |-> Marked(m)[i]]
    BY <1>9 DEF Marked
  <2> QED
    BY <1>4, <2>1, <2>2
<1>13. WriteVarInt(n) = Append(Marked(m), n % Base)
  <2>1. WriteVarInt(n) \in Seq(Int)
    BY <1>8, RadixValue DEF Bytes
  <2>2. n % Base \in Int
    BY <1>1
  <2>3. /\ Append(Marked(m), n % Base) \in Seq(Int)
        /\ Len(Append(Marked(m), n % Base)) = L + 1
        /\ Append(Marked(m), n % Base)[L + 1] = n % Base
        /\ \A i \in 1..L : Append(Marked(m), n % Base)[i] = Marked(m)[i]
    BY <1>4, <1>12, <2>2
  <2>4. \A i \in 1..L + 1 : WriteVarInt(n)[i] = Append(Marked(m), n % Base)[i]
    BY <1>4, <1>10, <1>11, <2>3
  <2> QED
    BY <1>8, <2>1, <2>3, <2>4, SameSequence
<1> QED
  BY <1>2, <1>13 DEF m

LEMMA MarkedDigits ==
  ASSUME NEW n \in 0..MaxU64
  PROVE  /\ Marked(n) \in Seq(Int) /\ Len(Marked(n)) = Len(WriteVarInt(n))
         /\ n < Base => Marked(n) = <<n + Base>>
         /\ n >= Base =>
              Marked(n) = Append(Marked((n \div Base) - 1), (n % Base) + Base)
<1> DEFINE W == WriteVarInt(n)
<1>1. W \in Seq(Int) /\ Len(W) \in Nat /\ Len(W) >= 1
  BY VarIntBytes, RadixValue DEF Bytes
<1>2. Base \in Int /\ n \in Int
  BY RadixValue, WordValue
<1> DEFINE F(i) == IF i = Len(W) THEN W[i] + Base ELSE W[i]
<1>3. Marked(n) = [i \in 1..Len(W) |-> F(i)]
  BY DEF Marked
<1>4. \A i \in 1..Len(W) : F(i) \in Int
  BY <1>1, <1>2
<1>5. Marked(n) \in Seq(Int) /\ Len(Marked(n)) = Len(W)
  <2> HIDE DEF F, W
  <2>1. [i \in 1..Len(W) |-> F(i)] \in [1..Len(W) -> Int]
    BY <1>4
  <2> QED
    BY <1>1, <1>3, <2>1, SequenceOfFunction
<1>6. ASSUME n < Base PROVE Marked(n) = <<n + Base>>
  <2>1. W = <<n>>
    BY <1>6, OneDigit
  <2>2. Len(W) = 1 /\ Marked(n)[1] = n + Base
    BY <1>3, <2>1
  <2>3. <<n + Base>> \in Seq(Int) /\ Len(<<n + Base>>) = 1 /\ <<n + Base>>[1] = n + Base
    BY <1>2
  <2> QED
    BY <1>5, <2>2, <2>3, SameSequence
<1>7. ASSUME n >= Base
      PROVE  Marked(n) = Append(Marked((n \div Base) - 1), (n % Base) + Base)
  <2> DEFINE m == (n \div Base) - 1
             a == Append(Marked(m), n % Base)
             b == Append(Marked(m), (n % Base) + Base)
  <2>1. m \in 0..MaxU64 /\ W = a
    <3>1. n \in 0..MaxU64 /\ n >= Base
      BY <1>7
    <3> QED
      BY <3>1, MoreDigits
  <2>2. Marked(m) \in Seq(Int)
    <3> DEFINE V == WriteVarInt(m)
               G(i) == IF i = Len(V) THEN V[i] + Base ELSE V[i]
    <3>1. V \in Seq(Int) /\ Len(V) \in Nat
      BY SMTT(20), <2>1, VarIntBytes, RadixValue DEF Bytes
    <3>2. Marked(m) = [i \in 1..Len(V) |-> G(i)]
      BY DEF Marked
    <3>3. \A i \in 1..Len(V) : G(i) \in Int
      BY <1>2, <3>1
    <3> HIDE DEF V, G
    <3>4. [i \in 1..Len(V) |-> G(i)] \in [1..Len(V) -> Int]
      BY <3>3
    <3> QED
      BY <3>1, <3>2, <3>4, SequenceOfFunction
  <2>3. n % Base \in Int /\ (n % Base) + Base \in Int
    BY <1>2, RadixValue
  <2> DEFINE l == Len(Marked(m))
  <2> HIDE DEF m
  <2>4. /\ l \in Nat /\ a \in Seq(Int) /\ b \in Seq(Int) /\ Len(a) = l + 1 /\ Len(b) = l + 1
        /\ a[l + 1] = n % Base /\ b[l + 1] = (n % Base) + Base
        /\ \A i \in 1..l : a[i] = b[i]
    BY <2>2, <2>3
  <2>5. Len(W) = l + 1 /\ W[l + 1] = n % Base /\ \A i \in 1..l : W[i] = b[i]
    BY <2>1, <2>4
  <2>6. \A i \in 1..l + 1 : Marked(n)[i] = b[i]
    <3> HIDE DEF W, b, l
    <3>1. ASSUME NEW i \in 1..l + 1 PROVE Marked(n)[i] = b[i]
      <4>1. CASE i = l + 1
        BY <1>3, <2>4, <2>5, <4>1
      <4>2. CASE i # l + 1
        <5>1. i \in 1..l
          BY <2>4, <4>2
        <5> QED
          BY <1>3, <2>4, <2>5, <4>2, <5>1
      <4> QED
        BY <4>1, <4>2
    <3> QED
      BY <3>1
  <2>7. Marked(n) = b
    <3> HIDE DEF W, b, l
    <3> QED
      BY <1>5, <2>4, <2>5, <2>6, SameSequence
  <2> QED
    BY <2>7 DEF m
<1> QED
  BY <1>5, <1>6, <1>7

-----------------------------------------------------------------------------
(* What VarIntValue makes of the digits.                                   *)
VarIntSum(bytes) ==
  LET n[i \in 0..Len(bytes)] ==
        IF i = 0 THEN 0
        ELSE n[i - 1] * Base + (bytes[i] % Base) + (IF bytes[i] >= Base THEN 1 ELSE 0)
  IN  n

Turn(n, byte) == n * Base + (byte % Base) + (IF byte >= Base THEN 1 ELSE 0)

LEMMA TurnTyped ==
  ASSUME NEW n \in Nat, NEW byte \in Int
  PROVE  Turn(n, byte) \in Nat
<1>1. Base \in Nat /\ Base > 0 /\ byte % Base \in Nat
  BY RadixValue
<1>2. n * Base \in Nat
  BY <1>1
<1> QED
  BY <1>1, <1>2 DEF Turn

LEMMA VarIntSumEquations ==
  ASSUME NEW bytes \in Seq(Int)
  PROVE  /\ VarIntValue(bytes) = VarIntSum(bytes)[Len(bytes)]
         /\ VarIntSum(bytes)[0] = 0
         /\ \A i \in 0..Len(bytes) - 1 :
              VarIntSum(bytes)[i + 1] = Turn(VarIntSum(bytes)[i], bytes[i + 1])
         /\ \A i \in 0..Len(bytes) : VarIntSum(bytes)[i] \in Nat
<1> DEFINE N == Len(bytes)
           byte == [k \in Nat |-> IF k + 1 \in 1..N THEN bytes[k + 1] ELSE 0]
           step == [k \in Nat |-> [x \in Nat |-> Turn(x, byte[k])]]
           n[i \in 0..Len(bytes)] ==
             IF i = 0 THEN 0
             ELSE n[i - 1] * Base + (bytes[i] % Base)
                    + (IF bytes[i] >= Base THEN 1 ELSE 0)
<1>1. /\ N \in Nat /\ \A i \in 1..N : byte[i - 1] = bytes[i]
      /\ \A k \in Nat : byte[k] \in Int
  OBVIOUS
<1> HIDE DEF byte
<1>2. /\ step \in [Nat -> [Nat -> Nat]]
      /\ \A k \in Nat : \A x \in Nat : step[k][x] = Turn(x, byte[k])
  BY <1>1, TurnTyped
<1> HIDE DEF step
<1>3. PICK f : IteratesTo(N, f, Nat, 0, step)
  <2>1. 0 \in Nat /\ N \in Nat
    BY <1>1
  <2> HIDE DEF N
  <2> QED
    BY <1>2, <2>1, RecursiveSequence
<1>4. /\ f \in [0..N -> Nat] /\ f[0] = 0
      /\ \A k \in 0..N - 1 : f[k + 1] = step[k][f[k]]
  BY <1>3 DEF IteratesTo
<1>5. ASSUME NEW i \in 0..N - 1 PROVE f[i + 1] = Turn(f[i], bytes[i + 1])
  <2>1. i \in 0..N /\ i \in Nat /\ i + 1 \in 1..N /\ (i + 1) - 1 = i
    BY <1>1
  <2>2. f[i] \in Nat /\ byte[i] = bytes[i + 1]
    BY <1>1, <1>4, <2>1
  <2> QED
    BY <1>2, <1>4, <2>1, <2>2
<1>6. ASSUME NEW i \in 0..N
      PROVE  f[i] = IF i = 0 THEN 0
                    ELSE f[i - 1] * Base + (bytes[i] % Base)
                           + (IF bytes[i] >= Base THEN 1 ELSE 0)
  <2>1. CASE i # 0
    <3>1. i - 1 \in 0..N - 1 /\ (i - 1) + 1 = i
      BY <1>1, <2>1
    <3>2. f[(i - 1) + 1] = Turn(f[i - 1], bytes[(i - 1) + 1])
      BY <1>5, <3>1
    <3>3. f[i] = Turn(f[i - 1], bytes[i])
      BY <3>1, <3>2
    <3> QED
      BY <2>1, <3>3 DEF Turn
  <2> QED
    BY <1>4, <2>1
<1>7. f = [i \in 0..Len(bytes) |->
             IF i = 0 THEN 0
             ELSE f[i - 1] * Base + (bytes[i] % Base)
                    + (IF bytes[i] >= Base THEN 1 ELSE 0)]
  BY <1>4, <1>6
<1>8. n = [i \in 0..Len(bytes) |->
             IF i = 0 THEN 0
             ELSE n[i - 1] * Base + (bytes[i] % Base)
                    + (IF bytes[i] >= Base THEN 1 ELSE 0)]
  BY <1>7
<1>9. VarIntValue(bytes) = n[Len(bytes)] /\ VarIntSum(bytes) = n
  BY DEF VarIntValue, VarIntSum
<1> HIDE DEF n
<1>10. n[0] = 0
  BY <1>1, <1>8
<1>11. ASSUME NEW i \in 0..N - 1 PROVE n[i + 1] = Turn(n[i], bytes[i + 1])
  <2>1. i + 1 \in 0..Len(bytes) /\ i + 1 # 0 /\ (i + 1) - 1 = i
    BY <1>1
  <2> QED
    BY <1>8, <2>1 DEF Turn
<1>12. \A i \in 0..N : n[i] \in Nat
  <2> DEFINE T == {i \in Nat : i \in 0..N => n[i] \in Nat}
  <2>1. 0 \in T
    BY <1>10
  <2>2. ASSUME NEW i \in Nat, i \in T PROVE i + 1 \in T
    <3>1. CASE i + 1 \in 0..N
      <4>1. i \in 0..N - 1 /\ i \in 0..N /\ i + 1 \in 1..N
        BY <1>1, <3>1
      <4>2. n[i] \in Nat /\ bytes[i + 1] \in Int
        BY <2>2, <4>1
      <4>3. n[i + 1] \in Nat
        BY <1>11, <4>1, <4>2, TurnTyped
      <4> QED
        BY <4>3
    <3> QED
      BY <3>1
  <2>3. Nat \subseteq T
    <3> HIDE DEF T
    <3> QED
      BY <2>1, <2>2, SetInduction
  <2> QED
    BY <1>1, <2>3
<1> QED
  BY <1>9, <1>10, <1>11, <1>12

(* One digit more.                                                         *)
LEMMA VarIntValueAppend ==
  ASSUME NEW bytes \in Seq(Int), NEW byte \in Int
  PROVE  VarIntValue(Append(bytes, byte)) = Turn(VarIntValue(bytes), byte)
<1> DEFINE N == Len(bytes)
           more == Append(bytes, byte)
           s == VarIntSum(bytes)
           t == VarIntSum(more)
           T == {i \in Nat : i \in 0..N => t[i] = s[i]}
<1>1. /\ N \in Nat /\ more \in Seq(Int) /\ Len(more) = N + 1 /\ more[N + 1] = byte
      /\ \A i \in 1..N : more[i] = bytes[i]
  OBVIOUS
<1>2. /\ VarIntValue(bytes) = s[N] /\ s[0] = 0
      /\ \A i \in 0..N - 1 : s[i + 1] = Turn(s[i], bytes[i + 1])
  BY VarIntSumEquations
<1>3. /\ VarIntValue(more) = t[N + 1] /\ t[0] = 0
      /\ \A i \in 0..N : t[i + 1] = Turn(t[i], more[i + 1])
  <2>1. /\ VarIntValue(more) = t[Len(more)] /\ t[0] = 0
        /\ \A i \in 0..Len(more) - 1 : t[i + 1] = Turn(t[i], more[i + 1])
    <3> HIDE DEF more
    <3> QED
      BY <1>1, VarIntSumEquations
  <2>2. Len(more) = N + 1 /\ Len(more) - 1 = N
    BY <1>1
  <2> HIDE DEF more, t, N
  <2> QED
    BY <2>1, <2>2
<1> HIDE DEF s, t, more
<1>4. 0 \in T
  BY <1>2, <1>3
<1>5. ASSUME NEW i \in Nat, i \in T PROVE i + 1 \in T
  <2>1. CASE i + 1 \in 0..N
    <3>1. i \in 0..N - 1 /\ i \in 0..N /\ i + 1 \in 1..N
      BY <1>1, <2>1
    <3>2. t[i + 1] = Turn(t[i], bytes[i + 1]) /\ s[i + 1] = Turn(s[i], bytes[i + 1])
      BY <1>1, <1>2, <1>3, <3>1
    <3>3. t[i] = s[i]
      BY <1>5, <3>1
    <3> QED
      BY <3>2, <3>3
  <2> QED
    BY <2>1
<1>6. Nat \subseteq T
  <2> HIDE DEF T
  <2> QED
    BY <1>4, <1>5, SetInduction
<1>7. N \in 0..N /\ t[N] = s[N]
  BY <1>1, <1>6
<1> QED
  BY <1>1, <1>2, <1>3, <1>7 DEF more

LEMMA VarIntValueTyped ==
  ASSUME NEW bytes \in Seq(Int)
  PROVE  VarIntValue(bytes) \in Nat
<1>1. Len(bytes) \in 0..Len(bytes)
  OBVIOUS
<1> QED
  BY <1>1, VarIntSumEquations

LEMMA VarIntValueOne ==
  ASSUME NEW byte \in Int
  PROVE  VarIntValue(<<byte>>) = (byte % Base) + (IF byte >= Base THEN 1 ELSE 0)
<1>1. <<byte>> = Append(<<>>, byte) /\ <<>> \in Seq(Int) /\ Len(<<>>) = 0
  OBVIOUS
<1>2. VarIntValue(<<>>) = 0
  BY <1>1, VarIntSumEquations
<1>3. VarIntValue(<<byte>>) = Turn(0, byte)
  BY <1>1, <1>2, VarIntValueAppend
<1>4. 0 * Base = 0 /\ byte % Base \in Int
  BY RadixValue
<1> QED
  BY <1>3, <1>4 DEF Turn

(* Reading what was written; and with the last digit marked as well, one   *)
(* more, which is what the digits behind it count on.                      *)
LEMMA VarIntReadsBack ==
  ASSUME NEW n \in 0..MaxU64
  PROVE  VarIntValue(WriteVarInt(n)) = n
<1> DEFINE Good(m) == /\ VarIntValue(WriteVarInt(m)) = m
                      /\ VarIntValue(Marked(m)) = m + 1
           S == {m \in Nat : m <= MaxU64 => Good(m)}
<1>1. MaxU64 \in Nat /\ Base \in Nat /\ Base >= 2
  BY WordValue, RadixValue
<1>2. ASSUME NEW m \in Nat, (0..m - 1) \subseteq S PROVE m \in S
  <2> SUFFICES ASSUME m <= MaxU64 PROVE Good(m)
    OBVIOUS
  <2>1. m \in 0..MaxU64
    BY <1>1
  <2>2. CASE m < Base
    <3>1. WriteVarInt(m) = <<m>> /\ Marked(m) = <<m + Base>>
      BY <2>1, <2>2, OneDigit, MarkedDigits
    <3>2. m % Base = m /\ (m + Base) % Base = m /\ m + Base >= Base
      <4>1. (0 * Base + m) % Base = m /\ (1 * Base + m) % Base = m
        BY <1>1, <2>2, DivModUnique
      <4> QED
        BY <1>1, <4>1
    <3>3. /\ VarIntValue(<<m>>) = m % Base
          /\ VarIntValue(<<m + Base>>) = ((m + Base) % Base) + 1
      BY <1>1, <2>2, <3>2, VarIntValueOne
    <3> QED
      BY <3>1, <3>2, <3>3
  <2>3. CASE m >= Base
    <3> DEFINE q == (m \div Base) - 1
               r == m % Base
    <3>1. /\ m = ((m \div Base) * Base) + r /\ r \in 0..Base - 1 /\ m \div Base \in Int
      BY <1>1, DivMod
    <3>2. /\ q \in 0..MaxU64 /\ WriteVarInt(m) = Append(Marked(q), r)
          /\ Marked(m) = Append(Marked(q), r + Base)
      BY <2>1, <2>3, MoreDigits, MarkedDigits
    <3>3. Marked(q) \in Seq(Int)
      BY <3>2, MarkedDigits
    <3>4. q \in 0..m - 1
      <4>1. q < m
        BY <1>1, <2>3, TurnShrinks
      <4> QED
        BY <1>1, <3>2, <4>1
    <3>5. VarIntValue(Marked(q)) = q + 1
      <4> HIDE DEF q
      <4>1. q \in S /\ q <= MaxU64
        BY <1>1, <1>2, <3>2, <3>4
      <4> QED
        BY <4>1
    <3>6. r % Base = r /\ (r + Base) % Base = r /\ r < Base /\ r + Base >= Base /\ r \in Int
      <4> HIDE DEF r
      <4>1. (0 * Base + r) % Base = r /\ (1 * Base + r) % Base = r
        BY <1>1, <3>1, DivModUnique
      <4> QED
        BY <1>1, <3>1, <4>1
    <3>7. (q + 1) * Base + r = m
      BY <1>1, <3>1
    <3> HIDE DEF q, r
    <3>8. /\ VarIntValue(WriteVarInt(m)) = Turn(q + 1, r)
          /\ VarIntValue(Marked(m)) = Turn(q + 1, r + Base)
      <4>1. r + Base \in Int
        BY <1>1, <3>6
      <4> QED
        BY <3>2, <3>3, <3>5, <3>6, <4>1, VarIntValueAppend
    <3>9. /\ Turn(q + 1, r) = (q + 1) * Base + r
          /\ Turn(q + 1, r + Base) = (q + 1) * Base + r + 1
      <4> DEFINE p == (q + 1) * Base
      <4>1. p \in Int
        BY <1>1, <3>2
      <4>2. /\ Turn(q + 1, r) = p + (r % Base) + (IF r >= Base THEN 1 ELSE 0)
            /\ Turn(q + 1, r + Base)
                 = p + ((r + Base) % Base) + (IF r + Base >= Base THEN 1 ELSE 0)
        BY DEF Turn
      <4> HIDE DEF p
      <4>3. /\ Turn(q + 1, r) = p + r
            /\ Turn(q + 1, r + Base) = p + r + 1
        BY <1>1, <3>6, <4>1, <4>2
      <4> QED
        BY <4>3 DEF p
    <3> QED
      BY <3>7, <3>8, <3>9
  <2> QED
    BY <1>1, <2>2, <2>3
<1>3. Nat \subseteq S
  <2> HIDE DEF S
  <2> QED
    BY <1>2, StrongSetInduction
<1> QED
  BY <1>1, <1>3

(* A VARINT ends at its first digit that is not marked, within tmp.        *)
LEMMA VarIntEnd ==
  ASSUME NEW n \in 0..MaxU64
  PROVE  /\ WriteVarInt(n) \in Bytes /\ Len(WriteVarInt(n)) \in 1..TmpSize
         /\ \A i \in 1..Len(WriteVarInt(n)) :
              WriteVarInt(n)[i] < Base <=> i = Len(WriteVarInt(n))
<1> DEFINE W == WriteVarInt(n)
           last == FinalTurn(n)
<1>1. /\ W \in Bytes /\ Len(W) = last + 1 /\ last \in Nat
      /\ \A k \in 0..last :
           W[last + 1 - k] = (Rest(n)[k] % Base) + (IF k = 0 THEN 0 ELSE Base)
  BY VarIntBytes
<1>2. /\ Base \in Nat /\ Base >= 2 /\ TmpSize \in Nat
      /\ \A k \in 0..last : Rest(n)[k] \in Nat
  BY RadixValue, TmpSizeValue, RestBounds
<1>3. last <= TmpSize - 1
  <2>1. last \in 0..TmpSize /\ Rest(n)[last] >= 0
    BY <1>1, <1>2, RestBounds
  <2>2. Rest(n)[TmpSize] < 0
    BY RestRunsOut
  <2>3. last # TmpSize
    <3>1. ASSUME last = TmpSize PROVE FALSE
      <4>1. Rest(n)[last] = Rest(n)[TmpSize] /\ Rest(n)[last] \in Int
        BY <1>1, <1>2, <3>1
      <4> QED
        BY <2>1, <2>2, <4>1
    <3> QED
      BY <3>1
  <2> QED
    BY <1>2, <2>1, <2>3
<1> HIDE DEF W, last
<1>4. ASSUME NEW i \in 1..Len(W) PROVE W[i] < Base <=> i = Len(W)
  <2> DEFINE k == last + 1 - i
  <2>1. k \in 0..last /\ last + 1 - k = i
    BY <1>1
  <2>2. Rest(n)[k] % Base \in 0..Base - 1
    BY <1>2, <2>1, DivMod
  <2>3. W[i] = (Rest(n)[k] % Base) + (IF k = 0 THEN 0 ELSE Base)
    BY <1>1, <2>1
  <2>4. k = 0 <=> i = Len(W)
    BY <1>1
  <2> HIDE DEF k
  <2> QED
    BY <1>2, <2>2, <2>3, <2>4
<1>5. Len(W) \in 1..TmpSize
  BY <1>1, <1>2, <1>3
<1> QED
  BY <1>1, <1>4, <1>5 DEF W

-----------------------------------------------------------------------------
(* WriteCompactSize.                                                       *)

LEMMA FormBounds ==
  /\ RadixTo[2] \in Nat /\ RadixTo[4] \in Nat
  /\ RadixTo[2] >= Radix /\ RadixTo[4] >= RadixTo[2]
<1>1. RadixTo[1] = Radix
  <2>1. RadixTo[0 + 1] = Radix * RadixTo[0]
    BY RadixPowers
  <2> QED
    BY <2>1, RadixPowers, RadixValue
<1>2. RadixTo[1 + 1] = Radix * RadixTo[1] /\ RadixTo[2 + 1] = Radix * RadixTo[2]
      /\ RadixTo[3 + 1] = Radix * RadixTo[3]
  BY RadixPowers
<1>3. RadixTo[2] \in Nat /\ RadixTo[3] \in Nat /\ RadixTo[4] \in Nat
      /\ RadixTo[2] = Radix * Radix /\ RadixTo[3] = Radix * RadixTo[2]
      /\ RadixTo[4] = Radix * RadixTo[3]
  BY <1>1, <1>2, RadixPowers
<1>4. ASSUME NEW x \in Nat PROVE Radix * x >= x /\ Radix * x \in Nat
  BY RadixValue
<1> QED
  BY <1>3, <1>4, RadixValue

(* What a reader makes of a tag and the digits behind it.                  *)
Decoded(tag, digits) == IF Width(tag) = 0 THEN tag ELSE LeValue(digits)

LEMMA TagWidths ==
  ASSUME NEW tag \in 0..Radix - 1
  PROVE  /\ Width(tag) \in Nat
         /\ \/ tag < Radix - 3 /\ Width(tag) = 0 /\ LeastOf(tag) = 0
            \/ tag = Radix - 3 /\ Width(tag) = 2 /\ LeastOf(tag) = Radix - 3
            \/ tag = Radix - 2 /\ Width(tag) = 4 /\ LeastOf(tag) = RadixTo[2]
            \/ tag = Radix - 1 /\ Width(tag) = WordBytes /\ LeastOf(tag) = RadixTo[4]
<1>1. tag \in Nat /\ tag < Radix
  BY RadixValue
<1>2. CASE tag < Radix - 3
  BY <1>1, <1>2, RadixValue DEF Width, LeastOf
<1>3. CASE tag = Radix - 3
  BY <1>1, <1>3, RadixValue DEF Width, LeastOf
<1>4. CASE tag = Radix - 2
  BY <1>1, <1>4, RadixValue DEF Width, LeastOf
<1>5. CASE tag = Radix - 1
  BY <1>1, <1>5, RadixValue DEF Width, LeastOf
<1> QED
  BY <1>1, <1>2, <1>3, <1>4, <1>5, RadixValue

(* The form a value is written in.                                         *)
LEMMA CompactForm ==
  ASSUME NEW n \in Nat
  PROVE  /\ n < Radix - 3 => WriteCompactSize(n) = <<n>>
         /\ n >= Radix - 3 /\ n < RadixTo[2] =>
              WriteCompactSize(n) = <<Radix - 3>> \o LeBytes(n, 2)
         /\ n >= RadixTo[2] /\ n < RadixTo[4] =>
              WriteCompactSize(n) = <<Radix - 2>> \o LeBytes(n, 4)
         /\ n >= RadixTo[4] =>
              WriteCompactSize(n) = <<Radix - 1>> \o LeBytes(n, WordBytes)
<1>1. /\ Radix - 3 <= RadixTo[2] /\ RadixTo[2] <= RadixTo[4] /\ Radix \in Nat
      /\ RadixTo[2] \in Nat /\ RadixTo[4] \in Nat
  BY FormBounds, RadixValue
<1>2. ASSUME n < Radix - 3 PROVE WriteCompactSize(n) = <<n>>
  BY <1>1, <1>2 DEF WriteCompactSize
<1>3. ASSUME n >= Radix - 3, n < RadixTo[2]
      PROVE  WriteCompactSize(n) = <<Radix - 3>> \o LeBytes(n, 2)
  BY <1>1, <1>3 DEF WriteCompactSize
<1>4. ASSUME n >= RadixTo[2], n < RadixTo[4]
      PROVE  WriteCompactSize(n) = <<Radix - 2>> \o LeBytes(n, 4)
  BY <1>1, <1>4 DEF WriteCompactSize
<1>5. ASSUME n >= RadixTo[4]
      PROVE  WriteCompactSize(n) = <<Radix - 1>> \o LeBytes(n, WordBytes)
  <2>1. /\ ~(n < Radix - 3) /\ ~(Radix - 3 <= n /\ n < RadixTo[2])
        /\ ~(RadixTo[2] <= n /\ n < RadixTo[4])
    BY <1>1, <1>5
  <2> QED
    BY <2>1, Zenon DEF WriteCompactSize
<1> QED
  BY <1>2, <1>3, <1>4, <1>5

(* What stands behind a tag, and how a reader finds it.                    *)
LEMMA TagInFront ==
  ASSUME NEW tag \in 0..Radix - 1, NEW digits \in Bytes
  PROVE  /\ <<tag>> \o digits \in Bytes
         /\ Len(<<tag>> \o digits) = 1 + Len(digits) /\ (<<tag>> \o digits)[1] = tag
         /\ \A i \in 1..Len(digits) : (<<tag>> \o digits)[1 + i] = digits[i]
<1> DEFINE S == 0..Radix - 1
<1>1. digits \in Seq(S) /\ tag \in S /\ <<tag>> \in Seq(S) /\ Len(<<tag>>) = 1
  BY DEF Bytes
<1> HIDE DEF S
<1>2. /\ <<tag>> \o digits \in Seq(S)
      /\ Len(<<tag>> \o digits) = 1 + Len(digits) /\ (<<tag>> \o digits)[1] = tag
      /\ \A i \in 1..Len(digits) : (<<tag>> \o digits)[1 + i] = digits[i]
  BY <1>1
<1> QED
  BY <1>2 DEF S, Bytes

(* Each form's tag announces its digits, which give the value back; and a  *)
(* value below the least one of a form is not written in that form.        *)
LEMMA CompactReadsBack ==
  ASSUME NEW n \in 0..MaxU64
  PROVE  \E tag \in 0..Radix - 1 : \E digits \in Bytes :
           /\ WriteCompactSize(n) = <<tag>> \o digits /\ Len(digits) = Width(tag)
           /\ Decoded(tag, digits) = n /\ LeastOf(tag) <= n
<1>1. n \in Nat /\ n < RadixTo[WordBytes]
  BY WordValue
<1> DEFINE Fits(tag, digits) ==
             /\ WriteCompactSize(n) = <<tag>> \o digits /\ Len(digits) = Width(tag)
             /\ Decoded(tag, digits) = n /\ LeastOf(tag) <= n
<1>2. ASSUME NEW tag \in 0..Radix - 1, NEW w \in Nat, w # 0, n < RadixTo[w],
             Width(tag) = w, LeastOf(tag) <= n,
             WriteCompactSize(n) = <<tag>> \o LeBytes(n, w)
      PROVE  Fits(tag, LeBytes(n, w)) /\ LeBytes(n, w) \in Bytes
  BY <1>1, <1>2, LeBytesTyped, LeValueOfLeBytes DEF Decoded
<1>3. CASE n < Radix - 3
  <2>1. n \in 0..Radix - 1 /\ Width(n) = 0 /\ LeastOf(n) = 0
    BY <1>1, <1>3, RadixValue, TagWidths
  <2>2. WriteCompactSize(n) = <<n>> /\ <<>> \in Bytes /\ Len(<<>>) = 0
    BY <1>1, <1>3, CompactForm DEF Bytes
  <2>3. <<n>> = <<n>> \o <<>>
    BY <1>1
  <2>4. Fits(n, <<>>)
    BY <1>1, <2>1, <2>2, <2>3 DEF Decoded
  <2> QED
    BY <2>1, <2>2, <2>4
<1>4. CASE n >= Radix - 3 /\ n < RadixTo[2]
  <2>1. Radix - 3 \in 0..Radix - 1 /\ Width(Radix - 3) = 2 /\ LeastOf(Radix - 3) = Radix - 3
    BY RadixValue, TagWidths
  <2>2. WriteCompactSize(n) = <<Radix - 3>> \o LeBytes(n, 2)
    BY <1>1, <1>4, CompactForm
  <2>3. Fits(Radix - 3, LeBytes(n, 2)) /\ LeBytes(n, 2) \in Bytes
    BY <1>1, <1>2, <1>4, <2>1, <2>2, RadixValue
  <2> QED
    BY <2>1, <2>3
<1>5. CASE n >= RadixTo[2] /\ n < RadixTo[4]
  <2>1. /\ Radix - 2 \in 0..Radix - 1 /\ Width(Radix - 2) = 4
        /\ LeastOf(Radix - 2) = RadixTo[2]
    BY RadixValue, TagWidths
  <2>2. WriteCompactSize(n) = <<Radix - 2>> \o LeBytes(n, 4)
    BY <1>1, <1>5, CompactForm
  <2>3. Fits(Radix - 2, LeBytes(n, 4)) /\ LeBytes(n, 4) \in Bytes
    BY <1>2, <1>5, <2>1, <2>2, 4 \in Nat
  <2> QED
    BY <2>1, <2>3
<1>6. CASE n >= RadixTo[4]
  <2>1. /\ Radix - 1 \in 0..Radix - 1 /\ Width(Radix - 1) = WordBytes
        /\ LeastOf(Radix - 1) = RadixTo[4]
    BY RadixValue, TagWidths
  <2>2. WriteCompactSize(n) = <<Radix - 1>> \o LeBytes(n, WordBytes)
    BY <1>1, <1>6, CompactForm
  <2>3. Fits(Radix - 1, LeBytes(n, WordBytes)) /\ LeBytes(n, WordBytes) \in Bytes
    BY <1>1, <1>2, <1>6, <2>1, <2>2, RadixValue
  <2> QED
    BY <2>1, <2>3
<1>7. \/ n < Radix - 3
      \/ n >= Radix - 3 /\ n < RadixTo[2]
      \/ n >= RadixTo[2] /\ n < RadixTo[4]
      \/ n >= RadixTo[4]
  BY <1>1, FormBounds, RadixValue
<1> HIDE DEF Fits
<1> QED
  BY <1>3, <1>4, <1>5, <1>6, <1>7

(* A tag and digits that pass the tests of a reader are what the writer    *)
(* would have written.                                                     *)
LEMMA CompactCanonical ==
  ASSUME NEW tag \in 0..Radix - 1, NEW digits \in Bytes, Len(digits) = Width(tag),
         Decoded(tag, digits) >= LeastOf(tag)
  PROVE  /\ Decoded(tag, digits) \in Nat
         /\ WriteCompactSize(Decoded(tag, digits)) = <<tag>> \o digits
<1> DEFINE v == Decoded(tag, digits)
           w == Width(tag)
<1>1. \/ tag < Radix - 3 /\ w = 0 /\ LeastOf(tag) = 0
      \/ tag = Radix - 3 /\ w = 2 /\ LeastOf(tag) = Radix - 3
      \/ tag = Radix - 2 /\ w = 4 /\ LeastOf(tag) = RadixTo[2]
      \/ tag = Radix - 1 /\ w = WordBytes /\ LeastOf(tag) = RadixTo[4]
  BY TagWidths
<1>2. CASE w = 0
  <2>1. tag \in Nat /\ tag < Radix - 3 /\ v = tag
    BY <1>1, <1>2, RadixValue DEF Decoded
  <2>2. digits = <<>>
    BY <1>2 DEF Bytes
  <2>3. <<tag>> \o digits = <<tag>>
    BY <2>1, <2>2
  <2> QED
    BY <2>1, <2>3, CompactForm
<1>3. CASE w # 0
  <2>1. /\ v = LeValue(digits) /\ v \in 0..RadixTo[w] - 1 /\ LeBytes(v, w) = digits
        /\ w \in Nat
    BY <1>3, LeBytesOfLeValue, TagWidths DEF Decoded
  <2>2. RadixTo[w] \in Nat /\ v \in Nat /\ v < RadixTo[w]
    <3>1. RadixTo[w] \in Nat
      BY <2>1, RadixPowers
    <3> HIDE DEF v, w
    <3> QED
      BY <2>1, <3>1
  <2> HIDE DEF v, w
  <2>3. CASE tag = Radix - 3 /\ w = 2 /\ LeastOf(tag) = Radix - 3
    <3>1. v >= Radix - 3 /\ v < RadixTo[2]
      BY <2>2, <2>3 DEF v
    <3> QED
      BY <2>1, <2>2, <2>3, <3>1, CompactForm DEF v
  <2>4. CASE tag = Radix - 2 /\ w = 4 /\ LeastOf(tag) = RadixTo[2]
    <3>1. v >= RadixTo[2] /\ v < RadixTo[4]
      BY <2>2, <2>4 DEF v
    <3> QED
      BY <2>1, <2>2, <2>4, <3>1, CompactForm DEF v
  <2>5. CASE tag = Radix - 1 /\ w = WordBytes /\ LeastOf(tag) = RadixTo[4]
    <3>1. v >= RadixTo[4]
      BY <2>2, <2>5 DEF v
    <3> QED
      BY <2>1, <2>2, <2>5, <3>1, CompactForm DEF v
  <2> QED
    BY <1>1, <1>3, <2>3, <2>4, <2>5
<1> QED
  BY <1>2, <1>3

-----------------------------------------------------------------------------
(* FlattenSeq.                                                             *)

(* The first i sequences of ss behind one another.                         *)
Joined(ss) ==
  LET flatten[i \in 1..Len(ss)] ==
        IF i = 1 THEN ss[i] ELSE flatten[i - 1] \o ss[i]
  IN  [i \in 0..Len(ss) |-> IF i = 0 THEN <<>> ELSE flatten[i]]

LEMMA JoinedEquations ==
  ASSUME NEW S, NEW ss \in Seq(Seq(S))
  PROVE  /\ Joined(ss)[0] = <<>> /\ FlattenSeq(ss) = Joined(ss)[Len(ss)]
         /\ \A i \in 0..Len(ss) - 1 : Joined(ss)[i + 1] = Joined(ss)[i] \o ss[i + 1]
         /\ \A i \in 0..Len(ss) : Joined(ss)[i] \in Seq(S)
<1> DEFINE N == Len(ss)
           part == [n \in Nat |-> IF n + 1 \in 1..N THEN ss[n + 1] ELSE <<>>]
           step == [n \in Nat |-> [x \in Seq(S) |-> x \o part[n]]]
           flatten[i \in 1..Len(ss)] ==
             IF i = 1 THEN ss[i] ELSE flatten[i - 1] \o ss[i]
<1>1. N \in Nat /\ \A i \in 1..N : ss[i] \in Seq(S) /\ part[i - 1] = ss[i]
  OBVIOUS
<1>2. \A n \in Nat : part[n] \in Seq(S)
  BY <1>1
<1> HIDE DEF part
<1>3. /\ step \in [Nat -> [Seq(S) -> Seq(S)]]
      /\ \A n \in Nat : \A x \in Seq(S) : step[n][x] = x \o part[n]
  BY <1>2
<1> HIDE DEF step
<1>4. PICK f : IteratesTo(N, f, Seq(S), <<>>, step)
  <2>1. <<>> \in Seq(S) /\ N \in Nat
    BY <1>1
  <2> HIDE DEF N
  <2> QED
    BY <1>3, <2>1, RecursiveSequence
<1>5. /\ f \in [0..N -> Seq(S)] /\ f[0] = <<>>
      /\ \A n \in 0..N - 1 : f[n + 1] = step[n][f[n]]
  BY <1>4 DEF IteratesTo
<1>6. ASSUME NEW i \in 1..N PROVE f[i] = f[i - 1] \o ss[i] /\ f[i] \in Seq(S)
  <2>1. i - 1 \in 0..N - 1 /\ i - 1 \in Nat /\ (i - 1) + 1 = i /\ i - 1 \in 0..N
    BY <1>1
  <2>2. f[(i - 1) + 1] = step[i - 1][f[i - 1]] /\ f[i - 1] \in Seq(S)
    BY <1>5, <2>1
  <2>3. step[i - 1][f[i - 1]] = f[i - 1] \o part[i - 1]
    BY <1>3, <2>1, <2>2
  <2>4. part[i - 1] = ss[i] /\ ss[i] \in Seq(S)
    BY <1>1
  <2>5. f[i] = f[i - 1] \o ss[i]
    BY <2>1, <2>2, <2>3, <2>4
  <2> QED
    BY <2>2, <2>4, <2>5, Concatenation
<1>7. ASSUME 1 \in 1..N PROVE f[1] = ss[1]
  <2>1. f[1] = f[1 - 1] \o ss[1]
    BY <1>6, <1>7
  <2>2. f[1 - 1] = <<>> /\ ss[1] \in Seq(S)
    BY <1>1, <1>5, <1>7
  <2>3. <<>> \o ss[1] = ss[1]
    BY <2>2, Concatenation
  <2> QED
    BY <2>1, <2>2, <2>3
<1> DEFINE g == [i \in 1..Len(ss) |-> f[i]]
<1>8. ASSUME NEW i \in 1..Len(ss)
      PROVE  g[i] = IF i = 1 THEN ss[i] ELSE g[i - 1] \o ss[i]
  <2>1. CASE i = 1
    BY <1>7, <2>1
  <2>2. CASE i # 1
    <3>1. i - 1 \in 1..Len(ss)
      BY <1>1, <2>2
    <3> QED
      BY <1>6, <2>2, <3>1
  <2> QED
    BY <2>1, <2>2
<1>9. g = [i \in 1..Len(ss) |-> IF i = 1 THEN ss[i] ELSE g[i - 1] \o ss[i]]
  BY <1>8
<1>10. \A i \in 1..Len(ss) : g[i] = f[i]
  OBVIOUS
<1> HIDE DEF g
<1>11. flatten = [i \in 1..Len(ss) |->
                    IF i = 1 THEN ss[i] ELSE flatten[i - 1] \o ss[i]]
  BY <1>9
<1>12. /\ Joined(ss) = [i \in 0..Len(ss) |-> IF i = 0 THEN <<>> ELSE flatten[i]]
       /\ FlattenSeq(ss) = IF Len(ss) = 0 THEN ss ELSE flatten[Len(ss)]
  BY DEF Joined, FlattenSeq
<1> HIDE DEF flatten
<1> DEFINE J == [i \in 0..N |-> IF i = 0 THEN <<>> ELSE flatten[i]]
           T == {n \in Nat : n \in 0..N => J[n] = f[n]}
<1>13. 0 \in T
  BY <1>1, <1>5
<1>14. ASSUME NEW n \in Nat, n \in T PROVE n + 1 \in T
  <2>1. CASE n + 1 \in 0..N
    <3>1. n + 1 \in 1..N /\ n \in 0..N /\ (n + 1) - 1 = n
      BY <1>1, <2>1
    <3>2. J[n] = f[n] /\ J[n + 1] = flatten[n + 1]
      BY <1>14, <3>1
    <3>3. f[n + 1] = f[n] \o ss[n + 1]
      BY <1>6, <3>1
    <3>4. CASE n = 0
      <4>1. flatten[1] = ss[1]
        BY <1>11, <3>1, <3>4
      <4> QED
        BY <1>7, <3>1, <3>2, <3>4, <4>1
    <3>5. CASE n # 0
      <4>1. n + 1 # 1 /\ J[n] = flatten[n]
        BY <3>1, <3>5
      <4>2. flatten[n + 1] = flatten[n] \o ss[n + 1]
        BY <1>11, <3>1, <4>1
      <4>3. J[n + 1] = f[n + 1]
        BY <3>2, <3>3, <4>1, <4>2
      <4> QED
        BY <4>3
    <3> QED
      BY <3>4, <3>5
  <2>2. CASE n + 1 \notin 0..N
    BY <2>2
  <2> QED
    BY <2>1, <2>2
<1>15. Nat \subseteq T
  <2> HIDE DEF T
  <2> QED
    BY <1>13, <1>14, SetInduction
<1>16. \A i \in 0..N : J[i] = f[i]
  <2>1. \A i \in 0..N : i \in Nat
    BY <1>1
  <2> HIDE DEF J, N
  <2> QED
    BY <1>15, <2>1
<1>17. J[0] = <<>>
  BY <1>1
<1>18. FlattenSeq(ss) = J[N]
  <2>1. CASE N = 0
    BY <1>12, <1>17, <2>1
  <2>2. CASE N # 0
    BY <1>1, <1>12, <2>2
  <2> QED
    BY <2>1, <2>2
<1>19. Joined(ss) = J
  BY <1>12
<1> HIDE DEF J, T
<1>20. ASSUME NEW i \in 0..N - 1 PROVE J[i + 1] = J[i] \o ss[i + 1]
  <2>1. i + 1 \in 1..N /\ i + 1 \in 0..N /\ i \in 0..N /\ (i + 1) - 1 = i
    BY <1>1
  <2> QED
    BY <1>6, <1>16, <2>1
<1>21. \A i \in 0..N : J[i] \in Seq(S)
  BY <1>5, <1>16
<1> QED
  BY <1>17, <1>18, <1>19, <1>20, <1>21

(* Sequences that start alike start alike when joined.                     *)
LEMMA JoinedAlike ==
  ASSUME NEW S, NEW ss \in Seq(Seq(S)), NEW tt \in Seq(Seq(S)), NEW k \in Nat,
         k <= Len(ss), k <= Len(tt), \A i \in 1..k : ss[i] = tt[i]
  PROVE  Joined(ss)[k] = Joined(tt)[k]
<1> DEFINE T == {n \in Nat : n <= k => Joined(ss)[n] = Joined(tt)[n]}
<1>1. 0 \in T
  BY JoinedEquations
<1>2. ASSUME NEW n \in Nat, n \in T PROVE n + 1 \in T
  <2>1. CASE n + 1 <= k
    <3>1. /\ n \in 0..Len(ss) - 1 /\ n \in 0..Len(tt) - 1 /\ n <= k
          /\ n + 1 \in 1..k
      BY <2>1
    <3>2. /\ Joined(ss)[n + 1] = Joined(ss)[n] \o ss[n + 1]
          /\ Joined(tt)[n + 1] = Joined(tt)[n] \o tt[n + 1]
      BY <3>1, JoinedEquations
    <3>3. Joined(ss)[n + 1] = Joined(tt)[n + 1]
      BY <1>2, <3>1, <3>2
    <3> QED
      BY <3>3
  <2>2. CASE ~ (n + 1 <= k)
    BY <2>2
  <2> QED
    BY <2>1, <2>2
<1>3. Nat \subseteq T
  <2> HIDE DEF T
  <2> QED
    BY <1>1, <1>2, SetInduction
<1> QED
  BY <1>3

(* Each of them is where those before it end.                              *)
LEMMA JoinedPlaces ==
  ASSUME NEW S, NEW ss \in Seq(Seq(S)), NEW k \in 0..Len(ss)
  PROVE  /\ Joined(ss)[k] \in Seq(S)
         /\ Len(Joined(ss)[k]) <= Len(FlattenSeq(ss))
         /\ \A i \in 1..Len(Joined(ss)[k]) : FlattenSeq(ss)[i] = Joined(ss)[k][i]
         /\ k < Len(ss) =>
              /\ Len(Joined(ss)[k]) + Len(ss[k + 1]) <= Len(FlattenSeq(ss))
              /\ \A i \in 1..Len(ss[k + 1]) :
                   FlattenSeq(ss)[Len(Joined(ss)[k]) + i] = ss[k + 1][i]
<1> DEFINE J == Joined(ss)
           Starts(m, n) == /\ Len(J[m]) <= Len(J[n])
                           /\ \A i \in 1..Len(J[m]) : J[n][i] = J[m][i]
<1>1. /\ Len(ss) \in Nat /\ J[0] = <<>> /\ FlattenSeq(ss) = J[Len(ss)]
      /\ \A i \in 0..Len(ss) - 1 : J[i + 1] = J[i] \o ss[i + 1]
      /\ \A i \in 0..Len(ss) : J[i] \in Seq(S)
      /\ \A i \in 1..Len(ss) : ss[i] \in Seq(S)
  <2>1. Len(ss) \in Nat /\ \A i \in 1..Len(ss) : ss[i] \in Seq(S)
    OBVIOUS
  <2> QED
    BY <2>1, JoinedEquations
<1> HIDE DEF J
<1>2. ASSUME NEW n \in 0..Len(ss) - 1
      PROVE  /\ J[n] \in Seq(S) /\ J[n + 1] \in Seq(S) /\ ss[n + 1] \in Seq(S)
             /\ Len(J[n + 1]) = Len(J[n]) + Len(ss[n + 1])
             /\ \A i \in 1..Len(J[n]) : J[n + 1][i] = J[n][i]
             /\ \A i \in 1..Len(ss[n + 1]) : J[n + 1][Len(J[n]) + i] = ss[n + 1][i]
  <2>1. n \in 0..Len(ss) /\ n + 1 \in 0..Len(ss) /\ n + 1 \in 1..Len(ss)
    BY <1>1
  <2>2. J[n] \in Seq(S) /\ ss[n + 1] \in Seq(S) /\ J[n + 1] = J[n] \o ss[n + 1]
    BY <1>1, <2>1
  <2> DEFINE a == J[n]
             b == J[n + 1]
             t == ss[n + 1]
  <2>3. a \in Seq(S) /\ t \in Seq(S) /\ b = a \o t
    BY <2>2
  <2> HIDE DEF a, b, t
  <2>4. /\ b \in Seq(S) /\ Len(b) = Len(a) + Len(t)
        /\ \A i \in 1..Len(a) : b[i] = a[i]
        /\ \A i \in 1..Len(t) : b[Len(a) + i] = t[i]
    BY <2>3, Concatenation
  <2> QED
    BY <2>3, <2>4 DEF a, b, t
<1>3. ASSUME NEW m \in 0..Len(ss) PROVE Starts(m, Len(ss))
  <2> DEFINE T == {n \in Nat : m + n <= Len(ss) => Starts(m, m + n)}
  <2>1. 0 \in T
    <3>1. m + 0 = m /\ Len(J[m]) \in Nat
      BY <1>1
    <3> QED
      BY <3>1
  <2>2. ASSUME NEW n \in Nat, n \in T PROVE n + 1 \in T
    <3>1. CASE m + (n + 1) <= Len(ss)
      <4>1. m + n \in 0..Len(ss) - 1 /\ m + (n + 1) = (m + n) + 1 /\ m + n <= Len(ss)
        BY <1>1, <3>1
      <4>2. Starts(m, m + n)
        BY <2>2, <4>1
      <4> DEFINE a == J[m]
                 b == J[m + n]
                 c == J[m + (n + 1)]
      <4>3. /\ a \in Seq(S) /\ b \in Seq(S) /\ c \in Seq(S) /\ ss[(m + n) + 1] \in Seq(S)
            /\ Len(c) = Len(b) + Len(ss[(m + n) + 1])
            /\ \A i \in 1..Len(b) : c[i] = b[i]
        BY <1>1, <1>2, <4>1
      <4>4. Len(a) <= Len(b) /\ \A i \in 1..Len(a) : b[i] = a[i]
        BY <4>2
      <4>5. Len(a) <= Len(c) /\ \A i \in 1..Len(a) : c[i] = a[i]
        <5> HIDE DEF a, b, c
        <5> QED
          BY <4>3, <4>4
      <4> QED
        BY <4>5
    <3>2. CASE ~ (m + (n + 1) <= Len(ss))
      BY <3>2
    <3> QED
      BY <3>1, <3>2
  <2>3. Nat \subseteq T
    <3> HIDE DEF T
    <3> QED
      BY <2>1, <2>2, SetInduction
  <2>4. Len(ss) - m \in Nat /\ m + (Len(ss) - m) = Len(ss)
    BY <1>1
  <2>5. Len(ss) - m \in T
    BY <2>3, <2>4
  <2> QED
    BY <1>1, <2>4, <2>5
<1>4. J[k] \in Seq(S) /\ Starts(k, Len(ss))
  BY <1>1, <1>3
<1>5. ASSUME k < Len(ss)
      PROVE  /\ Len(J[k]) + Len(ss[k + 1]) <= Len(J[Len(ss)])
             /\ \A i \in 1..Len(ss[k + 1]) :
                  J[Len(ss)][Len(J[k]) + i] = ss[k + 1][i]
  <2>1. k \in 0..Len(ss) - 1 /\ k + 1 \in 0..Len(ss)
    BY <1>1, <1>5
  <2> DEFINE a == J[k]
             b == J[k + 1]
             c == J[Len(ss)]
             t == ss[k + 1]
  <2>2. /\ a \in Seq(S) /\ b \in Seq(S) /\ t \in Seq(S) /\ Len(b) = Len(a) + Len(t)
        /\ \A i \in 1..Len(t) : b[Len(a) + i] = t[i]
    BY <1>2, <2>1
  <2>3. Len(b) <= Len(c) /\ \A i \in 1..Len(b) : c[i] = b[i]
    BY <1>3, <2>1
  <2>4. c \in Seq(S)
    BY <1>1
  <2> HIDE DEF a, b, c, t
  <2>5. Len(a) + Len(t) <= Len(c) /\ \A i \in 1..Len(t) : c[Len(a) + i] = t[i]
    BY <2>2, <2>3, <2>4
  <2> QED
    BY <2>5 DEF a, c, t
<1> QED
  BY <1>1, <1>4, <1>5 DEF J
=============================================================================
