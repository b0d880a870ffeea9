---------------------------- MODULE NumberTheorems ----------------------------
(***************************************************************************)
(* Facts about natural numbers that the proofs about the file system and   *)
(* the shell share.  What is proved by induction elsewhere is proved here  *)
(* from a least counterexample.                                            *)
(***************************************************************************)
EXTENDS Integers, FiniteSetsExt, FiniteSetTheorems, TLAPS

Below == {p \in Nat \X Nat : p[1] < p[2]}

(* A set of natural numbers has a least element. *)
LEMMA LeastExists ==
  ASSUME NEW S \in SUBSET Nat, S # {}
  PROVE  \E x \in S : \A y \in S : x <= y
<1>1. IsWellFoundedOn(Below, Nat)
  BY NatLessThanWellFounded DEF OpToRel, Below
<1>2. PICK x \in S : \A y \in S : <<y, x>> \notin Below
  BY <1>1, WFMin
<1>3. ASSUME NEW y \in S PROVE x <= y
  <2>1. <<y, x>> \in Below <=> y < x
    BY DEF Below
  <2>2. QED
    BY <1>2, <2>1
<1>4. QED
  BY <1>3

(* Min gives it. *)
LEMMA MinIsLeast ==
  ASSUME NEW S \in SUBSET Nat, S # {}
  PROVE  Min(S) \in S /\ \A y \in S : Min(S) <= y
BY LeastExists DEF Min

(* The lesser and the greater of two numbers. *)
LEMMA MinOfTwo ==
  ASSUME NEW a \in Int, NEW b \in Int
  PROVE  Min({a, b}) = IF a <= b THEN a ELSE b
BY DEF Min
LEMMA MaxOfTwo ==
  ASSUME NEW a \in Int, NEW b \in Int
  PROVE  Max({a, b}) = IF a >= b THEN a ELSE b
BY DEF Max

(* The greatest element of a set with a bound. *)
LEMMA MaxIsGreatest ==
  ASSUME NEW S \in SUBSET Nat, S # {}, NEW n \in Nat, \A x \in S : x <= n
  PROVE  Max(S) \in S /\ \A y \in S : y <= Max(S)
<1> DEFINE Bounds == {m \in Nat : \A x \in S : x <= m}
<1>1. PICK m \in Bounds : \A k \in Bounds : m <= k
  BY LeastExists
<1>2. m \in S
  <2>1. SUFFICES ASSUME m \notin S PROVE FALSE
    OBVIOUS
  <2>2. \A x \in S : x < m
    BY <1>1, <2>1
  <2>3. m - 1 \in Bounds
    <3>1. PICK x \in S : x < m
      BY <2>2
    <3>2. QED
      BY <2>2, <3>1
  <2>4. QED
    BY <1>1, <2>3
<1>3. QED
  BY <1>1, <1>2 DEF Max

(* Division with a remainder. *)
LEMMA DivMod ==
  ASSUME NEW a \in Nat, NEW b \in Nat \ {0}
  PROVE  a \div b \in Nat /\ a % b \in 0 .. b - 1 /\ a = b * (a \div b) + (a % b)
OBVIOUS

LEMMA DivLess ==
  ASSUME NEW a \in Nat, NEW b \in Nat \ {0}, NEW n \in Nat, a < b * n
  PROVE  a \div b < n
<1>1. a \div b \in Nat /\ a % b \in 0 .. b - 1 /\ a = b * (a \div b) + (a % b)
  BY DivMod
<1>2. b * (a \div b) < b * n
  BY <1>1
<1>3. ASSUME a \div b >= n PROVE FALSE
  BY <1>1, <1>2, <1>3
<1>4. QED
  BY <1>1, <1>3

LEMMA DivBelow ==
  ASSUME NEW a \in Nat, NEW b \in Nat \ {0}, NEW n \in Nat, a \div b < n
  PROVE  a < n * b
<1>1. PICK q \in Nat, r \in 0 .. b - 1 : a = b * q + r /\ q < n
  BY DivMod
<1>2. PICK d \in Nat : n = q + 1 + d
  <2>1. n - q - 1 \in Nat /\ n = q + 1 + (n - q - 1)
    BY <1>1
  <2>2. QED
    BY <2>1
<1>3. n * b = b * q + b + b * d
  BY <1>2
<1>4. b * q \in Nat /\ b * d \in Nat
  OBVIOUS
<1>5. QED
  BY <1>1, <1>3, <1>4

(* Remainders: the only one, of sums, and of numbers less than b apart. *)
LEMMA ModUnique ==
  ASSUME NEW b \in Nat \ {0}, NEW q \in Nat, NEW r \in 0 .. b - 1
  PROVE  (b * q + r) % b = r
<1> DEFINE a == b * q + r
           d == a \div b
<1>1. a \in Nat
  OBVIOUS
<1>2. d \in Nat /\ a % b \in 0 .. b - 1 /\ a = b * d + (a % b)
  BY <1>1, DivMod
<1>3. ~(q < d)
  <2>1. SUFFICES ASSUME q + 1 <= d PROVE FALSE
    BY <1>2
  <2>2. b * (q + 1) <= b * d
    BY <1>2, <2>1
  <2>3. QED
    BY <1>2, <2>2
<1>4. ~(d < q)
  <2>1. SUFFICES ASSUME d + 1 <= q PROVE FALSE
    BY <1>2
  <2>2. b * (d + 1) <= b * q
    BY <1>2, <2>1
  <2>3. QED
    BY <1>2, <2>2
<1>5. d = q
  BY <1>2, <1>3, <1>4
<1>6. QED
  BY <1>2, <1>5

LEMMA ModSum ==
  ASSUME NEW b \in Nat \ {0}, NEW q \in Nat, NEW x \in Nat
  PROVE  (b * q + x) % b = x % b
<1> DEFINE d == x \div b
           r == x % b
<1>1. d \in Nat /\ r \in 0 .. b - 1 /\ x = b * d + r
  BY DivMod
<1>2. b * q + x = b * (q + d) + r /\ q + d \in Nat
  BY <1>1
<1> HIDE DEF d, r
<1>3. (b * (q + d) + r) % b = r
  BY <1>1, <1>2, ModUnique
<1>4. QED
  BY <1>2, <1>3 DEF r

LEMMA ModDistinct ==
  ASSUME NEW b \in Nat \ {0}, NEW x \in Nat, NEW y \in Nat, x < y, y < x + b
  PROVE  x % b # y % b
<1>1. /\ x \div b \in Nat /\ x % b \in 0 .. b - 1 /\ x = b * (x \div b) + (x % b)
      /\ y \div b \in Nat /\ y % b \in 0 .. b - 1 /\ y = b * (y \div b) + (y % b)
  BY DivMod
<1>2. SUFFICES ASSUME x % b = y % b PROVE FALSE
  OBVIOUS
<1> DEFINE d == (y \div b) - (x \div b)
<1>3. d \in Int /\ y - x = b * d
  BY <1>1, <1>2
<1> HIDE DEF d
<1>4. ~(d <= 0)
  BY <1>3
<1>5. ~(d >= 1)
  BY <1>3
<1>6. QED
  BY <1>3, <1>4, <1>5
=============================================================================
