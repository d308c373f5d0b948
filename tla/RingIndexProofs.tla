--------------------------- MODULE RingIndexProofs ---------------------------
(***************************************************************************)
(* Lemmas about the index arithmetic, for every modulus and every ring     *)
(* size that divides it.                                                   *)
(***************************************************************************)
EXTENDS RingIndex, TLAPS

(* Quotient and remainder, for a divisor that is not a literal. *)
LEMMA DivMod ==
    ASSUME NEW n \in Nat \ {0}, NEW x \in Nat
    PROVE  /\ x = n * (x \div n) + (x % n)
           /\ x \div n \in Nat
           /\ (x % n) \in 0 .. n - 1
  BY SMT

(* No multiple of n lies strictly between 0 and n. *)
LEMMA NoMultipleBetween ==
    ASSUME NEW n \in Nat \ {0}, NEW a \in Int, 0 < n * a, n * a < n
    PROVE  FALSE
<1>1. CASE a <= 0
  BY <1>1, SMT
<1>2. CASE a >= 1
  BY <1>2, SMT
<1> QED
  BY <1>1, <1>2

(* A remainder is determined by being one. *)
LEMMA ModUnique ==
    ASSUME NEW n \in Nat \ {0}, NEW x \in Nat, NEW q \in Int, NEW r \in 0 .. n - 1,
           x = n * q + r
    PROVE  x % n = r
<1> DEFINE p == x \div n
           s == x % n
<1>1. x = n * p + s /\ p \in Nat /\ s \in 0 .. n - 1
  BY DivMod
<1> HIDE DEF p, s
<1>2. n * (p - q) = r - s /\ n * (q - p) = s - r
  BY <1>1, SMT
<1>3. ASSUME r > s PROVE FALSE
  <2>1. 0 < r - s /\ r - s < n /\ p - q \in Int
    BY <1>1, <1>3
  <2> QED
    BY <1>2, <2>1, NoMultipleBetween
<1>4. ASSUME s > r PROVE FALSE
  <2>1. 0 < s - r /\ s - r < n /\ q - p \in Int
    BY <1>1, <1>4
  <2> QED
    BY <1>2, <2>1, NoMultipleBetween
<1>5. s = r
  BY <1>1, <1>3, <1>4
<1> QED
  BY <1>5 DEF s

(* A wrapping counter counts modulo 2^32. *)
LEMMA ModInc == \A n \in Nat : (n + 1) % Modulus = WrappingInc(n % Modulus)
<1> SUFFICES ASSUME NEW n \in Nat PROVE (n + 1) % Modulus = WrappingInc(n % Modulus)
  OBVIOUS
<1> DEFINE q == n \div Modulus
           r == n % Modulus
<1>1. Modulus \in Nat \ {0} /\ n + 1 \in Nat
  BY ModulusAssumption
<1>2. n = Modulus * q + r /\ q \in Int /\ r \in 0 .. Modulus - 1
  BY <1>1, DivMod
<1> HIDE DEF q, r
<1>3. CASE r + 1 = Modulus
  <2>1. n + 1 = Modulus * (q + 1) + 0 /\ q + 1 \in Int /\ 0 \in 0 .. Modulus - 1
    BY <1>1, <1>2, <1>3, SMT
  <2>2. (n + 1) % Modulus = 0
    BY <1>1, <2>1, ModUnique
  <2> QED
    BY <1>3, <2>2 DEF WrappingInc, r
<1>4. CASE r + 1 # Modulus
  <2>1. n + 1 = Modulus * q + (r + 1) /\ r + 1 \in 0 .. Modulus - 1
    BY <1>1, <1>2, <1>4, SMT
  <2>2. (n + 1) % Modulus = r + 1
    BY <1>1, <1>2, <2>1, ModUnique
  <2> QED
    BY <1>4, <2>2 DEF WrappingInc, r
<1> QED
  BY <1>3, <1>4

(* Positions differ modulo the ring size if they are less than a full ring *)
(* apart: masking a free-running index never maps two live entries to one  *)
(* slot, also when the index wrapped in between.                           *)
LEMMA SlotDistinct ==
    ASSUME NEW N, RingSize(N), NEW x \in U32, NEW y \in U32,
           WrappingSub(x, y) \in 1 .. N - 1
    PROVE  Slot(x, N) # Slot(y, N)
<1> DEFINE q == x \div N
           p == y \div N
           k == Modulus \div N
<1>1. N \in Nat \ {0} /\ Modulus \in Nat \ {0} /\ Modulus % N = 0
  BY ModulusAssumption DEF RingSize
<1>2. x \in Nat /\ y \in Nat
  BY <1>1 DEF U32
<1>3. x = N * q + (x % N) /\ q \in Nat
  BY <1>1, <1>2, DivMod
<1>4. y = N * p + (y % N) /\ p \in Nat
  BY <1>1, <1>2, DivMod
<1>5. Modulus = N * k /\ k \in Nat
  <2>1. Modulus = N * k + (Modulus % N) /\ k \in Nat
    BY <1>1, DivMod
  <2> HIDE DEF k
  <2>2. N * k \in Int
    BY <1>1, <2>1
  <2> QED
    BY <1>1, <2>1, <2>2
<1>6. SUFFICES ASSUME x % N = y % N PROVE FALSE
  BY DEF Slot
<1>7. (x % N) \in Nat
  BY <1>1, <1>2, DivMod
<1> HIDE DEF q, p, k
<1>8. CASE x >= y
  <2>1. x - y = N * (q - p)
    BY <1>1, <1>3, <1>4, <1>6, <1>7, SMT
  <2>2. 0 < x - y /\ x - y < N
    BY <1>1, <1>2, <1>8 DEF WrappingSub
  <2> QED
    BY <1>1, <1>3, <1>4, <2>1, <2>2, NoMultipleBetween
<1>9. CASE x < y
  <2>1. x + Modulus - y = N * (q + k - p)
    <3> DEFINE r == x % N
    <3>1. N * (q + k - p) = N * q + N * k - N * p
      BY <1>1, <1>3, <1>4, <1>5, SMT
    <3>2. N * q \in Int /\ N * k \in Int /\ N * p \in Int /\ r \in Int
      BY <1>1, <1>3, <1>4, <1>5, <1>7, SMT
    <3>3. x = N * q + r /\ y = N * p + r
      BY <1>3, <1>4, <1>6
    <3> HIDE DEF r
    <3> QED
      BY <1>5, <3>1, <3>2, <3>3, SMT
  <2>2. 0 < x + Modulus - y /\ x + Modulus - y < N
    BY <1>1, <1>2, <1>9 DEF WrappingSub
  <2>3. q + k - p \in Int
    BY <1>3, <1>4, <1>5
  <2> QED
    BY <1>1, <2>1, <2>2, <2>3, NoMultipleBetween
<1> QED
  BY <1>2, <1>8, <1>9

(* A masked index is an index of the array. *)
LEMMA SlotInRange ==
    ASSUME NEW N, RingSize(N), NEW x \in U32
    PROVE  Slot(x, N) \in 0 .. N - 1
<1>1. N \in Nat \ {0} /\ x \in Nat
  BY ModulusAssumption DEF RingSize, U32
<1> QED
  BY <1>1, DivMod DEF Slot

(* The wrapping operations stay within u32. *)
LEMMA WrapTypes ==
    /\ \A x \in U32 : WrappingInc(x) \in U32
    /\ \A x, y \in U32 : WrappingSub(x, y) \in U32
    /\ \A x, n \in U32 : WrappingAdd(x, n) \in U32
  BY ModulusAssumption, SMT DEF U32, WrappingInc, WrappingSub, WrappingAdd

(* Distances add up: if x lies between h and t, going up from h. *)
LEMMA SubSplit ==
    \A h, x, t \in U32 : WrappingSub(x, h) <= WrappingSub(t, h)
        => WrappingSub(t, x) = WrappingSub(t, h) - WrappingSub(x, h)
  BY ModulusAssumption, SMT DEF U32, WrappingSub

LEMMA SubSelf == \A x \in U32 : WrappingSub(x, x) = 0 /\ WrappingAdd(x, 0) = x
  BY ModulusAssumption, SMT DEF U32, WrappingSub, WrappingAdd

(* One step up, below a full turn. *)
LEMMA SubInc ==
    \A h, t \in U32 : WrappingSub(t, h) + 1 < Modulus
        => WrappingSub(WrappingInc(t), h) = WrappingSub(t, h) + 1
  BY ModulusAssumption, SMT DEF U32, WrappingSub, WrappingInc

(* n steps up, below a full turn. *)
LEMMA SubOfAdd ==
    \A h, x, n \in U32 : WrappingSub(x, h) + n < Modulus
        => WrappingSub(WrappingAdd(x, n), h) = WrappingSub(x, h) + n
  BY ModulusAssumption, SMT DEF U32, WrappingSub, WrappingAdd

(* Moving n places towards t shortens the distance by n. *)
LEMMA SubAdd ==
    \A x, t, n \in U32 : n <= WrappingSub(t, x)
        => WrappingSub(t, WrappingAdd(x, n)) = WrappingSub(t, x) - n
  BY ModulusAssumption, SMT DEF U32, WrappingSub, WrappingAdd

LEMMA AddSub == \A x, t \in U32 : WrappingAdd(x, WrappingSub(t, x)) = t
  BY ModulusAssumption, SMT DEF U32, WrappingSub, WrappingAdd

LEMMA AddAdd ==
    \A x, n, i \in U32 : n + i < Modulus
        => WrappingAdd(WrappingAdd(x, n), i) = WrappingAdd(x, n + i)
  BY ModulusAssumption, SMT DEF U32, WrappingAdd

LEMMA IncAdd ==
    \A x, n \in U32 : n + 1 < Modulus
        => WrappingInc(WrappingAdd(x, n)) = WrappingAdd(x, n + 1)
  BY ModulusAssumption, SMT DEF U32, WrappingAdd, WrappingInc
==============================================================================
