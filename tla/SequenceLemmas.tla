--------------------------- MODULE SequenceLemmas ---------------------------
(***************************************************************************)
(* Lemmas about sequences that the proofs about the rings and about the    *)
(* whole system share.                                                     *)
(***************************************************************************)
EXTENDS Integers, Concatenation, SequenceTheorems, WellFoundedInduction, TLAPS

(* The n elements of s that follow the first a. *)
Window(s, a, n) == SubSeq(s, a + 1, a + n)

(* A function on 1 .. n is a sequence of length n. *)
LEMMA FcnIsSeq ==
    ASSUME NEW S, NEW n \in Nat, NEW f \in [1 .. n -> S]
    PROVE  f \in Seq(S) /\ Len(f) = n
<1>1. f \in Seq(S)
  BY SeqDef
<1>2. Len(f) \in Nat /\ 1 .. Len(f) = 1 .. n
  BY <1>1, LenProperties
<1> QED
  BY <1>1, <1>2

(* A sequence is one over its own elements. *)
LEMMA SeqOfElements ==
    ASSUME NEW S, NEW s \in Seq(S)
    PROVE  s \in Seq({s[i] : i \in DOMAIN s})
<1>1. Len(s) \in Nat /\ DOMAIN s = 1 .. Len(s) /\ s \in [1 .. Len(s) -> S]
  BY LenProperties
<1>2. s \in [1 .. Len(s) -> {s[i] : i \in DOMAIN s}]
  BY <1>1
<1> QED
  BY <1>1, <1>2, FcnIsSeq

(* Appending, whatever the element. *)
LEMMA AppendAny ==
    ASSUME NEW S, NEW s \in Seq(S), NEW e
    PROVE  /\ Append(s, e) \in Seq(S \cup {e})
           /\ Len(Append(s, e)) = Len(s) + 1
           /\ \A i \in 1 .. Len(s) : Append(s, e)[i] = s[i]
           /\ Append(s, e)[Len(s) + 1] = e
<1>1. s \in Seq(S \cup {e}) /\ e \in S \cup {e}
  BY SeqMonotonic
<1> QED
  BY <1>1, AppendProperties

LEMMA WindowProperties ==
    ASSUME NEW S, NEW s \in Seq(S), NEW a \in Nat, NEW n \in Nat, a + n <= Len(s)
    PROVE  /\ Window(s, a, n) \in Seq(S)
           /\ Len(Window(s, a, n)) = n
           /\ \A i \in 1 .. n : Window(s, a, n)[i] = s[a + i]
<1>1. Len(s) \in Nat /\ \A i \in (a + 1) .. (a + n) : s[i] \in S
  BY LenProperties, ElementOfSeq
<1>2. a + 1 \in Int /\ a + n \in Int
  OBVIOUS
<1>3. /\ SubSeq(s, a + 1, a + n) \in Seq(S)
      /\ Len(SubSeq(s, a + 1, a + n))
            = IF a + 1 <= a + n THEN (a + n) - (a + 1) + 1 ELSE 0
      /\ \A i \in 1 .. (a + n) - (a + 1) + 1 :
            SubSeq(s, a + 1, a + n)[i] = s[(a + 1) + i - 1]
  BY <1>1, <1>2, SubSeqProperties
<1>4. ASSUME NEW i \in 1 .. n PROVE SubSeq(s, a + 1, a + n)[i] = s[a + i]
  <2>1. i \in 1 .. (a + n) - (a + 1) + 1 /\ (a + 1) + i - 1 = a + i
    OBVIOUS
  <2> QED
    BY <1>3, <2>1
<1>5. Len(SubSeq(s, a + 1, a + n)) = n
  BY <1>3
<1> QED
  BY <1>3, <1>4, <1>5 DEF Window

(* What reads like a window is one. *)
LEMMA IsWindow ==
    ASSUME NEW S, NEW s \in Seq(S), NEW a \in Nat, NEW n \in Nat, a + n <= Len(s),
           NEW q \in Seq(S), Len(q) = n, \A i \in 1 .. n : q[i] = s[a + i]
    PROVE  q = Window(s, a, n)
<1> DEFINE w == Window(s, a, n)
<1>1. w \in Seq(S) /\ Len(w) = n /\ \A i \in 1 .. n : w[i] = s[a + i]
  BY WindowProperties
<1> HIDE DEF w
<1>2. \A i \in 1 .. Len(q) : q[i] = w[i]
  BY <1>1, Zenon
<1>3. q = w
  BY <1>1, <1>2, SeqEqual
<1> QED
  BY <1>3 DEF w

(* A window splits anywhere. *)
LEMMA WindowSplit ==
    ASSUME NEW S, NEW s \in Seq(S), NEW a \in Nat, NEW m \in Nat, NEW n \in Nat,
           a + m + n <= Len(s)
    PROVE  Window(s, a, m + n) = Window(s, a, m) \o Window(s, a + m, n)
<1> DEFINE w == Window(s, a, m + n)
           u == Window(s, a, m)
           v == Window(s, a + m, n)
           c == u \o v
<1>1. /\ a + (m + n) <= Len(s) /\ m + n \in Nat /\ a + m <= Len(s)
      /\ a + m \in Nat /\ (a + m) + n <= Len(s)
  BY LenProperties
<1>2. w \in Seq(S) /\ Len(w) = m + n /\ \A i \in 1 .. m + n : w[i] = s[a + i]
  BY <1>1, WindowProperties
<1>3. u \in Seq(S) /\ Len(u) = m /\ \A i \in 1 .. m : u[i] = s[a + i]
  BY <1>1, WindowProperties
<1>4. v \in Seq(S) /\ Len(v) = n /\ \A i \in 1 .. n : v[i] = s[(a + m) + i]
  BY <1>1, WindowProperties
<1>5. /\ c \in Seq(S) /\ Len(c) = m + n
      /\ \A i \in 1 .. m + n : c[i] = IF i <= m THEN u[i] ELSE v[i - m]
  <2> HIDE DEF u, v
  <2> QED
    BY <1>3, <1>4, ConcatProperties
<1> HIDE DEF c, u, v, w
<1>6. ASSUME NEW i \in 1 .. m + n PROVE w[i] = c[i]
  <2>1. CASE i <= m
    BY <1>2, <1>3, <1>5, <2>1
  <2>2. CASE i > m
    <3>1. i - m \in 1 .. n /\ (a + m) + (i - m) = a + i /\ ~(i <= m)
      BY <2>2
    <3>2. c[i] = v[i - m] /\ v[i - m] = s[(a + m) + (i - m)]
      BY <1>4, <1>5, <3>1
    <3> QED
      BY <1>2, <3>1, <3>2
  <2> QED
    BY <2>1, <2>2
<1>7. w = c
  BY <1>2, <1>5, <1>6, SeqEqual
<1> QED
  BY <1>7 DEF c, u, v, w

(* The whole is a window, and the empty sequence is. *)
LEMMA WindowWhole ==
    ASSUME NEW S, NEW s \in Seq(S)
    PROVE  Window(s, 0, Len(s)) = s /\ Window(s, 0, 0) = <<>>
<1>1. Len(s) \in Nat /\ <<>> \in Seq(S) /\ Len(<<>>) = 0
  BY LenProperties, EmptySeq
<1>2. s = Window(s, 0, Len(s))
  BY <1>1, IsWindow
<1>3. <<>> = Window(s, 0, 0)
  <2> DEFINE e == <<>>
  <2>1. e \in Seq(S) /\ Len(e) = 0 /\ 0 + 0 <= Len(s) /\ 0 \in Nat
    BY <1>1
  <2>2. \A i \in 1 .. 0 : e[i] = s[0 + i]
    OBVIOUS
  <2> HIDE DEF e
  <2>3. e = Window(s, 0, 0)
    BY <2>1, <2>2, IsWindow
  <2> QED
    BY <2>3 DEF e
<1> QED
  BY <1>2, <1>3

(* Appending leaves the windows before the end alone. *)
LEMMA WindowAppend ==
    ASSUME NEW S, NEW s \in Seq(S), NEW x \in S, NEW a \in Nat, NEW n \in Nat,
           a + n <= Len(s)
    PROVE  /\ Window(Append(s, x), a, n) = Window(s, a, n)
           /\ a + n = Len(s) => Window(Append(s, x), a, n + 1) = Window(s, a, n) \o <<x>>
<1> DEFINE t == Append(s, x)
           w == Window(s, a, n)
           y == <<x>>
           c == w \o y
<1>1. /\ t \in Seq(S) /\ Len(t) = Len(s) + 1 /\ t[Len(s) + 1] = x
      /\ \A i \in 1 .. Len(s) : t[i] = s[i]
  BY AppendProperties
<1>2. Len(s) \in Nat /\ w \in Seq(S) /\ Len(w) = n /\ \A i \in 1 .. n : w[i] = s[a + i]
  BY LenProperties, WindowProperties
<1>3. y \in Seq(S) /\ Len(y) = 1 /\ y[1] = x
  OBVIOUS
<1>4. /\ c \in Seq(S) /\ Len(c) = n + 1
      /\ \A i \in 1 .. n + 1 : c[i] = IF i <= n THEN w[i] ELSE y[i - n]
  <2> HIDE DEF w, y
  <2>1. /\ c \in Seq(S) /\ Len(c) = Len(w) + Len(y)
        /\ \A i \in 1 .. Len(w) + Len(y) : c[i] = IF i <= Len(w) THEN w[i] ELSE y[i - Len(w)]
    <3>1. w \in Seq(S) /\ y \in Seq(S)
      BY <1>2, <1>3
    <3> QED
      BY <3>1, ConcatProperties
  <2> HIDE DEF c
  <2> QED
    BY <1>2, <1>3, <2>1
<1> HIDE DEF t, w, y, c
<1>5. ASSUME NEW i \in 1 .. n PROVE w[i] = t[a + i]
  <2>1. a + i \in 1 .. Len(s)
    BY <1>2
  <2> QED
    BY <1>1, <1>2, <2>1
<1>6. w = Window(t, a, n)
  <2>1. a + n <= Len(t) /\ t \in Seq(S) /\ w \in Seq(S) /\ Len(w) = n
    BY <1>1, <1>2
  <2>2. \A i \in 1 .. n : w[i] = t[a + i]
    BY <1>5
  <2> QED
    BY <2>1, <2>2, IsWindow
<1>7. ASSUME a + n = Len(s) PROVE Window(t, a, n + 1) = c
  <2>1. ASSUME NEW i \in 1 .. n + 1 PROVE c[i] = t[a + i]
    <3>1. CASE i \in 1 .. n
      BY <1>4, <1>5, <3>1
    <3>2. CASE i = n + 1
      <4>1. c[i] = y[1]
        BY <1>4, <3>2
      <4>2. a + i = Len(s) + 1
        BY <1>7, <3>2
      <4> QED
        BY <1>1, <1>3, <4>1, <4>2
    <3> QED
      BY <3>1, <3>2
  <2>2. a + (n + 1) <= Len(t) /\ n + 1 \in Nat
    BY <1>1, <1>2, <1>7
  <2> QED
    BY <1>1, <1>4, <2>1, <2>2, IsWindow
<1> QED
  BY <1>6, <1>7 DEF t, w, y, c

LEMMA PrefixSplit ==
    ASSUME NEW S, NEW s \in Seq(S), NEW a \in Nat, NEW n \in Nat, a + n <= Len(s)
    PROVE  Window(s, 0, a + n) = Window(s, 0, a) \o Window(s, a, n)
<1> DEFINE z == 0
<1>1. z \in Nat /\ z + a + n <= Len(s) /\ z + a = a
  BY LenProperties
<1> HIDE DEF z
<1>2. Window(s, z, a + n) = Window(s, z, a) \o Window(s, z + a, n)
  BY <1>1, WindowSplit
<1> QED
  BY <1>1, <1>2 DEF z

(* A window of a window is one. *)
LEMMA WindowOfWindow ==
    ASSUME NEW S, NEW s \in Seq(S), NEW a \in Nat, NEW k \in Nat, a + k <= Len(s),
           NEW w, w = Window(s, a, k), NEW b \in Nat, NEW n \in Nat, b + n <= k
    PROVE  Window(w, b, n) = Window(s, a + b, n)
<1> DEFINE u == Window(s, a + b, n)
<1>1. w \in Seq(S) /\ Len(w) = k /\ \A i \in 1 .. k : w[i] = s[a + i]
  BY WindowProperties
<1>2. a + b \in Nat /\ (a + b) + n <= Len(s)
  BY LenProperties
<1>3. u \in Seq(S) /\ Len(u) = n /\ \A i \in 1 .. n : u[i] = s[(a + b) + i]
  BY <1>2, WindowProperties
<1> HIDE DEF u
<1>4. ASSUME NEW i \in 1 .. n PROVE u[i] = w[b + i]
  <2>1. b + i \in 1 .. k /\ a + (b + i) = (a + b) + i
    OBVIOUS
  <2> QED
    BY <1>1, <1>3, <2>1
<1>5. w \in Seq(S) /\ u \in Seq(S) /\ Len(u) = n /\ b + n <= Len(w)
  BY <1>1, <1>3
<1>6. u = Window(w, b, n)
  BY <1>4, <1>5, IsWindow
<1> QED
  BY <1>6 DEF u

(* Taking n elements from the front of a window leaves the rest of it. *)
LEMMA WindowTake ==
    ASSUME NEW S, NEW s \in Seq(S), NEW a \in Nat, NEW n \in Nat, NEW m \in Nat,
           a + n + m <= Len(s), NEW q, q = Window(s, a, n + m)
    PROVE  /\ Len(q) = n + m
           /\ Window(s, a, n) = Window(q, 0, n)
           /\ Window(s, a + n, m) = Window(q, n, m)
<1>1. Len(s) \in Nat /\ a + n <= Len(s) /\ a + (n + m) <= Len(s) /\ n + m \in Nat
  BY LenProperties
<1>2. Len(q) = n + m
  BY <1>1, WindowProperties
<1>3. Window(q, 0, n) = Window(s, a, n)
  <2> DEFINE z == 0
  <2>1. z \in Nat /\ z + n <= n + m /\ a + z = a
    OBVIOUS
  <2> HIDE DEF z
  <2>2. Window(q, z, n) = Window(s, a + z, n)
    BY <1>1, <2>1, WindowOfWindow
  <2> QED
    BY <2>1, <2>2 DEF z
<1>4. Window(q, n, m) = Window(s, a + n, m)
  BY <1>1, WindowOfWindow
<1> QED
  BY <1>2, <1>3, <1>4

-----------------------------------------------------------------------------
(* Induction over the natural numbers, for a set instead of a predicate. *)

LEMMA LessThanWellFounded == IsWellFoundedOn({ss \in Nat \X Nat : ss[1] < ss[2]}, Nat)
  BY NatLessThanWellFounded, Zenon DEF OpToRel

LEMMA LeastNumber ==
    ASSUME NEW T, T \subseteq Nat, T # {}
    PROVE  \E x \in T : \A y \in T : x <= y
<1>1. PICK x \in T : \A y \in T : ~(<<y, x>> \in {ss \in Nat \X Nat : ss[1] < ss[2]})
  BY LessThanWellFounded, WFMin
<1>2. \A y \in T : ~(y < x)
  BY <1>1
<1> QED
  BY <1>1, <1>2

LEMMA SetInduction ==
    ASSUME NEW T, 0 \in T, \A n \in Nat : n \in T => n + 1 \in T
    PROVE  Nat \subseteq T
<1> SUFFICES ASSUME NEW m \in Nat, m \notin T PROVE FALSE
  OBVIOUS
<1> DEFINE U == Nat \ T
<1>1. U \subseteq Nat /\ U # {}
  OBVIOUS
<1> HIDE DEF U
<1>2. PICK x \in U : \A y \in U : x <= y
  BY <1>1, LeastNumber
<1>3. x \in Nat /\ x \notin T /\ x # 0
  BY <1>2 DEF U
<1>4. x - 1 \in Nat /\ x - 1 \notin U
  BY <1>2, <1>3
<1>5. x - 1 \in T /\ (x - 1) + 1 = x
  BY <1>3, <1>4 DEF U
<1> QED
  BY <1>3, <1>4, <1>5

-----------------------------------------------------------------------------
(* Concat: the recursive function in its definition exists and is unique,  *)
(* so that it obeys the recursion equations.                               *)

IsConcat(f, s, n) == f = [i \in 0 .. n |-> IF i = 0 THEN <<>> ELSE f[i - 1] \o s[i]]

LEMMA IsConcatFacts ==
    ASSUME NEW f, NEW s, NEW n \in Nat, IsConcat(f, s, n)
    PROVE  f[0] = <<>> /\ \A i \in 1 .. n : f[i] = f[i - 1] \o s[i]
  BY DEF IsConcat

LEMMA ConcatChosen ==
    ASSUME NEW s, NEW n
    PROVE  Concat(s, n) = (CHOOSE f : IsConcat(f, s, n))[n]
  BY DEF Concat, IsConcat

LEMMA ConcatExists == \A s : \A n \in Nat : \E f : IsConcat(f, s, n)
<1> SUFFICES ASSUME NEW s PROVE \A n \in Nat : \E f : IsConcat(f, s, n)
  OBVIOUS
<1> DEFINE T == {n \in Nat : \E f : IsConcat(f, s, n)}
<1>1. 0 \in T
  <2>1. IsConcat([i \in 0 .. 0 |-> <<>>], s, 0)
    BY DEF IsConcat
  <2> QED
    BY <2>1
<1>2. ASSUME NEW n \in Nat, n \in T PROVE n + 1 \in T
  <2>1. PICK f : IsConcat(f, s, n)
    BY <1>2
  <2> DEFINE x == f[n] \o s[n + 1]
             g == [i \in 0 .. n + 1 |-> IF i = n + 1 THEN x ELSE f[i]]
  <2>2. f[0] = <<>> /\ \A i \in 1 .. n : f[i] = f[i - 1] \o s[i]
    BY <2>1, IsConcatFacts
  <2> HIDE DEF x
  <2>3. \A i \in 0 .. n + 1 : g[i] = IF i = 0 THEN <<>> ELSE g[i - 1] \o s[i]
    <3> TAKE i \in 0 .. n + 1
    <3>1. CASE i = 0
      BY <2>2, <3>1
    <3>2. CASE i \in 1 .. n
      <4>1. g[i] = f[i] /\ g[i - 1] = f[i - 1]
        BY <3>2
      <4> QED
        BY <2>2, <3>2, <4>1
    <3>3. CASE i = n + 1
      <4>1. g[n + 1] = x /\ g[n] = f[n] /\ (n + 1) - 1 = n /\ n + 1 # 0
        OBVIOUS
      <4>2. x = f[n] \o s[n + 1]
        BY DEF x
      <4> HIDE DEF g
      <4> QED
        BY <3>3, <4>1, <4>2
    <3> QED
      BY <3>1, <3>2, <3>3
  <2>4. g = [i \in 0 .. n + 1 |-> g[i]]
    OBVIOUS
  <2> HIDE DEF g
  <2>5. IsConcat(g, s, n + 1)
    BY <2>3, <2>4 DEF IsConcat
  <2> QED
    BY <2>5
<1> HIDE DEF T
<1>3. Nat \subseteq T
  BY <1>1, <1>2, SetInduction
<1> QED
  BY <1>3 DEF T

(* Two such functions agree as far as their arguments do. *)
LEMMA IsConcatAgree ==
    ASSUME NEW s, NEW t, NEW m \in Nat, NEW n \in Nat,
           NEW f, IsConcat(f, s, m), NEW g, IsConcat(g, t, n)
    PROVE  \A k \in Nat : k <= m /\ k <= n /\ (\A i \in 1 .. k : s[i] = t[i]) => f[k] = g[k]
<1> SUFFICES ASSUME NEW k \in Nat, k <= m, k <= n, \A i \in 1 .. k : s[i] = t[i]
             PROVE  f[k] = g[k]
  OBVIOUS
<1> DEFINE T == {j \in Nat : j <= k => f[j] = g[j]}
<1>1. /\ f[0] = <<>> /\ \A i \in 1 .. m : f[i] = f[i - 1] \o s[i]
      /\ g[0] = <<>> /\ \A i \in 1 .. n : g[i] = g[i - 1] \o t[i]
  <2>1. f[0] = <<>> /\ \A i \in 1 .. m : f[i] = f[i - 1] \o s[i]
    BY IsConcatFacts, Zenon
  <2>2. g[0] = <<>> /\ \A i \in 1 .. n : g[i] = g[i - 1] \o t[i]
    BY IsConcatFacts, Zenon
  <2> QED
    BY <2>1, <2>2
<1>2. 0 \in T
  BY <1>1
<1>3. ASSUME NEW j \in Nat, j \in T PROVE j + 1 \in T
  <2> SUFFICES ASSUME j + 1 <= k PROVE f[j + 1] = g[j + 1]
    OBVIOUS
  <2>1. f[j] = g[j] /\ s[j + 1] = t[j + 1] /\ (j + 1) - 1 = j
    BY <1>3
  <2>2. j + 1 \in 1 .. m /\ j + 1 \in 1 .. n
    OBVIOUS
  <2>3. f[j + 1] = f[(j + 1) - 1] \o s[j + 1] /\ g[j + 1] = g[(j + 1) - 1] \o t[j + 1]
    BY <1>1, <2>2, Zenon
  <2> QED
    BY <2>1, <2>3
<1> HIDE DEF T
<1>4. k \in T
  BY <1>2, <1>3, SetInduction
<1> QED
  BY <1>4 DEF T

(* The recursion equations. *)
LEMMA ConcatStep ==
    ASSUME NEW s
    PROVE  /\ Concat(s, 0) = <<>>
           /\ \A n \in Nat : Concat(s, n + 1) = Concat(s, n) \o s[n + 1]
<1>1. Concat(s, 0) = <<>>
  <2> DEFINE f == CHOOSE f : IsConcat(f, s, 0)
  <2>1. IsConcat(f, s, 0)
    BY ConcatExists
  <2> HIDE DEF f
  <2>2. f[0] = <<>>
    BY <2>1, IsConcatFacts
  <2> QED
    BY <2>2, ConcatChosen DEF f
<1>2. ASSUME NEW n \in Nat PROVE Concat(s, n + 1) = Concat(s, n) \o s[n + 1]
  <2> DEFINE f == CHOOSE f : IsConcat(f, s, n)
             m == n + 1
             g == CHOOSE g : IsConcat(g, s, m)
  <2>1. m \in Nat /\ n <= m /\ IsConcat(f, s, n) /\ IsConcat(g, s, m)
    BY ConcatExists
  <2>2. Concat(s, n) = f[n] /\ Concat(s, m) = g[m]
    BY ConcatChosen
  <2> HIDE DEF f, g
  <2>3. \A k \in Nat : k <= n /\ k <= m /\ (\A i \in 1 .. k : s[i] = s[i]) => f[k] = g[k]
    BY <2>1, IsConcatAgree
  <2>4. \A i \in 1 .. m : g[i] = g[i - 1] \o s[i]
    BY <2>1, IsConcatFacts
  <2>5. m \in 1 .. m /\ m - 1 = n
    OBVIOUS
  <2>6. g[m] = g[n] \o s[m]
    BY <2>4, <2>5
  <2> QED
    <3>1. f[n] = g[n]
      BY <2>1, <2>3
    <3> QED
      BY <2>2, <2>6, <3>1
<1> QED
  BY <1>1, <1>2

(* Concat looks at the first n sequences only. *)
LEMMA ConcatSame ==
    ASSUME NEW s, NEW t, NEW n \in Nat, \A i \in 1 .. n : s[i] = t[i]
    PROVE  Concat(s, n) = Concat(t, n)
<1> DEFINE f == CHOOSE f : IsConcat(f, s, n)
           g == CHOOSE g : IsConcat(g, t, n)
<1>1. IsConcat(f, s, n) /\ IsConcat(g, t, n) /\ n <= n
  BY ConcatExists
<1>2. Concat(s, n) = f[n] /\ Concat(t, n) = g[n]
  BY ConcatChosen
<1> HIDE DEF f, g
<1>3. \A k \in Nat : k <= n /\ k <= n /\ (\A i \in 1 .. k : s[i] = t[i]) => f[k] = g[k]
  BY <1>1, IsConcatAgree
<1>4. f[n] = g[n]
  BY <1>1, <1>3
<1> QED
  BY <1>2, <1>4

LEMMA ConcatType ==
    ASSUME NEW S, NEW s, NEW n \in Nat, \A i \in 1 .. n : s[i] \in Seq(S)
    PROVE  Concat(s, n) \in Seq(S)
<1> DEFINE T == {k \in Nat : k <= n => Concat(s, k) \in Seq(S)}
<1>1. 0 \in T
  <2>1. Concat(s, 0) = <<>> /\ <<>> \in Seq(S)
    BY ConcatStep
  <2> QED
    BY <2>1
<1>2. ASSUME NEW k \in Nat, k \in T PROVE k + 1 \in T
  <2> SUFFICES ASSUME k + 1 <= n PROVE Concat(s, k + 1) \in Seq(S)
    OBVIOUS
  <2>1. Concat(s, k) \in Seq(S) /\ s[k + 1] \in Seq(S)
    BY <1>2
  <2>2. Concat(s, k + 1) = Concat(s, k) \o s[k + 1]
    BY ConcatStep
  <2> QED
    BY <2>1, <2>2, ConcatProperties
<1> HIDE DEF T
<1>3. n \in T
  BY <1>1, <1>2, SetInduction
<1> QED
  BY <1>3 DEF T

(* The first m sequences, then the k that follow.  (A predicate of its     *)
(* own, so that the provers do not apply the lemma to its own conclusion.) *)
SplitsAt(s, t, m, k) == Concat(s, m + k) = Concat(s, m) \o Concat(t, k)

LEMMA ConcatSplit ==
    ASSUME NEW S, NEW s, NEW t, NEW m \in Nat, NEW k \in Nat,
           \A i \in 1 .. m + k : s[i] \in Seq(S),
           \A i \in 1 .. k : t[i] = s[m + i]
    PROVE  SplitsAt(s, t, m, k) /\ Concat(t, k) \in Seq(S)
<1> DEFINE T == {j \in Nat : j <= k => SplitsAt(s, t, m, j)}
           u == Concat(s, m)
<1>1. u \in Seq(S)
  BY ConcatType
<1>2. \A i \in 1 .. k : t[i] \in Seq(S)
  <2> TAKE i \in 1 .. k
  <2>1. m + i \in 1 .. m + k
    OBVIOUS
  <2> QED
    BY <2>1
<1>3. 0 \in T
  <2>1. Concat(t, 0) = <<>> /\ m + 0 = m
    BY ConcatStep
  <2>2. u \o <<>> = u
    BY <1>1, ConcatEmptySeq
  <2> QED
    BY <2>1, <2>2 DEF SplitsAt
<1>4. ASSUME NEW j \in Nat, j \in T PROVE j + 1 \in T
  <2> SUFFICES ASSUME j + 1 <= k PROVE Concat(s, m + (j + 1)) = u \o Concat(t, j + 1)
    BY DEF SplitsAt
  <2> DEFINE v == Concat(t, j)
             w == t[j + 1]
             p == m + j
  <2>1. p \in Nat /\ p + 1 = m + (j + 1) /\ w = s[p + 1] /\ w \in Seq(S)
    BY <1>4
  <2>2. v \in Seq(S)
    <3>1. \A i \in 1 .. j : t[i] \in Seq(S)
      BY <1>2
    <3> QED
      BY <3>1, ConcatType
  <2>3. Concat(s, p + 1) = Concat(s, p) \o s[p + 1] /\ Concat(t, j + 1) = v \o w
    BY <2>1, ConcatStep
  <2>4. Concat(s, p) = u \o v
    BY <1>4 DEF SplitsAt
  <2> HIDE DEF u, v, w
  <2>5. (u \o v) \o w = u \o (v \o w)
    <3>1. u \in Seq(S) /\ v \in Seq(S) /\ w \in Seq(S)
      BY <1>1, <2>1, <2>2
    <3> QED
      BY ONLY <3>1, ConcatAssociative
  <2> QED
    BY <2>1, <2>3, <2>4, <2>5
<1>5. Concat(t, k) \in Seq(S)
  BY <1>2, ConcatType
<1> HIDE DEF T
<1>6. k \in T
  BY <1>3, <1>4, SetInduction
<1> QED
  BY <1>5, <1>6 DEF T

(* The first sequence, then the others. *)
LEMMA ConcatCons ==
    ASSUME NEW S, NEW s, NEW t, NEW k \in Nat,
           \A i \in 1 .. k + 1 : s[i] \in Seq(S),
           \A i \in 1 .. k : t[i] = s[i + 1]
    PROVE  Concat(s, k + 1) = s[1] \o Concat(t, k) /\ Concat(t, k) \in Seq(S)
<1> DEFINE one == 1
           z == 0
           x == s[1]
<1>1. /\ one \in Nat /\ one + k = k + 1
      /\ \A i \in 1 .. one + k : s[i] \in Seq(S)
      /\ \A i \in 1 .. k : t[i] = s[one + i]
  OBVIOUS
<1>2. x \in Seq(S)
  <2>1. 1 \in 1 .. k + 1
    OBVIOUS
  <2> QED
    BY <2>1
<1>3. z \in Nat /\ z + 1 = one /\ s[one] = x /\ Concat(s, z) = <<>>
  BY ConcatStep
<1> HIDE DEF one, z, x
<1>4. SplitsAt(s, t, one, k) /\ Concat(t, k) \in Seq(S)
  BY <1>1, ConcatSplit
<1>5. Concat(s, z + 1) = Concat(s, z) \o s[z + 1]
  BY <1>3, ConcatStep
<1>6. <<>> \o x = x
  BY <1>2, ConcatEmptySeq
<1>7. Concat(s, one) = x
  BY <1>3, <1>5, <1>6
<1>8. Concat(s, k + 1) = x \o Concat(t, k)
  BY <1>1, <1>4, <1>7 DEF SplitsAt
<1> QED
  BY <1>4, <1>8 DEF x

(* Empty sequences at the end add nothing. *)
LEMMA ConcatEmptyTail ==
    ASSUME NEW S, NEW s, NEW m \in Nat, NEW n \in Nat, m <= n,
           \A i \in 1 .. m : s[i] \in Seq(S),
           \A i \in m + 1 .. n : s[i] = <<>>
    PROVE  Concat(s, n) = Concat(s, m) /\ Concat(s, m) \in Seq(S)
<1> DEFINE T == {j \in Nat : m + j <= n => Concat(s, m + j) = Concat(s, m)}
           u == Concat(s, m)
<1>1. u \in Seq(S)
  BY ConcatType
<1>2. 0 \in T
  OBVIOUS
<1>3. ASSUME NEW j \in Nat, j \in T PROVE j + 1 \in T
  <2> SUFFICES ASSUME m + (j + 1) <= n PROVE Concat(s, m + (j + 1)) = u
    OBVIOUS
  <2> DEFINE k == m + j
  <2>1. k \in Nat /\ m + (j + 1) = k + 1 /\ s[k + 1] = <<>> /\ Concat(s, k) = u
    BY <1>3
  <2>2. Concat(s, k + 1) = Concat(s, k) \o s[k + 1]
    BY <2>1, ConcatStep
  <2> HIDE DEF u
  <2>3. u \o <<>> = u
    BY <1>1, ConcatEmptySeq
  <2> QED
    BY <2>1, <2>2, <2>3
<1> HIDE DEF T
<1>4. n - m \in T
  BY <1>2, <1>3, SetInduction
<1> QED
  BY <1>1, <1>4 DEF T

-----------------------------------------------------------------------------
(* Pick *)

LEMMA OnlyIfType == \A S : \A x \in S : \A w : OnlyIf(w, x) \in Seq(S)
<1> SUFFICES ASSUME NEW S, NEW x \in S, NEW w PROVE OnlyIf(w, x) \in Seq(S)
  OBVIOUS
<1>1. <<x>> \in Seq(S) /\ <<>> \in Seq(S)
  OBVIOUS
<1> QED
  BY <1>1 DEF OnlyIf

(* Pick as the concatenation it is defined to be. *)
LEMMA PickConcat ==
    ASSUME NEW A, NEW s \in Seq(A), NEW S
    PROVE  \E g : /\ Pick(s, S) = Concat(g, Len(s))
                  /\ \A i \in 1 .. Len(s) : g[i] = OnlyIf(i \in S, s[i]) /\ g[i] \in Seq(A)
<1> DEFINE g == [i \in DOMAIN s |-> OnlyIf(i \in S, s[i])]
<1>1. DOMAIN s = 1 .. Len(s) /\ \A i \in 1 .. Len(s) : s[i] \in A
  BY ElementOfSeq
<1>2. \A i \in 1 .. Len(s) : g[i] = OnlyIf(i \in S, s[i])
  BY <1>1
<1>3. \A i \in 1 .. Len(s) : OnlyIf(i \in S, s[i]) \in Seq(A)
  BY <1>1, OnlyIfType
<1>4. Pick(s, S) = Concat(g, Len(s))
  BY DEF Pick
<1> HIDE DEF g
<1> QED
  BY <1>2, <1>3, <1>4

(* An element after the last position picked from is not picked. *)
LEMMA PickAppend ==
    ASSUME NEW A, NEW s \in Seq(A), NEW x \in A, NEW S, S \subseteq 1 .. Len(s)
    PROVE  Pick(Append(s, x), S) = Pick(s, S)
<1> DEFINE t == Append(s, x)
           n == Len(s)
<1>1. /\ t \in Seq(A) /\ Len(t) = n + 1 /\ n \in Nat
      /\ \A i \in 1 .. n : t[i] = s[i]
  BY AppendProperties
<1> HIDE DEF t, n
<1>2. PICK g : /\ Pick(s, S) = Concat(g, Len(s))
               /\ \A i \in 1 .. Len(s) : g[i] = OnlyIf(i \in S, s[i]) /\ g[i] \in Seq(A)
  BY PickConcat
<1>3. PICK h : /\ Pick(t, S) = Concat(h, Len(t))
               /\ \A i \in 1 .. Len(t) : h[i] = OnlyIf(i \in S, t[i]) /\ h[i] \in Seq(A)
  BY <1>1, PickConcat
<1>4. n + 1 \notin S
  BY <1>1 DEF n
<1>5. h[n + 1] = <<>>
  <2>1. n + 1 \in 1 .. Len(t)
    BY <1>1
  <2> QED
    BY <1>3, <1>4, <2>1 DEF OnlyIf
<1>6. \A i \in 1 .. n : h[i] = g[i]
  BY <1>1, <1>2, <1>3 DEF n
<1>7. Concat(h, n) = Concat(g, n)
  BY <1>1, <1>6, ConcatSame
<1>8. Concat(h, n + 1) = Concat(h, n) \o h[n + 1]
  BY <1>1, ConcatStep
<1>9. Concat(g, n) \in Seq(A)
  <2>1. \A i \in 1 .. n : g[i] \in Seq(A)
    BY <1>2 DEF n
  <2> QED
    BY <1>1, <2>1, ConcatType
<1>10. Concat(g, n) \o <<>> = Concat(g, n)
  BY <1>9, ConcatEmptySeq
<1>11. Pick(t, S) = Pick(s, S)
  BY <1>1, <1>2, <1>3, <1>5, <1>7, <1>8, <1>10 DEF n
<1> QED
  BY <1>11 DEF t

(* Picking the last element too appends it. *)
LEMMA PickLast ==
    ASSUME NEW A, NEW s \in Seq(A), NEW k \in Nat, Len(s) = k + 1, NEW S, S \subseteq 1 .. k
    PROVE  Pick(s, S \cup {k + 1}) = Append(Pick(s, S), s[k + 1]) /\ Pick(s, S) \in Seq(A)
<1> DEFINE R == S \cup {k + 1}
           x == s[k + 1]
<1>1. k + 1 \in R /\ k + 1 \notin S /\ (\A i \in 1 .. k : i \in R <=> i \in S)
  OBVIOUS
<1>2. x \in A
  BY ElementOfSeq
<1> HIDE DEF R
<1>3. PICK g : /\ Pick(s, S) = Concat(g, Len(s))
               /\ \A i \in 1 .. Len(s) : g[i] = OnlyIf(i \in S, s[i]) /\ g[i] \in Seq(A)
  BY PickConcat
<1>4. PICK h : /\ Pick(s, R) = Concat(h, Len(s))
               /\ \A i \in 1 .. Len(s) : h[i] = OnlyIf(i \in R, s[i]) /\ h[i] \in Seq(A)
  BY PickConcat
<1>5. k + 1 \in 1 .. Len(s)
  OBVIOUS
<1>6. g[k + 1] = <<>> /\ h[k + 1] = <<x>>
  BY <1>1, <1>3, <1>4, <1>5 DEF OnlyIf
<1>7. \A i \in 1 .. k : h[i] = g[i]
  <2> TAKE i \in 1 .. k
  <2>1. i \in 1 .. Len(s)
    OBVIOUS
  <2> QED
    BY <1>1, <1>3, <1>4, <2>1 DEF OnlyIf
<1>8. Concat(h, k) = Concat(g, k)
  BY <1>7, ConcatSame
<1>9. Concat(h, k + 1) = Concat(h, k) \o h[k + 1] /\ Concat(g, k + 1) = Concat(g, k) \o g[k + 1]
  BY ConcatStep
<1> DEFINE u == Concat(g, k)
<1>10. u \in Seq(A)
  <2>1. \A i \in 1 .. k : g[i] \in Seq(A)
    BY <1>3
  <2> QED
    BY <2>1, ConcatType
<1> HIDE DEF x, u
<1>11. u \o <<>> = u /\ u \o <<x>> = Append(u, x)
  BY <1>2, <1>10, ConcatEmptySeq, AppendIsConcat
<1>12. Pick(s, S) = u
  BY <1>3, <1>6, <1>9, <1>11 DEF u
<1>13. Pick(s, R) = Append(u, x)
  BY <1>4, <1>6, <1>8, <1>9, <1>11 DEF u
<1> QED
  BY <1>10, <1>12, <1>13 DEF R, x
=============================================================================
