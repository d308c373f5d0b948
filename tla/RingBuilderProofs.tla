-------------------------- MODULE RingBuilderProofs --------------------------
(***************************************************************************)
(* Every ring that is built has the sizes the rings' theorems assume, for  *)
(* every width of the indices, every maximum and every argument.           *)
(***************************************************************************)
EXTENDS RingMasks, RingIndexProofs, SequenceLemmas

-----------------------------------------------------------------------------
(* Powers of two *)

LEMMA Divides ==
    ASSUME NEW n \in Nat \ {0}, NEW x \in Nat
    PROVE  x % n = 0 <=> \E m \in Nat : x = n * m
<1>1. ASSUME x % n = 0 PROVE \E m \in Nat : x = n * m
  <2> DEFINE m == x \div n
  <2>1. x = n * m + (x % n) /\ m \in Nat
    BY DivMod
  <2> HIDE DEF m
  <2>2. x = n * m
    BY <1>1, <2>1
  <2> QED
    BY <2>1, <2>2
<1>2. ASSUME NEW m \in Nat, x = n * m PROVE x % n = 0
  <2> DEFINE z == 0
  <2>1. z \in 0 .. n - 1 /\ x = n * m + z /\ m \in Int
    BY <1>2
  <2> HIDE DEF z
  <2>2. x % n = z
    BY <2>1, ModUnique
  <2> QED
    BY <2>2 DEF z
<1> QED
  BY <1>1, <1>2

LEMMA EvenHalf ==
    ASSUME NEW x \in Nat, x % 2 = 0
    PROVE  \E g \in Nat : x = 2 * g
  BY SMT

(* A divisor of the modulus other than 1 is twice another one. *)
LEMMA HalfOfDivisor ==
    ASSUME NEW p \in 1 .. Modulus, p # 1, Modulus % p = 0
    PROVE  \E g \in Nat \ {0} : p = 2 * g /\ Modulus % g = 0
<1>1. Modulus \in Nat /\ p \in Nat \ {0} /\ p % 2 = 0
  <2>1. \A d \in 1 .. Modulus : Modulus % d = 0 => d = 1 \/ d % 2 = 0
    BY BuilderAssumption
  <2>2. p % 2 = 0
    BY <2>1, Zenon
  <2> QED
    BY <2>2, ModulusAssumption
<1>2. PICK g \in Nat : p = 2 * g
  BY <1>1, EvenHalf
<1>3. PICK m \in Nat : Modulus = p * m
  BY <1>1, Divides
<1>4. g # 0
  BY <1>1, <1>2
<1>5. Modulus = g * (2 * m) /\ 2 * m \in Nat
  BY <1>2, <1>3, SMT
<1>6. Modulus % g = 0
  BY <1>1, <1>4, <1>5, Divides
<1> QED
  BY <1>2, <1>4, <1>6

(* Twice a divisor other than the modulus itself is one. *)
LEMMA TwiceDivisor ==
    ASSUME NEW p \in Nat \ {0}, p < Modulus, Modulus % p = 0
    PROVE  Modulus % (2 * p) = 0
<1>1. Modulus \in Nat \ {0}
  BY ModulusAssumption
<1>2. PICK m \in Nat : Modulus = p * m
  BY <1>1, Divides
<1>3. m # 0 /\ m # 1 /\ m <= Modulus
  BY <1>1, <1>2, SMT
<1>4. Modulus % m = 0
  <2>1. Modulus = m * p
    BY <1>2, SMT
  <2> QED
    BY <1>1, <1>3, <2>1, Divides
<1>5. PICK g \in Nat \ {0} : m = 2 * g
  <2>1. m \in 1 .. Modulus /\ m # 1 /\ Modulus % m = 0
    BY <1>1, <1>3, <1>4
  <2> QED
    BY <2>1, HalfOfDivisor, Zenon
<1>6. Modulus = (2 * p) * g /\ 2 * p \in Nat \ {0}
  BY <1>2, <1>5, SMT
<1> QED
  BY <1>1, <1>6, Divides

LEMMA BuilderConstants ==
    /\ Modulus \in Nat \ {0, 1} /\ U32 = 0 .. Modulus - 1
    /\ SqMax \in Nat \ {0} /\ SqMax < Modulus /\ Modulus % SqMax = 0
    /\ CqDefaultMax = 2 * SqMax /\ CqDefaultMax < Modulus
    /\ EntryArgs \subseteq U32 /\ CqArgs \subseteq U32 /\ Numbers \subseteq U32
    /\ WqFds \subseteq Int
<1>1. RingSize(SqMax) /\ CqDefaultMax = 2 * SqMax /\ RingSize(CqDefaultMax)
  BY BuilderAssumption
<1> QED
  BY <1>1, BuilderAssumption, ModulusAssumption DEF RingSize, U32

(* What next_power_of_two returns for a size that does not overflow: the   *)
(* smallest ring size that holds it, less than twice as large.             *)
LEMMA NextPowerOfTwoIs ==
    ASSUME NEW n \in U32, n # 0, ~Overflows(n)
    PROVE  /\ RingSize(NextPowerOfTwo(n))
           /\ n <= NextPowerOfTwo(n) /\ NextPowerOfTwo(n) < 2 * n
           /\ \A q \in PowersOfTwo : q >= n => NextPowerOfTwo(n) <= q
<1> DEFINE T == {p \in PowersOfTwo : p >= n}
           p == NextPowerOfTwo(n)
<1>1. /\ Modulus \in Nat \ {0, 1} /\ n \in Nat /\ 2 * n <= Modulus
      /\ PowersOfTwo = {q \in 1 .. Modulus - 1 : Modulus % q = 0}
  BY BuilderConstants DEF Overflows, PowersOfTwo
<1>2. PICK h \in Nat \ {0} : Modulus = 2 * h /\ Modulus % h = 0
  <2>1. Modulus % Modulus = 0
    <3>1. Modulus = Modulus * 1
      BY <1>1
    <3> QED
      BY <1>1, <3>1, Divides
  <2>2. Modulus \in 1 .. Modulus /\ Modulus # 1 /\ Modulus % Modulus = 0
    BY <1>1, <2>1
  <2> QED
    BY <2>2, HalfOfDivisor, Zenon
<1>3. h \in T
  <2>1. h \in 1 .. Modulus - 1 /\ h >= n
    BY <1>1, <1>2
  <2> QED
    BY <1>1, <1>2, <2>1
<1>4. PICK x \in T : \A y \in T : x <= y
  <2>1. T \subseteq Nat /\ T # {}
    <3>1. PowersOfTwo \subseteq Nat
      BY <1>1
    <3> QED
      BY <1>3, <3>1, Zenon
  <2> HIDE DEF T
  <2> QED
    BY <2>1, LeastNumber
<1>5. x \in PowersOfTwo /\ x >= n /\ \A q \in PowersOfTwo : q >= n => x <= q
  BY <1>4
<1>6. p = CHOOSE r \in PowersOfTwo : r >= n /\ \A q \in PowersOfTwo : q >= n => r <= q
  BY DEF NextPowerOfTwo
<1>7. p \in PowersOfTwo /\ p >= n /\ \A q \in PowersOfTwo : q >= n => p <= q
  BY <1>5, <1>6
<1> HIDE DEF p, T
<1>8. p \in 1 .. Modulus - 1 /\ Modulus % p = 0
  BY <1>1, <1>7
<1>9. p < 2 * n
  <2> SUFFICES ASSUME ~(p < 2 * n) PROVE FALSE
    OBVIOUS
  <2>1. p \in 1 .. Modulus /\ p # 1
    BY <1>1, <1>8
  <2>2. PICK g \in Nat \ {0} : p = 2 * g /\ Modulus % g = 0
    BY <1>8, <2>1, HalfOfDivisor
  <2>3. g \in PowersOfTwo /\ g >= n
    BY <1>1, <1>8, <2>2
  <2> QED
    BY <1>7, <2>2, <2>3
<1>10. RingSize(p)
  BY <1>1, <1>8 DEF RingSize
<1> QED
  BY <1>7, <1>9, <1>10 DEF p

-----------------------------------------------------------------------------
(* What build makes of the parameters *)

LEMMA BuiltIs ==
    ASSUME ParamsTypeOK, NEW n \in EntryArgs, ~Rejects(n),
           NEW sq, sq = NextPowerOfTwo(n), NEW cq, cq = CqSize(sq)
    PROVE  /\ RingSize(sq) /\ WrappingSub(sq, 1) = sq - 1
           /\ n <= sq /\ sq < 2 * n
           /\ CqOverflowed => cq = 0
           /\ ~CqOverflowed => RingSize(cq) /\ WrappingSub(cq, 1) = cq - 1
           /\ AsksCqSize /\ ~CqOverflowed =>
                 params.cq_entries <= cq /\ cq < 2 * params.cq_entries
           /\ ~AsksCqSize => cq = 2 * sq
<1>1. n \in U32 /\ n # 0 /\ n <= SqMax /\ (AsksCqSize => params.cq_entries # 0)
  BY BuilderConstants DEF Rejects, U32
<1>2. params.cq_entries \in U32
  BY DEF ParamsTypeOK
<1>3. ~Overflows(n)
  BY <1>1, BuilderConstants DEF Overflows
<1>4. RingSize(sq) /\ n <= sq /\ sq < 2 * n /\ \A q \in PowersOfTwo : q >= n => sq <= q
  BY <1>1, <1>3, NextPowerOfTwoIs
<1>5. SqMax \in PowersOfTwo /\ SqMax >= n
  BY <1>1, BuilderConstants DEF PowersOfTwo
<1>6. sq <= SqMax
  BY <1>4, <1>5
<1>7. \A x : RingSize(x) => WrappingSub(x, 1) = x - 1
  BY DEF RingSize, WrappingSub
<1>8. ASSUME AsksCqSize
      PROVE  /\ Overflows(params.cq_entries) => cq = 0
             /\ ~Overflows(params.cq_entries) =>
                  RingSize(cq) /\ params.cq_entries <= cq /\ cq < 2 * params.cq_entries
  <2>1. cq = NextPowerOfTwo(params.cq_entries)
    BY <1>8 DEF CqSize
  <2>2. CASE Overflows(params.cq_entries)
    BY <2>1, <2>2 DEF NextPowerOfTwo
  <2>3. CASE ~Overflows(params.cq_entries)
    BY <1>1, <1>2, <1>8, <2>1, <2>3, NextPowerOfTwoIs
  <2> QED
    BY <2>2, <2>3
<1>9. ASSUME ~AsksCqSize PROVE cq = 2 * sq /\ RingSize(cq)
  <2>1. sq \in Nat \ {0} /\ sq < Modulus /\ Modulus % sq = 0
    BY <1>4 DEF RingSize
  <2>2. Modulus % (2 * sq) = 0
    BY <2>1, TwiceDivisor
  <2>3. 2 * sq <= CqDefaultMax /\ CqDefaultMax \in Nat /\ CqDefaultMax < Modulus
    BY <1>6, <2>1, BuilderConstants
  <2>4. cq = 2 * sq
    BY <1>9, <2>1, <2>3 DEF CqSize, SmallerOf
  <2> QED
    BY <2>1, <2>2, <2>3, <2>4, BuilderConstants DEF RingSize
<1> QED
  BY <1>4, <1>7, <1>8, <1>9 DEF CqOverflowed

-----------------------------------------------------------------------------
(* What one more setup call makes of the calls *)

Calls == Seq([flag : SetupFlags, arg : U32])

LEMMA OneMoreCall ==
    ASSUME NEW made \in Calls, NEW f \in SetupFlags, NEW a \in U32,
           NEW now, now = Append(made, [flag |-> f, arg |-> a])
    PROVE  /\ now \in Calls
           /\ \A g : Called(g, now) <=> Called(g, made) \/ g = f
           /\ LastGiven(f, a, now)
           /\ \A g, v : g # f /\ LastGiven(g, v, made) => LastGiven(g, v, now)
<1> DEFINE e == [flag |-> f, arg |-> a]
<1>1. e \in [flag : SetupFlags, arg : U32] /\ e.flag = f
  OBVIOUS
<1> HIDE DEF e
<1>2. /\ now \in Calls
      /\ Len(made) \in Nat /\ Len(now) = Len(made) + 1
      /\ DOMAIN made = 1 .. Len(made) /\ DOMAIN now = 1 .. Len(made) + 1
      /\ \A i \in 1 .. Len(made) : now[i] = made[i]
      /\ now[Len(made) + 1] = e
  <2>1. now = Append(made, e)
    BY DEF e
  <2> QED
    BY <1>1, <2>1, AppendProperties, LenProperties DEF Calls
<1>3. \A g : Called(g, now) <=> Called(g, made) \/ g = f
  <2> SUFFICES ASSUME NEW g PROVE Called(g, now) <=> Called(g, made) \/ g = f
    OBVIOUS
  <2>1. ASSUME Called(g, now) PROVE Called(g, made) \/ g = f
    BY <1>1, <1>2, <2>1 DEF Called
  <2>2. ASSUME Called(g, made) PROVE Called(g, now)
    BY <1>2, <2>2 DEF Called
  <2>3. ASSUME g = f PROVE Called(g, now)
    <3>1. Len(made) + 1 \in DOMAIN now /\ now[Len(made) + 1].flag = g
      BY <1>1, <1>2, <2>3
    <3> QED
      BY <3>1 DEF Called
  <2> QED
    BY <2>1, <2>2, <2>3
<1>4. LastGiven(f, a, now)
  <2>1. Len(made) + 1 \in DOMAIN now /\ now[Len(made) + 1] = [flag |-> f, arg |-> a]
    BY <1>2 DEF e
  <2>2. \A j \in Len(made) + 1 + 1 .. Len(now) : now[j].flag # f
    BY <1>2
  <2> QED
    BY <2>1, <2>2 DEF LastGiven
<1>5. ASSUME NEW g, NEW v, g # f, LastGiven(g, v, made) PROVE LastGiven(g, v, now)
  <2>1. CASE ~Called(g, made) /\ v = 0
    BY <1>3, <1>5, <2>1 DEF LastGiven
  <2>2. CASE ~(~Called(g, made) /\ v = 0)
    <3>1. PICK i \in DOMAIN made :
             /\ made[i] = [flag |-> g, arg |-> v]
             /\ \A j \in i + 1 .. Len(made) : made[j].flag # g
      BY <1>5, <2>2 DEF LastGiven
    <3>2. i \in DOMAIN now /\ now[i] = [flag |-> g, arg |-> v]
      BY <1>2, <3>1
    <3>3. ASSUME NEW j \in i + 1 .. Len(now) PROVE now[j].flag # g
      <4>1. CASE j = Len(made) + 1
        BY <1>1, <1>2, <1>5, <4>1
      <4>2. CASE j # Len(made) + 1
        <5>1. j \in i + 1 .. Len(made) /\ j \in 1 .. Len(made)
          BY <1>2, <3>1, <4>2
        <5> QED
          BY <1>2, <3>1, <5>1
      <4> QED
        BY <4>1, <4>2
    <3> QED
      BY <3>2, <3>3 DEF LastGiven
  <2> QED
    BY <2>1, <2>2
<1> QED
  BY <1>2, <1>3, <1>4, <1>5

-----------------------------------------------------------------------------
(* The invariant *)

LEMMA BuilderInvInit == BuilderInit => BuilderInv
<1> SUFFICES ASSUME BuilderInit PROVE BuilderInv
  OBVIOUS
<1>1. PICK flags \in EntryFlags :
        params = [flags |-> flags, sq_entries |-> 0, cq_entries |-> 0,
                  sq_thread_idle |-> 0, sq_thread_cpu |-> 0, wq_fd |-> 0]
  BY DEF BuilderInit
<1>2. flags \subseteq {"SQE128", "CQE32"} /\ 0 \in U32
  BY <1>1, BuilderConstants DEF EntryFlags
<1>3. ParamsTypeOK
  BY <1>1, <1>2 DEF ParamsTypeOK
<1>4. calls = <<>> /\ calls \in Calls /\ DOMAIN calls = {}
  BY EmptySeq, LenProperties DEF BuilderInit, Calls
<1>5. \A g : ~Called(g, calls) /\ LastGiven(g, 0, calls)
  BY <1>4 DEF Called, LastGiven
<1>6. \A g \in SetupFlags : g \notin params.flags
  BY <1>1, <1>2 DEF SetupFlags, PlainFlags
<1>7. ParamsKept
  BY <1>1, <1>4, <1>5, <1>6 DEF ParamsKept, Calls
<1>8. Outcome
  BY DEF BuilderInit, Outcome
<1> QED
  BY <1>3, <1>7, <1>8 DEF BuilderInv

(* A setup call that adds its flag, and sets its field and no other. *)
LEMMA SetupStep ==
    ASSUME BuilderInv, ring = NoRing, UNCHANGED ring,
           NEW f \in SetupFlags, NEW a \in U32,
           calls' = Append(calls, [flag |-> f, arg |-> a]),
           params' = [flags |-> params.flags \cup {f}, sq_entries |-> params.sq_entries,
                      cq_entries |-> IF f = "CQSIZE" THEN a ELSE params.cq_entries,
                      sq_thread_idle |-> IF f = "SQPOLL" THEN a ELSE params.sq_thread_idle,
                      sq_thread_cpu |-> IF f = "SQ_AFF" THEN a ELSE params.sq_thread_cpu,
                      wq_fd |-> IF f = "ATTACH_WQ" THEN a ELSE params.wq_fd]
    PROVE  BuilderInv'
<1>1. ParamsTypeOK /\ ParamsKept
  BY DEF BuilderInv
<1>2. ParamsTypeOK'
  BY <1>1 DEF ParamsTypeOK
<1>3. calls \in Calls
  BY <1>1 DEF ParamsKept, Calls
<1>4. /\ calls' \in Calls
      /\ \A g : Called(g, calls') <=> Called(g, calls) \/ g = f
      /\ LastGiven(f, a, calls')
      /\ \A g, v : g # f /\ LastGiven(g, v, calls) => LastGiven(g, v, calls')
  <2> DEFINE e == Append(calls, [flag |-> f, arg |-> a])
             Good(t) == /\ t \in Calls
                        /\ \A g : Called(g, t) <=> Called(g, calls) \/ g = f
                        /\ LastGiven(f, a, t)
                        /\ \A g, v : g # f /\ LastGiven(g, v, calls) => LastGiven(g, v, t)
  <2>1. \A t : t = e => Good(t)
    BY <1>3, OneMoreCall
  <2>2. calls' = e
    OBVIOUS
  <2> HIDE DEF e, Good
  <2>3. Good(calls')
    BY <2>1, <2>2
  <2> QED
    BY <2>3 DEF Good
<1>5. \A g \in SetupFlags : g \in params'.flags <=> Called(g, calls')
  BY <1>1, <1>4 DEF ParamsKept
<1>6. LastGiven("SQPOLL", params'.sq_thread_idle, calls')
  BY <1>1, <1>4 DEF ParamsKept
<1>7. LastGiven("SQ_AFF", params'.sq_thread_cpu, calls')
  BY <1>1, <1>4 DEF ParamsKept
<1>8. LastGiven("ATTACH_WQ", params'.wq_fd, calls')
  BY <1>1, <1>4 DEF ParamsKept
<1>9. LastGiven("CQSIZE", params'.cq_entries, calls')
  BY <1>1, <1>4 DEF ParamsKept
<1>10. ParamsKept'
  BY <1>4, <1>5, <1>6, <1>7, <1>8, <1>9 DEF ParamsKept, Calls
<1>11. Outcome'
  BY DEF Outcome, NoRing
<1> QED
  BY <1>2, <1>10, <1>11 DEF BuilderInv

LEMMA BuilderInvStep == BuilderInv /\ [BuilderNext]_builderVars => BuilderInv'
<1> SUFFICES ASSUME BuilderInv, [BuilderNext]_builderVars PROVE BuilderInv'
  OBVIOUS
<1>1. ParamsTypeOK /\ ParamsKept
  BY DEF BuilderInv
<1>2. ASSUME NEW f \in PlainFlags, SetupFlag(f) PROVE BuilderInv'
  <2>1. f \in SetupFlags /\ 0 \in U32 /\ f \notin {"SQPOLL", "SQ_AFF", "CQSIZE", "ATTACH_WQ"}
    BY BuilderConstants DEF SetupFlags, PlainFlags
  <2>2. /\ ring = NoRing /\ UNCHANGED ring
        /\ calls' = Append(calls, [flag |-> f, arg |-> 0])
        /\ params' = [params EXCEPT !.flags = @ \cup {f}]
    BY <1>2 DEF SetupFlag, Setup, WithFlag
  <2> DEFINE a == 0
  <2>3. params' = [flags |-> params.flags \cup {f}, sq_entries |-> params.sq_entries,
                   cq_entries |-> IF f = "CQSIZE" THEN a ELSE params.cq_entries,
                   sq_thread_idle |-> IF f = "SQPOLL" THEN a ELSE params.sq_thread_idle,
                   sq_thread_cpu |-> IF f = "SQ_AFF" THEN a ELSE params.sq_thread_cpu,
                   wq_fd |-> IF f = "ATTACH_WQ" THEN a ELSE params.wq_fd]
    BY <1>1, <2>1, <2>2 DEF ParamsTypeOK
  <2>4. a \in U32 /\ calls' = Append(calls, [flag |-> f, arg |-> a])
    BY <2>1, <2>2
  <2> HIDE DEF a
  <2> QED
    BY <2>1, <2>2, <2>3, <2>4, SetupStep
<1>3. ASSUME NEW n \in Numbers, SetupSqpoll(n) PROVE BuilderInv'
  <2> DEFINE f == "SQPOLL"
             a == n
  <2>1. f \in SetupFlags /\ a \in U32
    BY BuilderConstants DEF SetupFlags
  <2>2. /\ ring = NoRing /\ UNCHANGED ring
        /\ calls' = Append(calls, [flag |-> f, arg |-> a])
        /\ params' = [[params EXCEPT !.flags = @ \cup {f}] EXCEPT !.sq_thread_idle = a]
    BY <1>3 DEF SetupSqpoll, Setup, WithFlag
  <2>3. params' = [flags |-> params.flags \cup {f}, sq_entries |-> params.sq_entries,
                   cq_entries |-> IF f = "CQSIZE" THEN a ELSE params.cq_entries,
                   sq_thread_idle |-> IF f = "SQPOLL" THEN a ELSE params.sq_thread_idle,
                   sq_thread_cpu |-> IF f = "SQ_AFF" THEN a ELSE params.sq_thread_cpu,
                   wq_fd |-> IF f = "ATTACH_WQ" THEN a ELSE params.wq_fd]
    BY <1>1, <2>2 DEF ParamsTypeOK
  <2> HIDE DEF f, a
  <2> QED
    BY <2>1, <2>2, <2>3, SetupStep
<1>4. ASSUME NEW n \in Numbers, SetupSqpollCpu(n) PROVE BuilderInv'
  <2> DEFINE f == "SQ_AFF"
             a == n
  <2>1. f \in SetupFlags /\ a \in U32
    BY BuilderConstants DEF SetupFlags
  <2>2. /\ ring = NoRing /\ UNCHANGED ring
        /\ calls' = Append(calls, [flag |-> f, arg |-> a])
        /\ params' = [[params EXCEPT !.flags = @ \cup {f}] EXCEPT !.sq_thread_cpu = a]
    BY <1>4 DEF SetupSqpollCpu, Setup, WithFlag
  <2>3. params' = [flags |-> params.flags \cup {f}, sq_entries |-> params.sq_entries,
                   cq_entries |-> IF f = "CQSIZE" THEN a ELSE params.cq_entries,
                   sq_thread_idle |-> IF f = "SQPOLL" THEN a ELSE params.sq_thread_idle,
                   sq_thread_cpu |-> IF f = "SQ_AFF" THEN a ELSE params.sq_thread_cpu,
                   wq_fd |-> IF f = "ATTACH_WQ" THEN a ELSE params.wq_fd]
    BY <1>1, <2>2 DEF ParamsTypeOK
  <2> HIDE DEF f, a
  <2> QED
    BY <2>1, <2>2, <2>3, SetupStep
<1>5. ASSUME NEW n \in CqArgs, SetupCqsize(n) PROVE BuilderInv'
  <2> DEFINE f == "CQSIZE"
             a == n
  <2>1. f \in SetupFlags /\ a \in U32
    BY BuilderConstants DEF SetupFlags
  <2>2. /\ ring = NoRing /\ UNCHANGED ring
        /\ calls' = Append(calls, [flag |-> f, arg |-> a])
        /\ params' = [[params EXCEPT !.flags = @ \cup {f}] EXCEPT !.cq_entries = a]
    BY <1>5 DEF SetupCqsize, Setup, WithFlag
  <2>3. params' = [flags |-> params.flags \cup {f}, sq_entries |-> params.sq_entries,
                   cq_entries |-> IF f = "CQSIZE" THEN a ELSE params.cq_entries,
                   sq_thread_idle |-> IF f = "SQPOLL" THEN a ELSE params.sq_thread_idle,
                   sq_thread_cpu |-> IF f = "SQ_AFF" THEN a ELSE params.sq_thread_cpu,
                   wq_fd |-> IF f = "ATTACH_WQ" THEN a ELSE params.wq_fd]
    BY <1>1, <2>2 DEF ParamsTypeOK
  <2> HIDE DEF f, a
  <2> QED
    BY <2>1, <2>2, <2>3, SetupStep
<1>6. ASSUME NEW fd \in WqFds, SetupAttachWq(fd) PROVE BuilderInv'
  <2> DEFINE f == "ATTACH_WQ"
             a == fd % Modulus
  <2>1. f \in SetupFlags /\ a \in U32
    BY BuilderConstants DEF SetupFlags
  <2>2. /\ ring = NoRing /\ UNCHANGED ring
        /\ calls' = Append(calls, [flag |-> f, arg |-> a])
        /\ params' = [[params EXCEPT !.flags = @ \cup {f}] EXCEPT !.wq_fd = a]
    BY <1>6 DEF SetupAttachWq, Setup, WithFlag
  <2>3. params' = [flags |-> params.flags \cup {f}, sq_entries |-> params.sq_entries,
                   cq_entries |-> IF f = "CQSIZE" THEN a ELSE params.cq_entries,
                   sq_thread_idle |-> IF f = "SQPOLL" THEN a ELSE params.sq_thread_idle,
                   sq_thread_cpu |-> IF f = "SQ_AFF" THEN a ELSE params.sq_thread_cpu,
                   wq_fd |-> IF f = "ATTACH_WQ" THEN a ELSE params.wq_fd]
    BY <1>1, <2>2 DEF ParamsTypeOK
  <2> HIDE DEF f, a
  <2> QED
    BY <2>1, <2>2, <2>3, SetupStep
<1>7. ASSUME UNCHANGED <<params, calls>> PROVE ParamsTypeOK' /\ ParamsKept'
  BY <1>1, <1>7 DEF ParamsTypeOK, ParamsKept
<1>8. ASSUME UNCHANGED params
      PROVE  /\ \A n : Rejects(n)' <=> Rejects(n)
             /\ \A n : BuiltRing(n)' = BuiltRing(n)
             /\ CqOverflowed' <=> CqOverflowed
  BY <1>8 DEF Rejects, BuiltRing, CqSize, AsksCqSize, CqOverflowed
<1>9. ASSUME NEW n \in EntryArgs, Reject(n) PROVE BuilderInv'
  BY <1>7, <1>8, <1>9 DEF Reject, Outcome, BuilderInv
<1>10. ASSUME NEW n \in EntryArgs, BuildPanics(n) PROVE BuilderInv'
  BY <1>7, <1>8, <1>10 DEF BuildPanics, Outcome, BuilderInv, CqOverflowed
<1>11. ASSUME NEW n \in EntryArgs, BuildRing(n) PROVE BuilderInv'
  BY <1>7, <1>8, <1>11 DEF BuildRing, Outcome, BuilderInv
<1>12. CASE UNCHANGED builderVars
  BY <1>7, <1>8, <1>12 DEF builderVars, Outcome, BuilderInv
<1> QED
  BY <1>2, <1>3, <1>4, <1>5, <1>6, <1>9, <1>10, <1>11, <1>12 DEF BuilderNext

(* BuilderInv holds of every builder, for every number of calls in every   *)
(* order: the parameters are what the calls made of them, and the ring is  *)
(* what build makes of the parameters.                                     *)
THEOREM BuilderInvariance == BuilderSpec => []BuilderInv
<1>1. BuilderInit => BuilderInv
  BY BuilderInvInit
<1>2. BuilderInv /\ [BuilderNext]_builderVars => BuilderInv'
  BY BuilderInvStep
<1> QED
  BY <1>1, <1>2, PTL DEF BuilderSpec

-----------------------------------------------------------------------------
(* & with a mask *)

(* The next value of BitAnd in terms of half the arguments. *)
AndFrom(f, x, y) == IF y = 0 THEN 0 ELSE 2 * f[y \div 2][x \div 2] + (x % 2) * (y % 2)

(* f is the function BitAnd stands for, as far as k. *)
IsAnd(f, k) == f = [y \in 0 .. k |-> [x \in U32 |-> AndFrom(f, x, y)]]

LEMMA Halves ==
    ASSUME NEW y \in Nat
    PROVE  /\ y \div 2 \in Nat /\ y \div 2 <= y /\ (y # 0 => y \div 2 <= y - 1)
           /\ y = 2 * (y \div 2) + (y % 2) /\ y % 2 \in {0, 1}
  BY SMT

LEMMA AndExists == \A k \in Nat : \E f : IsAnd(f, k)
<1> DEFINE T == {k \in Nat : \E f : IsAnd(f, k)}
<1>1. 0 \in T
  <2> DEFINE f == [y \in 0 .. 0 |-> [x \in U32 |-> 0]]
  <2>1. \A y \in 0 .. 0 : \A x \in U32 : AndFrom(f, x, y) = 0
    BY DEF AndFrom
  <2>2. f = [y \in 0 .. 0 |-> [x \in U32 |-> AndFrom(f, x, y)]]
    BY <2>1
  <2> HIDE DEF f
  <2>3. IsAnd(f, 0)
    BY <2>2 DEF IsAnd
  <2> QED
    BY <2>3
<1>2. ASSUME NEW k \in Nat, k \in T PROVE k + 1 \in T
  <2>1. PICK f : IsAnd(f, k)
    BY <1>2
  <2> DEFINE g == [y \in 0 .. k + 1 |-> [x \in U32 |-> AndFrom(f, x, y)]]
  <2>2. \A y \in 0 .. k : g[y] = f[y]
    BY <2>1 DEF IsAnd
  <2>3. \A y \in 0 .. k + 1 : y # 0 => g[y \div 2] = f[y \div 2]
    <3> SUFFICES ASSUME NEW y \in 0 .. k + 1, y # 0 PROVE g[y \div 2] = f[y \div 2]
      OBVIOUS
    <3>1. y \div 2 \in 0 .. k
      BY Halves
    <3> QED
      BY <2>2, <3>1
  <2> HIDE DEF g
  <2>4. \A y \in 0 .. k + 1 : \A x \in U32 : AndFrom(f, x, y) = AndFrom(g, x, y)
    BY <2>3 DEF AndFrom
  <2>5. g = [y \in 0 .. k + 1 |-> [x \in U32 |-> AndFrom(g, x, y)]]
    <3>1. g = [y \in 0 .. k + 1 |-> [x \in U32 |-> AndFrom(f, x, y)]]
      BY DEF g
    <3> QED
      BY <2>4, <3>1
  <2>6. IsAnd(g, k + 1)
    BY <2>5 DEF IsAnd
  <2> QED
    BY <2>6
<1> HIDE DEF T
<1>3. Nat \subseteq T
  BY <1>1, <1>2, SetInduction
<1> QED
  BY <1>3 DEF T

LEMMA BitAndStep == \A y \in U32 : \A x \in U32 : BitAnd[y][x] = AndFrom(BitAnd, x, y)
<1>1. BitAnd = CHOOSE f : IsAnd(f, Modulus - 1)
  BY DEF BitAnd, IsAnd, AndFrom, U32
<1>2. IsAnd(BitAnd, Modulus - 1)
  BY <1>1, AndExists, ModulusAssumption
<1>3. ASSUME NEW f, IsAnd(f, Modulus - 1), NEW y \in U32, NEW x \in U32
      PROVE  f[y][x] = AndFrom(f, x, y)
  <2> DEFINE row == [z \in U32 |-> AndFrom(f, z, y)]
  <2>1. f[y] = row
    BY <1>3 DEF IsAnd, U32
  <2>2. row[x] = AndFrom(f, x, y)
    OBVIOUS
  <2> HIDE DEF row
  <2> QED
    BY <2>1, <2>2
<1> QED
  BY <1>2, <1>3

(* The remainder by an even number, from the halves. *)
LEMMA ModHalves ==
    ASSUME NEW g \in Nat \ {0}, NEW x \in Nat
    PROVE  x % (2 * g) = 2 * ((x \div 2) % g) + (x % 2)
<1> DEFINE h == x \div 2
           b == x % 2
           q == h \div g
           r == h % g
<1>1. h \in Nat /\ x = 2 * h + b /\ b \in {0, 1}
  BY Halves
<1> HIDE DEF h, b
<1>2. h = g * q + r /\ q \in Nat /\ r \in 0 .. g - 1
  BY <1>1, DivMod
<1> HIDE DEF q, r
<1>3. x = (2 * g) * q + (2 * r + b)
  BY <1>1, <1>2, SMT
<1> DEFINE m == 2 * g
           s == 2 * r + b
<1>4. m \in Nat \ {0} /\ s \in 0 .. m - 1 /\ q \in Int /\ x = m * q + s
  BY <1>1, <1>2, <1>3
<1> HIDE DEF m, s
<1>5. x % m = s
  BY <1>4, ModUnique
<1> QED
  BY <1>5 DEF m, s, r, h, b

(* & with one less than a power of two is the remainder. *)
LEMMA BitAndIsMod ==
    ASSUME NEW p \in 1 .. Modulus, Modulus % p = 0
    PROVE  \A x \in U32 : BitAnd[p - 1][x] = x % p
<1> DEFINE T == {k \in Nat : \A d \in 1 .. Modulus : d <= k /\ Modulus % d = 0 =>
                    \A x \in U32 : BitAnd[d - 1][x] = x % d}
<1>1. 0 \in T
  OBVIOUS
<1>2. ASSUME NEW k \in Nat, k \in T PROVE k + 1 \in T
  <2> SUFFICES ASSUME NEW d \in 1 .. Modulus, d <= k + 1, Modulus % d = 0, NEW x \in U32
               PROVE  BitAnd[d - 1][x] = x % d
    OBVIOUS
  <2>1. Modulus \in Nat /\ d - 1 \in U32 /\ x \in Nat
    BY ModulusAssumption DEF U32
  <2>2. BitAnd[d - 1][x] = AndFrom(BitAnd, x, d - 1)
    BY <2>1, BitAndStep
  <2>3. CASE d = 1
    <3>1. AndFrom(BitAnd, x, d - 1) = 0
      BY <2>3 DEF AndFrom
    <3>2. x % 1 = 0
      BY <2>1, SMT
    <3> QED
      BY <2>2, <2>3, <3>1, <3>2
  <2>4. CASE d # 1
    <3>1. PICK g \in Nat \ {0} : d = 2 * g /\ Modulus % g = 0
      BY <2>4, HalfOfDivisor
    <3>2. g \in 1 .. Modulus /\ g <= k /\ d - 1 # 0
      BY <2>1, <3>1
    <3>3. x \div 2 \in U32
      BY <2>1, Halves, ModulusAssumption DEF U32
    <3>4. BitAnd[g - 1][x \div 2] = (x \div 2) % g
      BY <1>2, <3>1, <3>2, <3>3
    <3>5. (d - 1) \div 2 = g - 1 /\ (d - 1) % 2 = 1
      BY <3>1, SMT
    <3>6. x % 2 \in {0, 1}
      BY <2>1, Halves
    <3>7. AndFrom(BitAnd, x, d - 1) = 2 * BitAnd[g - 1][x \div 2] + (x % 2) * 1
      BY <3>2, <3>5 DEF AndFrom
    <3>8. (x % 2) * 1 = x % 2
      BY <3>6
    <3>9. x % d = 2 * ((x \div 2) % g) + (x % 2)
      BY <2>1, <3>1, ModHalves
    <3> QED
      BY <2>2, <3>4, <3>7, <3>8, <3>9
  <2> QED
    BY <2>3, <2>4
<1> HIDE DEF T
<1>3. p \in Nat /\ p <= p
  BY ModulusAssumption
<1>4. p \in T
  BY <1>1, <1>2, <1>3, SetInduction
<1> QED
  BY <1>3, <1>4 DEF T

LEMMA MaskIsMod ==
    ASSUME NEW entries, RingSize(entries), NEW mask, mask = entries - 1
    PROVE  \A x \in U32 : BitAnd[mask][x] = Slot(x, entries)
<1>1. entries \in 1 .. Modulus /\ Modulus % entries = 0
  BY ModulusAssumption DEF RingSize
<1> QED
  BY <1>1, BitAndIsMod DEF Slot

-----------------------------------------------------------------------------
(* What follows from it *)

LEMMA BuiltHolds ==
    ASSUME BuilderInv, Built
    PROVE  \E n \in EntryArgs : ~Rejects(n) /\ ring = BuiltRing(n)
  BY DEF BuilderInv, Outcome, Built, NoRing

(* Every ring that is built has a submission queue of a size the ring's    *)
(* theorems assume, with the mask that goes with it, and so has its        *)
(* completion queue unless the size asked for overflowed.                  *)
THEOREM SizesFit == BuilderSpec => []BuiltSizes
<1>1. BuilderInv => BuiltSizes
  <2> SUFFICES ASSUME BuilderInv, Built PROVE BuiltSizes
    BY DEF BuiltSizes
  <2>1. PICK n \in EntryArgs : ~Rejects(n) /\ ring = BuiltRing(n)
    BY BuiltHolds
  <2> DEFINE sq == NextPowerOfTwo(n)
             cq == CqSize(sq)
  <2>2. ParamsTypeOK
    BY DEF BuilderInv
  <2>3. /\ ring.params.sq_entries = sq /\ ring.sq_ring_mask = WrappingSub(sq, 1)
        /\ ring.params.cq_entries = cq /\ ring.cq_ring_mask = WrappingSub(cq, 1)
    BY <2>1, <2>2 DEF BuiltRing, ParamsTypeOK
  <2>4. /\ RingSize(sq) /\ WrappingSub(sq, 1) = sq - 1
        /\ CqOverflowed => cq = 0
        /\ ~CqOverflowed => RingSize(cq) /\ WrappingSub(cq, 1) = cq - 1
    BY <2>1, <2>2, BuiltIs
  <2> HIDE DEF sq, cq
  <2>5. \A len \in U32 : len >= 0
    BY BuilderConstants
  <2> QED
    BY <2>3, <2>4, <2>5 DEF BuiltSizes
<1> QED
  BY <1>1, BuilderInvariance, PTL

(* Both sides of every ring that is built find the slot of a position with *)
(* & and the mask: it is the remainder the theorems about the rings speak  *)
(* of, for every width of the indices.                                     *)
THEOREM MasksSelectSlots == BuilderSpec => []MaskSelectsSlot
<1>1. BuiltSizes => MaskSelectsSlot
  <2> SUFFICES ASSUME BuiltSizes, Built PROVE MaskSelectsSlot
    BY DEF MaskSelectsSlot
  <2> QED
    BY MaskIsMod DEF MaskSelectsSlot, BuiltSizes
<1> QED
  BY <1>1, SizesFit, PTL

(* Every caller of build gets the sizes asked for or an error, for every   *)
(* argument and every sequence of setup calls.                             *)
THEOREM RequestsGranted == BuilderSpec => []Granted
<1>1. BuilderInv => Granted
  <2> SUFFICES ASSUME BuilderInv, ring # NoRing PROVE Granted
    BY DEF Granted
  <2>1. ParamsTypeOK /\ Outcome
    BY DEF BuilderInv
  <2>2. PICK n \in EntryArgs :
          \/ Rejects(n) /\ ring = [status |-> "rejected", asked |-> n]
          \/ ~Rejects(n) /\ CqOverflowed /\ ring = [status |-> "panicked", asked |-> n]
          \/ ~Rejects(n) /\ ring = BuiltRing(n)
    BY <2>1 DEF Outcome
  <2>3. ring.asked = n
    BY <2>2 DEF BuiltRing
  <2>4. ~Rejects(n) <=> n \in 1 .. SqMax /\ (AsksCqSize => params.cq_entries # 0)
    <3>1. n \in Nat /\ SqMax \in Nat
      BY BuilderConstants
    <3> QED
      BY <3>1 DEF Rejects
  <2>5. ring.status = "rejected" <=> Rejects(n)
    BY <2>2 DEF BuiltRing
  <2>6. ring.status = "panicked" => CqOverflowed
    BY <2>2 DEF BuiltRing
  <2>7. ASSUME Built
        PROVE  /\ n <= ring.params.sq_entries /\ ring.params.sq_entries < 2 * n
               /\ AsksCqSize /\ ~CqOverflowed =>
                    /\ params.cq_entries <= ring.params.cq_entries
                    /\ ring.params.cq_entries < 2 * params.cq_entries
               /\ ~AsksCqSize => ring.params.cq_entries = 2 * ring.params.sq_entries
    <3> DEFINE sq == NextPowerOfTwo(n)
               cq == CqSize(sq)
    <3>1. ~Rejects(n) /\ ring = BuiltRing(n)
      BY <2>2, <2>7 DEF Built
    <3>2. ring.params = [params EXCEPT !.sq_entries = sq, !.cq_entries = cq]
      BY <3>1 DEF BuiltRing
    <3>3. ring.params.sq_entries = sq /\ ring.params.cq_entries = cq
      BY <2>1, <3>2 DEF ParamsTypeOK
    <3>4. /\ n <= sq /\ sq < 2 * n
          /\ AsksCqSize /\ ~CqOverflowed =>
               params.cq_entries <= cq /\ cq < 2 * params.cq_entries
          /\ ~AsksCqSize => cq = 2 * sq
      BY <2>1, <3>1, BuiltIs
    <3> HIDE DEF sq, cq
    <3> QED
      BY <3>3, <3>4
  <2> QED
    BY <2>3, <2>4, <2>5, <2>6, <2>7 DEF Granted
<1> QED
  BY <1>1, BuilderInvariance, PTL

(* However many setup calls are made, in whatever order, the ring reports  *)
(* each of them and no other, with the last value each one gave.           *)
THEOREM SetupsKept == BuilderSpec => []SetupKept
<1>1. BuilderInv => SetupKept
  <2> SUFFICES ASSUME BuilderInv, Built PROVE SetupKept
    BY DEF SetupKept
  <2>1. ParamsTypeOK /\ ParamsKept
    BY DEF BuilderInv
  <2>2. PICK n \in EntryArgs : ring = BuiltRing(n)
    BY BuiltHolds
  <2>3. /\ ring.params.flags = params.flags
        /\ ring.params.sq_thread_idle = params.sq_thread_idle
        /\ ring.params.sq_thread_cpu = params.sq_thread_cpu
        /\ ring.params.wq_fd = params.wq_fd
    BY <2>1, <2>2 DEF ParamsTypeOK, BuiltRing
  <2> QED
    BY <2>1, <2>3 DEF SetupKept, ParamsKept, IsSetup
<1> QED
  BY <1>1, BuilderInvariance, PTL
==============================================================================
