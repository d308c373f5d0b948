----------------------------- MODULE RingBuilder -----------------------------
(***************************************************************************)
(* Builder and Parameters: the setup calls on an io_uring_params, build,   *)
(* and what the parameters of the ring say afterwards.  Sizes are u32      *)
(* values; the constants scale 2^15, 2^16 and 2^32 down together.          *)
(*                                                                         *)
(* build takes the builder by reference and shares nothing with the ring   *)
(* it makes, so a behaviour builds one ring.  The features a ring reports  *)
(* are constants of build; the one the emulator has to live up to is in    *)
(* CompletionQueue.                                                        *)
(***************************************************************************)
EXTENDS RingIndex, Sequences

CONSTANTS SqMax,        \* 1 << 15: the largest SQ
          CqDefaultMax, \* 1 << 16: the largest CQ chosen by default
          EntryArgs,    \* entries arguments of build
          CqArgs,       \* arguments of setup_cqsize
          Numbers,      \* arguments of setup_sqpoll and setup_sqpoll_cpu
          WqFds,        \* arguments of setup_attach_wq: i32 values
          MaxSetup      \* bound: setup calls in one behaviour

(* Modulus is a power of two: it has no odd divisor but 1. *)
ASSUME BuilderAssumption ==
    /\ \A p \in 1 .. Modulus : Modulus % p = 0 => p = 1 \/ p % 2 = 0
    /\ RingSize(SqMax) /\ CqDefaultMax = 2 * SqMax /\ RingSize(CqDefaultMax)
    /\ EntryArgs \cup CqArgs \cup Numbers \subseteq U32
    /\ WqFds \subseteq Int
    /\ MaxSetup \in Nat

VARIABLES params,       \* Builder.params
          ring,         \* what build returned
          calls         \* history: the setup calls made

builderVars == <<params, ring, calls>>

(* S::BUILD_FLAGS | C::BUILD_FLAGS for the four combinations of entries. *)
EntryFlags == SUBSET {"SQE128", "CQE32"}

NoRing == [status |-> "none"]

BuilderInit ==
    /\ \E flags \in EntryFlags :
          params = [flags |-> flags, sq_entries |-> 0, cq_entries |-> 0,
                    sq_thread_idle |-> 0, sq_thread_cpu |-> 0, wq_fd |-> 0]
    /\ ring = NoRing
    /\ calls = <<>>

-----------------------------------------------------------------------------
(* The setup calls. *)

(* The ones that only set a flag. *)
PlainFlags ==
    {"IOPOLL", "CLAMP", "R_DISABLED", "SUBMIT_ALL", "COOP_TASKRUN", "TASKRUN_FLAG",
     "DEFER_TASKRUN", "SINGLE_ISSUER"}

(* Mutant: flags = ..., for flags |= ... *)
WithFlag_Assigned(p, flag) == [p EXCEPT !.flags = {flag}]
WithFlag(p, flag) == [p EXCEPT !.flags = @ \cup {flag}]

Setup(flag, arg, newParams) ==
    /\ ring = NoRing /\ Len(calls) < MaxSetup
    /\ params' = newParams
    /\ calls' = Append(calls, [flag |-> flag, arg |-> arg])
    /\ UNCHANGED ring

SetupFlag(flag) == Setup(flag, 0, WithFlag(params, flag))
SetupSqpoll(idle) ==
    Setup("SQPOLL", idle, [WithFlag(params, "SQPOLL") EXCEPT !.sq_thread_idle = idle])
SetupSqpollCpu(cpu) ==
    Setup("SQ_AFF", cpu, [WithFlag(params, "SQ_AFF") EXCEPT !.sq_thread_cpu = cpu])
SetupCqsize(entries) ==
    Setup("CQSIZE", entries, [WithFlag(params, "CQSIZE") EXCEPT !.cq_entries = entries])
SetupAttachWq(fd) ==
    Setup("ATTACH_WQ", fd % Modulus,
          [WithFlag(params, "ATTACH_WQ") EXCEPT !.wq_fd = fd % Modulus])

-----------------------------------------------------------------------------
(* build *)

(* u32::next_power_of_two: no power of two that large is a u32 if n is     *)
(* above 2^31; a build with overflow checks panics, one without gets 0.    *)
Overflows(n) == 2 * n > Modulus

PowersOfTwo == {p \in U32 \ {0} : Modulus % p = 0}     \* Modulus is one itself

(* Mutant: the size taken as it comes. *)
NextPowerOfTwo_Same(n) == n
NextPowerOfTwo(n) ==
    IF Overflows(n) THEN 0
    ELSE CHOOSE p \in PowersOfTwo : p >= n /\ \A q \in PowersOfTwo : q >= n => p <= q

AsksCqSize == "CQSIZE" \in params.flags

(* Mutant: a completion queue of no entries is let through. *)
Rejects_NotCq(entries) == entries = 0 \/ entries > SqMax
Rejects(entries) ==
    \/ entries = 0 \/ entries > SqMax
    \/ AsksCqSize /\ params.cq_entries = 0

SmallerOf(a, b) == IF a < b THEN a ELSE b

CqSize(sqEntries) ==
    IF AsksCqSize THEN NextPowerOfTwo(params.cq_entries)
    ELSE SmallerOf(2 * sqEntries, CqDefaultMax)

Reject(entries) ==
    /\ ring = NoRing /\ Rejects(entries)
    /\ ring' = [status |-> "rejected", asked |-> entries]
    /\ UNCHANGED <<params, calls>>

BuildPanics(entries) ==
    /\ ring = NoRing /\ ~Rejects(entries)
    /\ AsksCqSize /\ Overflows(params.cq_entries)
    /\ ring' = [status |-> "panicked", asked |-> entries]
    /\ UNCHANGED <<params, calls>>

BuiltRing(entries) ==
    LET sq == NextPowerOfTwo(entries)
        cq == CqSize(sq)
    IN  [status |-> "built", asked |-> entries,
         sq_ring_mask |-> WrappingSub(sq, 1), cq_ring_mask |-> WrappingSub(cq, 1),
         params |-> [params EXCEPT !.sq_entries = sq, !.cq_entries = cq]]

BuildRing(entries) ==
    /\ ring = NoRing /\ ~Rejects(entries)
    /\ ring' = BuiltRing(entries)
    /\ UNCHANGED <<params, calls>>

BuilderNext ==
    \/ \E flag \in PlainFlags : SetupFlag(flag)
    \/ \E n \in Numbers : SetupSqpoll(n) \/ SetupSqpollCpu(n)
    \/ \E n \in CqArgs : SetupCqsize(n)
    \/ \E fd \in WqFds : SetupAttachWq(fd)
    \/ \E n \in EntryArgs : Reject(n) \/ BuildPanics(n) \/ BuildRing(n)

BuilderSpec == BuilderInit /\ [][BuilderNext]_builderVars
-----------------------------------------------------------------------------
(* Properties *)

Built == ring.status = "built"

(* The ring has no completion queue: the request overflowed. *)
CqOverflowed == AsksCqSize /\ Overflows(params.cq_entries)

(* What both rings are built on, and what the ring modules assume: a size  *)
(* divides 2^32, so that slots stay in step over the wrap, a full ring has *)
(* another length than an empty one, and the mask is one less than the     *)
(* size.  Where the size overflowed, no entry of the empty array is ever   *)
(* touched: post_cqe finds the ring full.                                  *)
BuiltSizes ==
    LET fits(entries, mask) == RingSize(entries) /\ mask = entries - 1
    IN  Built =>
          /\ fits(ring.params.sq_entries, ring.sq_ring_mask)
          /\ \/ fits(ring.params.cq_entries, ring.cq_ring_mask)
             \/ CqOverflowed /\ \A len \in U32 : len >= ring.params.cq_entries

(* A builder's caller gets what was asked for or an error: queues of at    *)
(* least the requested sizes, and less than twice as large, an error for a *)
(* size of 0 or an SQ above the maximum, and a panic only for a CQ size no *)
(* u32 power of two reaches.                                               *)
Granted ==
    LET grants(entries, asked) == asked <= entries /\ entries < 2 * asked
        valid == ring.asked \in 1 .. SqMax /\ (AsksCqSize => params.cq_entries # 0)
    IN  ring # NoRing =>
          /\ ring.status = "rejected" <=> ~valid
          /\ ring.status = "panicked" => CqOverflowed
          /\ Built => grants(ring.params.sq_entries, ring.asked)
          /\ Built /\ AsksCqSize /\ ~CqOverflowed =>
                grants(ring.params.cq_entries, params.cq_entries)
          /\ Built /\ ~AsksCqSize => ring.params.cq_entries = 2 * ring.params.sq_entries

(* Parameters::is_setup_sqpoll and its like: a bit of the flags. *)
IsSetup(flag) == flag \in ring.params.flags

Called(flag, made) == \E i \in DOMAIN made : made[i].flag = flag

(* v is what the last call that sets flag gave, or 0 if there was none. *)
LastGiven(flag, v, made) ==
    \/ ~Called(flag, made) /\ v = 0
    \/ \E i \in DOMAIN made :
          /\ made[i] = [flag |-> flag, arg |-> v]
          /\ \A j \in i + 1 .. Len(made) : made[j].flag # flag

SetupFlags == PlainFlags \cup {"SQPOLL", "SQ_AFF", "CQSIZE", "ATTACH_WQ"}

(* Setup calls do not undo each other, in whatever order they are made:    *)
(* is_setup_sqpoll() and the other queries of Parameters report every one  *)
(* of them and no other, sq_thread_idle() the last value given, and build  *)
(* goes by the last CQ size asked for.                                     *)
SetupKept ==
    Built =>
        /\ \A flag \in SetupFlags : IsSetup(flag) <=> Called(flag, calls)
        /\ LastGiven("SQPOLL", ring.params.sq_thread_idle, calls)
        /\ LastGiven("SQ_AFF", ring.params.sq_thread_cpu, calls)
        /\ LastGiven("ATTACH_WQ", ring.params.wq_fd, calls)
        /\ LastGiven("CQSIZE", params.cq_entries, calls)

(* Why these properties hold: the inductive invariant.  The parameters are *)
(* what the calls have made of them, and the ring is what build makes of   *)
(* the parameters.                                                         *)
ParamsTypeOK ==
    params \in [flags : SUBSET (SetupFlags \cup {"SQE128", "CQE32"}), sq_entries : {0},
                cq_entries : U32, sq_thread_idle : U32, sq_thread_cpu : U32, wq_fd : U32]

ParamsKept ==
    /\ calls \in Seq([flag : SetupFlags, arg : U32])
    /\ \A flag \in SetupFlags : flag \in params.flags <=> Called(flag, calls)
    /\ LastGiven("SQPOLL", params.sq_thread_idle, calls)
    /\ LastGiven("SQ_AFF", params.sq_thread_cpu, calls)
    /\ LastGiven("ATTACH_WQ", params.wq_fd, calls)
    /\ LastGiven("CQSIZE", params.cq_entries, calls)

Outcome ==
    \/ ring = NoRing
    \/ \E n \in EntryArgs :
          \/ Rejects(n) /\ ring = [status |-> "rejected", asked |-> n]
          \/ ~Rejects(n) /\ CqOverflowed /\ ring = [status |-> "panicked", asked |-> n]
          \/ ~Rejects(n) /\ ring = BuiltRing(n)

(* The whole of it. *)
BuilderInv == ParamsTypeOK /\ ParamsKept /\ Outcome
==============================================================================
