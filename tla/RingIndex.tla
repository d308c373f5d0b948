------------------------------ MODULE RingIndex ------------------------------
(***************************************************************************)
(* The index arithmetic both rings share.  Ring positions are free-running *)
(* u32 counters; only their low bits select a slot.  Modulus stands for    *)
(* 2^32: it is a parameter so that TLC can drive the counters round the    *)
(* wrap, and so that the proofs do not depend on its value.                *)
(***************************************************************************)
EXTENDS Integers

CONSTANTS Modulus,     \* 2^32
          Zeroed        \* contents of a slot nobody wrote

ASSUME ModulusAssumption == Modulus \in Nat \ {0}

U32 == 0 .. Modulus - 1

(* Mutant: the increment does not wrap. *)
WrappingInc_NoWrap(x) == x + 1

(* u32::wrapping_add(1) and u32::wrapping_sub on values already in U32. *)
WrappingInc(x) == IF x + 1 = Modulus THEN 0 ELSE x + 1
WrappingSub(x, y) == IF x >= y THEN x - y ELSE x + Modulus - y

(* The position n places after x: n uses of wrapping_add(1). *)
WrappingAdd(x, n) == IF x + n >= Modulus THEN x + n - Modulus ELSE x + n

(* x & ring_mask, where ring_mask = entries - 1 and entries is a power of  *)
(* two: the remainder of the division by entries.                          *)
Slot(x, entries) == x % entries

(* entries is a power of two below 2^32: all that is used of it is that it *)
(* divides the modulus and is smaller, so that a full ring (length =       *)
(* entries) can be told from an empty one.                                 *)
RingSize(entries) ==
    /\ entries \in Nat \ {0}
    /\ entries < Modulus
    /\ Modulus % entries = 0
==============================================================================
