------------------------------- MODULE Types -------------------------------
(***************************************************************************)
(* The parts of types.rs that compute: destination slots and how they are  *)
(* encoded into an SQE, and the parser of a multishot RecvMsg's buffer.    *)
(* i32, u32 and usize keep their width, scaled down by the constants.      *)
(***************************************************************************)
EXTENDS Integers

CONSTANTS I32Half,          \* 2^31
          UsizeModulus      \* 2^64

ASSUME TypesAssumption == I32Half \in Nat \ {0} /\ UsizeModulus \in Nat \ {0}

TypesU32 == 0 .. 2 * I32Half - 1

(* "as i32" *)
I32(n) == ((n + I32Half) % (2 * I32Half)) - I32Half

-----------------------------------------------------------------------------
(* Slots of the table of registered files.  A caller asks for none, for    *)
(* any free one, or for a slot by its number.                              *)
NoSlot == [how |-> "none", index |-> 0]
AutoSlot == [how |-> "auto", index |-> 0]
SlotNumber(i) == [how |-> "slot", index |-> i]

(* IORING_FILE_INDEX_ALLOC, -1, as u32. *)
AutoAlloc == 2 * I32Half - 1

(* Mutant: checked_sub(1). *)
MaxIndex_OffByOne == AutoAlloc - 1
MaxIndex == AutoAlloc - 2

(* try_from_slot_target: the slots a DestinationSlot exists for. *)
DestinationSlots == {AutoSlot} \cup {SlotNumber(i) : i \in {j \in TypesU32 : j <= MaxIndex}}

(* kernel_index_arg: the NonZeroU32 inside. *)
KernelIndexArg(slot) == IF slot = AutoSlot THEN AutoAlloc ELSE slot.index + 1

(* What each kind of builder takes: Option<u32>, a bool, an                *)
(* Option<DestinationSlot>, or a DestinationSlot.                          *)
SlotRequests(kind) ==
    CASE kind = "none" -> {NoSlot}
      [] kind = "raw" -> {NoSlot} \cup {SlotNumber(i) : i \in TypesU32}
      [] kind = "alloc" -> {NoSlot, AutoSlot}
      [] kind = "option" -> {NoSlot} \cup DestinationSlots
      [] kind = "send_fd" -> DestinationSlots

(* idx as i32 + 1: with overflow checks the build panics, without them the *)
(* sum wraps.                                                              *)
SlotOverflows(kind, slot) ==
    kind = "raw" /\ slot # NoSlot /\ I32(slot.index) = I32Half - 1

SlotWord(kind, slot) ==
    IF slot = NoSlot THEN 0
    ELSE CASE kind = "raw" -> I32(I32(slot.index) + 1)
           [] kind = "alloc" -> -1
           [] kind = "option" -> I32(KernelIndexArg(slot))
           [] kind = "send_fd" -> KernelIndexArg(slot)

-----------------------------------------------------------------------------
(* RecvMsgOut::parse.  A slice of the buffer is given by its ends. *)

DataStart == 16             \* size_of io_uring_recvmsg_out
Usizes == 0 .. UsizeModulus - 1
Usize(n) == n % UsizeModulus
LesserOf(a, b) == IF a < b THEN a ELSE b

(* Mutant: wrapping additions instead of checked ones. *)
HeaderFits_Wrapping(len, name_len, control_len) ==
    len >= Usize(DataStart + name_len + control_len)
HeaderFits(len, name_len, control_len) ==
    /\ DataStart + name_len < UsizeModulus
    /\ DataStart + name_len + control_len < UsizeModulus
    /\ len >= DataStart + name_len + control_len

ParseError == [ok |-> FALSE]

Parse(len, header, name_len, control_len) ==
    IF ~HeaderFits(len, name_len, control_len) THEN ParseError
    ELSE LET control_start == Usize(DataStart + name_len)
             payload_start == Usize(control_start + control_len)
             upTo(start, n) == <<start, Usize(start + n)>>
         IN  [ok |-> TRUE,
              name |-> upTo(DataStart, LesserOf(header.namelen, name_len)),
              control |-> upTo(control_start, LesserOf(header.controllen, control_len)),
              payload |-> upTo(payload_start,
                               LesserOf(header.payloadlen, Usize(len - payload_start)))]
==============================================================================
