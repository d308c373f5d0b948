------------------------------ MODULE RingMasks ------------------------------
(* The masks of the rings that are built, as the code uses them. *)
EXTENDS RingBuilder

(* x & y is BitAnd[y][x]: bit by bit, from the lowest one.  A function and *)
(* not a RECURSIVE operator, so that it can be reasoned about.             *)
BitAnd[y \in U32] ==
    [x \in U32 |->
        IF y = 0 THEN 0 ELSE 2 * BitAnd[y \div 2][x \div 2] + (x % 2) * (y % 2)]

(* & with the mask, which is how both sides of a ring find the slot of a   *)
(* position, is the remainder that the ring modules take for it, over the  *)
(* whole range of u32; a CQ whose size overflowed has no slots.            *)
MaskSelectsSlot ==
    LET selects(entries, mask) == \A x \in U32 : BitAnd[mask][x] = Slot(x, entries)
    IN  Built =>
          /\ selects(ring.params.sq_entries, ring.sq_ring_mask)
          /\ CqOverflowed \/ selects(ring.params.cq_entries, ring.cq_ring_mask)
==============================================================================
