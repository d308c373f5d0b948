---------------------------- MODULE MCRingBuilder ----------------------------
(* 2^6 for 2^32, 2^3 for 2^15, 2^4 for 2^16: arguments on both sides of    *)
(* each power of two and of each limit.                                    *)
EXTENDS RingMasks, Bitwise

(* BitAnd is the & of the library. *)
ASSUME BitAndIsLibrary == \A x \in U32 : \A y \in U32 : BitAnd[y][x] = x & y

MCEntryArgs == (0 .. 9) \cup {31, 32, 63}
MCCqArgs == {0, 1, 2, 3, 8, 9, 16, 17, 31, 32, 33, 63}
MCNumbers == {0, 7}
MCWqFds == {-1, 3}
==============================================================================
