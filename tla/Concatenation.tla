--------------------------- MODULE Concatenation ---------------------------
(* Sequences made of several, and of some elements of another. *)
EXTENDS Naturals, Sequences

(* The concatenation of the first n sequences of s. *)
Concat(s, n) ==
    LET c[i \in 0 .. n] == IF i = 0 THEN <<>> ELSE c[i - 1] \o s[i] IN c[n]

(* x if it is wanted, nothing otherwise. *)
OnlyIf(wanted, x) == IF wanted THEN <<x>> ELSE <<>>

(* The elements of s at the positions in S, in order. *)
Pick(s, S) == Concat([i \in DOMAIN s |-> OnlyIf(i \in S, s[i])], Len(s))
=============================================================================
