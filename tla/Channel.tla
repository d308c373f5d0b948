------------------------------- MODULE Channel -------------------------------
(***************************************************************************)
(* What a ring promises its two ends, with no slots, indices or cached     *)
(* copies of indices: a bounded FIFO.  One end publishes entries, the      *)
(* other takes them from the front; nothing is lost, duplicated, reordered *)
(* or overwritten, and at most Capacity entries are in the channel.        *)
(***************************************************************************)
EXTENDS Naturals, Sequences

CONSTANTS Entries,      \* what the channel carries
          Capacity      \* how many of them it holds

VARIABLES queue,        \* published and not yet taken
          out           \* everything taken so far, in order

vars == <<queue, out>>

Init ==
    /\ queue = <<>>
    /\ out = <<>>

(* Publish n entries at once: nothing is visible before all of it is. *)
Publish(n) ==
    /\ Len(queue) + n <= Capacity
    /\ \E es \in [1 .. n -> Entries] : queue' = queue \o es
    /\ UNCHANGED out

(* Take the n oldest entries. *)
Take(n) ==
    /\ n <= Len(queue)
    /\ out' = out \o SubSeq(queue, 1, n)
    /\ queue' = SubSeq(queue, n + 1, Len(queue))

Next == \E n \in 1 .. Capacity : Publish(n) \/ Take(n)

Spec == Init /\ [][Next]_vars
==============================================================================
