------------------------------ MODULE Executor ------------------------------
(***************************************************************************)
(* What the ring as a whole promises, without rings, threads or handles:   *)
(* operations are accepted in batches and completed one by one in the      *)
(* order in which they were accepted.  Either all that is outstanding is   *)
(* still to come or, when the ring is dropped or a thread under it has     *)
(* panicked, none of it is.                                                *)
(***************************************************************************)
EXTENDS Sequences, Naturals

CONSTANT Completions

VARIABLES outstanding,  \* completions of accepted operations, still to come
          delivered     \* completions so far

Init == outstanding = <<>> /\ delivered = <<>>

(* A batch, and what it will complete with. *)
Accept ==
    /\ outstanding' \in Seq(Completions)
    /\ Len(outstanding') > Len(outstanding)
    /\ SubSeq(outstanding', 1, Len(outstanding)) = outstanding
    /\ UNCHANGED delivered

Deliver ==
    /\ outstanding # <<>>
    /\ delivered' = Append(delivered, Head(outstanding))
    /\ outstanding' = Tail(outstanding)

GiveUp == outstanding' = <<>> /\ UNCHANGED delivered

Next == Accept \/ Deliver \/ GiveUp

Spec == Init /\ [][Next]_<<outstanding, delivered>>
==============================================================================
