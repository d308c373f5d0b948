-------------------------- MODULE MCCompletionQueue --------------------------
(* Model values for the completion ring. *)
EXTENDS CompletionQueue

CONSTANTS c1, c2

MCCqe == {c1, c2}
MCFillSizes == {1, 3}

(* Whether one is dropped does not depend on what the completions are. *)
MCCqeOne == {c1}
==============================================================================
