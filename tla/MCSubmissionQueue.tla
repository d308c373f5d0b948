-------------------------- MODULE MCSubmissionQueue --------------------------
(* Model values for the submission ring. *)
EXTENDS SubmissionQueue

CONSTANTS e1, e2

MCSqe == {e1, e2}
MCBatches == {<<e1, e2>>, <<e2, e1, e1>>}

(* A partial submit, and a count far beyond what can be queued. *)
MCEnterCounts == {1, Modulus - 1}
==============================================================================
