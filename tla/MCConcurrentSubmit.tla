------------------------- MODULE MCConcurrentSubmit -------------------------
(* Two submitting threads, no partial submits. *)
EXTENDS ConcurrentSubmit

CONSTANTS e1, t1, t2

MCSqe == {e1}
MCSubmitters == {t1, t2}
==============================================================================
