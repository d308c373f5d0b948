----------------------------- MODULE MCDispatch -----------------------------
(* All batches of up to BatchLen SQEs, with every combination of flags and *)
(* of outcomes.                                                            *)
EXTENDS DispatchThreads

CONSTANT BatchLen

MCSqes ==
    [user_data : {1}, link : BOOLEAN, hardlink : BOOLEAN, skip : {FALSE}, res : {0, -38}]
    \cup [user_data : {2}, link : {FALSE}, hardlink : {FALSE}, skip : {TRUE}, res : {42, -38}]

MCBatchInputs == UNION {[1 .. n -> MCSqes] : n \in 1 .. BatchLen}

MCDispatchOp(sqe) == sqe.res
==============================================================================
