------------------------------ MODULE MCIoUring ------------------------------
(* Model values for the whole ring. *)
EXTENDS IoUring

SqeOf(id, link, skip, res) ==
    [user_data |-> id, link |-> link, hardlink |-> FALSE, skip |-> skip, res |-> res]

(* A failing soft link and a success that wants no completion. *)
MCSqe == {SqeOf(1, TRUE, FALSE, -38), SqeOf(2, FALSE, TRUE, 0)}
MCBatches == {<<SqeOf(1, TRUE, FALSE, -38), SqeOf(2, FALSE, TRUE, 0)>>}
MCCqe == [user_data : {1, 2}, res : {-38, 0, ECANCELED}]
MCEnterCounts == {1}
MCWants == {0, 1}
MCFillSizes == {2}
MCDispatchOp(sqe) == sqe.res
==============================================================================
