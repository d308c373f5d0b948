-------------------------- MODULE ConcurrentSubmit --------------------------
(***************************************************************************)
(* Several threads in submit.  IoUring is declared Sync and submit,        *)
(* submit_and_wait and submitter take &self, so safe code may call them    *)
(* from many threads at once.  Every call has locals of its own and shares *)
(* the indices and the SQE array: the same enqueue_sqes, preempted between *)
(* any two of its steps.                                                   *)
(***************************************************************************)
EXTENDS SubmissionQueue

CONSTANT Submitters     \* threads that call submit

VARIABLES current,      \* the one whose locals are in kernelVars
          saved         \* the locals of the others

concurrentVars == <<sqVars, current, saved>>

Locals == [k_pc |-> k_pc, to_submit |-> to_submit, k_head |-> k_head,
           to_process |-> to_process, batch |-> batch]

ConcurrentInit ==
    /\ SqInit
    /\ current \in Submitters
    /\ saved = [t \in Submitters |-> Locals]

Preempt(t) ==
    /\ t # current
    /\ saved' = [saved EXCEPT ![current] = Locals]
    /\ current' = t
    /\ k_pc' = saved[t].k_pc /\ to_submit' = saved[t].to_submit
    /\ k_head' = saved[t].k_head /\ to_process' = saved[t].to_process
    /\ batch' = saved[t].batch
    /\ UNCHANGED <<sq_head, sq_tail, sqes, handleVars, pushed, taken>>

ConcurrentNext ==
    \/ SqNext /\ UNCHANGED <<current, saved>>
    \/ \E t \in Submitters : Preempt(t)

ConcurrentSpec == ConcurrentInit /\ [][ConcurrentNext]_concurrentVars
-----------------------------------------------------------------------------
(* Properties *)

(* The Safety comment under which RingMemory is Sync: "Access is           *)
(* synchronized through AtomicU32 operations in the ring protocol."  Then  *)
(* an entry that was pushed once is consumed once, whoever submits it.     *)
ConsumedOnce == Len(taken) <= Len(pushed)
==============================================================================
