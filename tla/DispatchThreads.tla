--------------------------- MODULE DispatchThreads ---------------------------
(***************************************************************************)
(* The dispatch threads on their own: any batch may be spawned at any      *)
(* time, and the threads run, and panic, in any order.                     *)
(***************************************************************************)
EXTENDS Dispatch

CONSTANTS BatchInputs,      \* the batches that may be spawned
          MaxThreads        \* bound: threads spawned in one behaviour

(* enqueue_sqes hands the thread a Vec of SQEs. *)
ASSUME BatchAssumption ==
    /\ \A sqes \in BatchInputs : IsSequence(sqes)
    /\ MaxThreads \in Nat

DispatchNext ==
    \/ /\ Len(threads) < MaxThreads
       /\ \E sqes \in BatchInputs : Spawn(sqes)
    \/ \E b \in DOMAIN threads : DispatchStep(b) \/ ThreadPanics(b)

DispatchSpec == DispatchInit /\ [][DispatchNext]_threads
==============================================================================
