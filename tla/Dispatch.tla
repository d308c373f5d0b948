------------------------------ MODULE Dispatch ------------------------------
(***************************************************************************)
(* The dispatch threads: the closure enqueue_sqes spawns for each batch,   *)
(* and the rule by which flush_pending turns its results into completions. *)
(*                                                                         *)
(* A thread owns its snapshot of SQEs and shares nothing with the rings;   *)
(* what it shares with the user are the buffers the SQEs point to, so a    *)
(* thread remembers which SQEs it has really executed (touched).  A thread *)
(* may panic inside dispatch_op (a sum of lengths that overflows, memory   *)
(* of the user that is gone); it then ends without results.  An SQE        *)
(* is a record with its user_data, its flags link, hardlink and skip (for  *)
(* IO_LINK, IO_HARDLINK and SKIP_SUCCESS) and whatever DispatchOp needs.   *)
(***************************************************************************)
EXTENDS Integers, Sequences

CONSTANT DispatchOp(_)     \* dispatch_op: the result of executing an SQE

VARIABLE threads            \* every thread spawned, in order

ECANCELED == -125

(* Mutant: the thread's loop starts at the second SQE. *)
NewThread_SkipsFirst(sqes) ==
    [sqes |-> Tail(sqes), results |-> <<>>, cancel_chain |-> FALSE, touched |-> {},
     panicked |-> FALSE]
NewThread(sqes) ==
    [sqes |-> sqes, results |-> <<>>, cancel_chain |-> FALSE, touched |-> {},
     panicked |-> FALSE]

Finished(t) == Len(t.results) = Len(t.sqes)
Ended(t) == Finished(t) \/ t.panicked

LinksToNext(sqe) == sqe.link \/ sqe.hardlink

(* Mutant: once cancelled, a chain never ends. *)
CancelNext_NoReset(sqe, result, cancelled) ==
    cancelled \/ (LinksToNext(sqe) /\ ~sqe.hardlink /\ result < 0)

(* cancel_chain after an SQE: a failed soft link raises it, an SQE that    *)
(* does not link to the next clears it, and otherwise it stays, also       *)
(* across a hard link.                                                     *)
CancelNext(sqe, result, cancelled) ==
    /\ LinksToNext(sqe)
    /\ cancelled \/ (~sqe.hardlink /\ result < 0)

(* Mutant: the operation runs although its chain is cancelled. *)
Touched_Always(t, i) == t.touched \cup {i}
Touched(t, i) == IF t.cancel_chain THEN t.touched ELSE t.touched \cup {i}

(* One round of the closure's loop. *)
DispatchSqe(t) ==
    LET i == Len(t.results) + 1
        sqe == t.sqes[i]
        result == IF t.cancel_chain THEN ECANCELED ELSE DispatchOp(sqe)
    IN  [sqes |-> t.sqes,
         results |-> Append(t.results,
            [user_data |-> sqe.user_data, result |-> result, skip_success |-> sqe.skip]),
         cancel_chain |-> CancelNext(sqe, result, t.cancel_chain),
         touched |-> Touched(t, i),
         panicked |-> FALSE]

(* dispatch_op panics: the thread unwinds and its results are gone. *)
Panicked(t) ==
    [sqes |-> t.sqes, results |-> t.results, cancel_chain |-> t.cancel_chain,
     touched |-> t.touched \cup {Len(t.results) + 1}, panicked |-> TRUE]

DispatchInit == threads = <<>>

Spawn(sqes) == threads' = Append(threads, NewThread(sqes))

DispatchStep(b) ==
    /\ ~Ended(threads[b])
    /\ threads' = [threads EXCEPT ![b] = DispatchSqe(@)]

(* A cancelled SQE is not dispatched, and nothing else in the loop panics. *)
ThreadPanics(b) ==
    /\ ~Ended(threads[b])
    /\ ~threads[b].cancel_chain
    /\ threads' = [threads EXCEPT ![b] = Panicked(@)]

(* Mutant: an operation that asked for silence posts no failure either. *)
Posts_Silent(cd) == ~cd.skip_success

(* flush_pending: a successful operation that asked for it posts nothing. *)
Posts(cd) == ~(cd.skip_success /\ cd.result >= 0)
-----------------------------------------------------------------------------
(* Properties *)

(* What the code makes of a chain: i is cancelled iff a soft link that     *)
(* failed comes before it with links all the way between, hard ones too.   *)
(* So a cancelled chain is cancelled to its end, "subsequent linked SQEs   *)
(* get -ECANCELED", also through an SQE with a hard link, which is itself  *)
(* cancelled and fails so.  The comments on hard links say otherwise of    *)
(* this last case: see HardlinkedDispatch.                                 *)
Cancelled(sqes, i) ==
    \E j \in 1 .. i - 1 :
        /\ \A k \in j .. i - 1 : LinksToNext(sqes[k])
        /\ ~sqes[j].hardlink
        /\ DispatchOp(sqes[j]) < 0

ChainResult(sqes, i) == IF Cancelled(sqes, i) THEN ECANCELED ELSE DispatchOp(sqes[i])

(* The running flag cancel_chain, set and cleared SQE by SQE, amounts to   *)
(* that closed rule: an SQE is cancelled for a failed soft link anywhere   *)
(* before it in its own chain, never for one of another chain, and every   *)
(* other one reports the result of its operation, also right behind a hard *)
(* link that was dispatched and failed.  A hard link inside a chain that   *)
(* is already cancelled does not end the cancellation.                     *)
ChainSemantics ==
    \A b \in DOMAIN threads : \A i \in DOMAIN threads[b].results :
        threads[b].results[i].result = ChainResult(threads[b].sqes, i)

(* A thread touches the buffers of exactly the operations it does not      *)
(* cancel, and those in order: an operation reported as -ECANCELED leaves  *)
(* the user's memory alone, "without dispatch", and after a panic nothing  *)
(* more is touched.  As for ChainSemantics, a hard-linked operation of a   *)
(* chain that is already cancelled counts as cancelled.                    *)
CancelledUntouched ==
    \A b \in DOMAIN threads :
        LET t == threads[b]
            reached == Len(t.results) + (IF t.panicked THEN 1 ELSE 0)
        IN  t.touched = {i \in 1 .. reached : ~Cancelled(t.sqes, i)}

(* The comments of enqueue_sqes: "Hardlinked SQEs always dispatch          *)
(* regardless of predecessor result", and of the flag, "my successor       *)
(* should still run even if I fail".  Whether the flag of an SQE is meant  *)
(* or that of its predecessor, one that has it on both sides dispatches,   *)
(* once the thread is past it.  It does not hold: behind a soft link that  *)
(* failed, hard links do not stop the cancellation.                        *)
HardlinkedDispatch ==
    \A b \in DOMAIN threads : \A i \in DOMAIN threads[b].results :
        i > 1 /\ threads[b].sqes[i].hardlink /\ threads[b].sqes[i - 1].hardlink
            => i \in threads[b].touched

IsSequence(s) == s \in Seq({s[i] : i \in DOMAIN s})

(* The results of the first n operations of a batch, as the chains ask. *)
ChainResults(sqes, n) ==
    [i \in 1 .. n |-> [user_data |-> sqes[i].user_data, result |-> ChainResult(sqes, i),
                       skip_success |-> sqes[i].skip]]

(* A thread that has completed n operations.  Its state is determined by   *)
(* its batch, by n and by whether it panicked there: cancel_chain says     *)
(* whether the next operation is cancelled, and such a one cannot panic.   *)
ThreadAt(t, n) ==
    LET reached == IF t.panicked THEN n + 1 ELSE n
    IN  /\ t.results = ChainResults(t.sqes, n)
        /\ t.cancel_chain \in BOOLEAN /\ t.panicked \in BOOLEAN
        /\ t.cancel_chain <=> Cancelled(t.sqes, n + 1)
        /\ t.touched = {i \in 1 .. reached : ~Cancelled(t.sqes, i)}
        /\ t.panicked => n < Len(t.sqes) /\ ~t.cancel_chain

ThreadInv(t) ==
    /\ IsSequence(t.sqes)
    /\ \E n \in 0 .. Len(t.sqes) : ThreadAt(t, n)

(* What every step of a thread keeps true, for all of them: from it follow *)
(* ChainSemantics and CancelledUntouched.                                  *)
DispatchInv ==
    /\ IsSequence(threads)
    /\ \A b \in DOMAIN threads : ThreadInv(threads[b])
==============================================================================
