------------------------------- MODULE IoUring -------------------------------
(***************************************************************************)
(* The whole ring: both queues, the dispatch threads, the list of pending  *)
(* join handles, and the calls of IoUring and Submitter that drive them.   *)
(*                                                                         *)
(* Four kinds of threads run concurrently: the owner of the                *)
(* SubmissionQueue handle, the owner of the CompletionQueue handle, the    *)
(* thread that makes the calls on IoUring / Submitter (Submitter is not    *)
(* Send, and the calls take turns), and one dispatch thread per batch.     *)
(* Two things can fail under it: the system refuses a thread, so that      *)
(* thread::spawn panics, or a dispatch thread panics and the join reports  *)
(* it.  Either way the call unwinds; the user may catch that and go on, or *)
(* let it drop the ring.                                                   *)
(***************************************************************************)
EXTENDS SubmissionQueue, CompletionQueue, Dispatch, Concatenation, FiniteSets

CONSTANTS Wants,            \* want / min_complete arguments
          MaxFaults         \* bound: panics (of spawn, of threads) in one behaviour

ASSUME WantsAssumption == Wants \subseteq Nat /\ MaxFaults \in Nat

(* Cqe are the completions operations may have: the user_data of an SQE    *)
(* with what dispatch_op returns for it, or with -ECANCELED.               *)
ASSUME CompletionAssumption ==
    \A sqe \in Sqe : \A r \in {DispatchOp(sqe), ECANCELED} :
        [user_data |-> sqe.user_data, res |-> r] \in Cqe

VARIABLES
    pending,        \* RingState.pending: handles not joined yet (thread numbers)
    op,             \* the call in progress: see Calls
    want,           \* its want argument
    results,        \* results of the joined batch flush_pending still has to post
    freed,          \* whether RingMemory has been dropped
    detached,       \* threads whose handle was dropped without a join
    resolved,       \* history: completions handed to post_cqe, in order
    lost            \* history: batches consumed whose thread could not be spawned,
                    \* each with the number of threads spawned before it

faultVars == <<detached, lost>>
callVars == <<pending, op, want, results, freed, resolved, faultVars>>
sysVars == <<sqVars, cqVars, threads, callVars>>

Calls == {"none", "submit", "wait", "completion", "split", "drop", "unwind"}

SysInit ==
    /\ SqInit /\ CqInit /\ DispatchInit
    /\ pending = <<>> /\ op = "none" /\ want = 0 /\ results = <<>>
    /\ freed = FALSE
    /\ detached = {}
    /\ resolved = <<>> /\ lost = <<>>

-----------------------------------------------------------------------------
(* submit, submit_and_wait, submit_with_args, enter: enqueue_sqes, then a  *)
(* flush if at least one completion is wanted.                             *)

StartSubmit(w) ==
    /\ op = "none" /\ ~freed
    /\ op' = IF w > 0 THEN "wait" ELSE "submit"
    /\ want' = w
    /\ UNCHANGED <<cqVars, threads, pending, results, freed, resolved, faultVars>>

CallSubmit(w) == Submit /\ StartSubmit(w)

CallEnter(n, w) == Enter(n) /\ StartSubmit(w)

EnqueueStep ==
    /\ LoadIndices \/ ReadSqe \/ StoreHead
    /\ UNCHANGED <<cqVars, threads, callVars>>

(* Mutants: the new handle goes to the front of the list; it replaces the *)
(* list.                                                                  *)
WithHandle_Front(b) == <<b>> \o pending
WithHandle_Replace(b) == <<b>>
WithHandle(b) == Append(pending, b)

(* thread::spawn with the snapshot, and the push of its handle. *)
SpawnBatch ==
    /\ HandOver
    /\ Spawn(batch)
    /\ pending' = WithHandle(Len(threads) + 1)
    /\ UNCHANGED <<cqVars, op, want, results, freed, resolved, faultVars>>

Faults == Len(lost) + Cardinality({b \in DOMAIN threads : threads[b].panicked})

(* The spawn fails: the snapshot is dropped with the closure, although the *)
(* head has moved on, and submit unwinds.                                  *)
SpawnFails ==
    /\ Faults < MaxFaults
    /\ HandOver
    /\ lost' = Append(lost, [after |-> Len(threads), sqes |-> batch])
    /\ op' = "unwind"
    /\ UNCHANGED <<cqVars, threads, pending, want, results, freed, resolved, detached>>

FinishSubmit ==
    /\ op = "submit" /\ k_pc = "idle"
    /\ op' = "none"
    /\ UNCHANGED <<sqVars, cqVars, threads, pending, want, results, freed, resolved, faultVars>>

-----------------------------------------------------------------------------
(* flush_pending *)

Flushing == op \in {"wait", "completion", "split"} /\ k_pc = "idle"

(* Between two results, or two batches. *)
AtFlushLoop == Flushing /\ p_pc = "idle"

(* join blocks until the thread has run to its end. *)
JoinBatch ==
    /\ AtFlushLoop /\ results = <<>> /\ pending # <<>>
    /\ Finished(threads[Head(pending)])
    /\ results' = threads[Head(pending)].results
    /\ pending' = Tail(pending)
    /\ UNCHANGED <<sqVars, cqVars, threads, op, want, freed, resolved, faultVars>>

(* The thread panicked: expect panics too, inside the loop over drain(..), *)
(* which drops the handles not yet taken as it unwinds.                    *)
FlushPanics ==
    /\ AtFlushLoop /\ results = <<>> /\ pending # <<>>
    /\ threads[Head(pending)].panicked
    /\ pending' = <<>>
    /\ detached' = detached \cup {pending[i] : i \in 2 .. Len(pending)}
    /\ op' = "unwind"
    /\ UNCHANGED <<sqVars, cqVars, threads, want, results, freed, resolved, lost>>

(* The panic has left the library. *)
Unwound ==
    /\ op = "unwind"
    /\ op' = "none"
    /\ UNCHANGED <<sqVars, cqVars, threads, pending, want, results, freed, resolved, faultVars>>

(* Mutant: a suppressed result is looked at again and again. *)
AfterSkip_Same == results
AfterSkip == Tail(results)

SkipResult ==
    /\ AtFlushLoop /\ results # <<>>
    /\ ~Posts(Head(results))
    /\ results' = AfterSkip
    /\ UNCHANGED <<sqVars, cqVars, threads, pending, op, want, freed, resolved, faultVars>>

CqeOf(cd) == [user_data |-> cd.user_data, res |-> cd.result]

PostResult ==
    /\ AtFlushLoop /\ results # <<>>
    /\ Posts(Head(results))
    /\ PostCqe(CqeOf(Head(results)))
    /\ resolved' = Append(resolved, CqeOf(Head(results)))
    /\ results' = Tail(results)
    /\ UNCHANGED <<sqVars, threads, pending, op, want, freed, faultVars>>

PostStep == CqPostStep /\ UNCHANGED <<sqVars, threads, callVars>>

(* Mutant: one batch is enough for flush_pending. *)
FlushDone_OneBatch == AtFlushLoop /\ results = <<>>
FlushDone == AtFlushLoop /\ results = <<>> /\ pending = <<>>

FinishWait ==
    /\ op = "wait" /\ FlushDone
    /\ op' = "none"
    /\ UNCHANGED <<sqVars, cqVars, threads, pending, want, results, freed, resolved, faultVars>>

-----------------------------------------------------------------------------
(* completion, completion_shared, split: flush, then borrow. *)

StartCall(c) ==
    /\ op = "none" /\ ~freed
    /\ op' = c
    /\ UNCHANGED <<sqVars, cqVars, threads, pending, want, results, freed, resolved, faultVars>>

CallCompletion == ~c_open /\ StartCall("completion")

FinishCompletion ==
    /\ op = "completion" /\ FlushDone
    /\ CqBorrow
    /\ op' = "none"
    /\ UNCHANGED <<sqVars, threads, pending, want, results, freed, resolved, faultVars>>

CallSplit == ~c_open /\ ~h_open /\ StartCall("split")

FinishSplit ==
    /\ op = "split" /\ FlushDone
    /\ SqBorrow /\ CqBorrow
    /\ op' = "none"
    /\ UNCHANGED <<threads, pending, want, results, freed, resolved, faultVars>>

-----------------------------------------------------------------------------
(* Dropping the IoUring: RingMemory::drop joins every thread, throws its   *)
(* results (or its panic) away and frees the memory.                       *)

CallDrop == ~c_open /\ ~h_open /\ StartCall("drop")

JoinOnDrop ==
    /\ op = "drop" /\ pending # <<>>
    /\ Ended(threads[Head(pending)])
    /\ pending' = Tail(pending)
    /\ UNCHANGED <<sqVars, cqVars, threads, op, want, results, freed, resolved, faultVars>>

(* Mutant: the memory is freed before the threads are joined. *)
FreeMemory_Early ==
    /\ op = "drop"
    /\ freed' = TRUE /\ op' = "none" /\ pending' = <<>>
    /\ UNCHANGED <<sqVars, cqVars, threads, want, results, resolved, faultVars>>
FreeMemory ==
    /\ op = "drop" /\ pending = <<>>
    /\ freed' = TRUE /\ op' = "none"
    /\ UNCHANGED <<sqVars, cqVars, threads, pending, want, results, resolved, faultVars>>

-----------------------------------------------------------------------------
(* The other threads.  A handle borrows the ring, so none is created while *)
(* split or drop has it exclusively, and a CompletionQueue only comes from *)
(* the calls above.                                                        *)

PushThread ==
    /\ \/ SqBorrow /\ op \notin {"split", "drop"} /\ ~freed
       \/ SqHandle
    /\ UNCHANGED <<cqVars, threads, callVars>>

ReapThread == CqHandle /\ UNCHANGED <<sqVars, threads, callVars>>

DispatchThread(b) == DispatchStep(b) /\ UNCHANGED <<sqVars, cqVars, callVars>>

PanickingThread(b) ==
    /\ Faults < MaxFaults
    /\ ThreadPanics(b)
    /\ UNCHANGED <<sqVars, cqVars, callVars>>

CallStep ==
    \/ EnqueueStep \/ SpawnBatch \/ FinishSubmit
    \/ JoinBatch \/ SkipResult \/ PostResult \/ PostStep
    \/ FlushPanics \/ Unwound
    \/ FinishWait \/ FinishCompletion \/ FinishSplit
    \/ JoinOnDrop \/ FreeMemory

(* After the drop there is nothing left to do. *)
Gone == freed /\ UNCHANGED sysVars

SysNext ==
    \/ \E w \in Wants : CallSubmit(w) \/ \E n \in EnterCounts : CallEnter(n, w)
    \/ CallCompletion \/ CallSplit \/ CallDrop
    \/ CallStep \/ SpawnFails
    \/ PushThread \/ ReapThread
    \/ \E b \in DOMAIN threads : DispatchThread(b) \/ PanickingThread(b)
    \/ Gone

SysSpec == SysInit /\ [][SysNext]_sysVars

(* The scheduler runs every thread: a call in progress continues when it   *)
(* can, and each dispatch thread runs.  The user need not call anything,   *)
(* and nothing has to fail.                                                *)
SysFairness ==
    /\ WF_sysVars(CallStep)
    /\ \A b \in 1 .. MaxPushed :
          WF_sysVars(b \in DOMAIN threads /\ DispatchThread(b))

SysFairSpec == SysSpec /\ SysFairness
-----------------------------------------------------------------------------
(* Properties *)

SysTypeOK ==
    /\ SqTypeOK /\ CqTypeOK
    /\ \A b \in DOMAIN threads :
          /\ threads[b].sqes \in Seq(Sqe)
          /\ threads[b].touched \subseteq DOMAIN threads[b].sqes
    /\ pending \in Seq(DOMAIN threads)
    /\ op \in Calls /\ want \in Wants \cup {0} /\ freed \in BOOLEAN
    /\ detached \subseteq DOMAIN threads
    /\ resolved \in Seq(Cqe)
    /\ lost \in Seq([after : 0 .. Len(threads), sqes : Seq(Sqe)])

(* The completions a batch owes: by the chain semantics, without the       *)
(* successes that asked for silence.                                       *)
BatchCompletions(b) ==
    Concat([i \in DOMAIN b |->
               OnlyIf(~(b[i].skip /\ ChainResult(b, i) >= 0),
                      [user_data |-> b[i].user_data, res |-> ChainResult(b, i)])],
           Len(b))

(* ... and all batches so far, in the order they were submitted, but for   *)
(* those of threads that panicked or that nobody can join any more.        *)
OwedBy ==
    [b \in DOMAIN threads |->
        IF threads[b].panicked \/ b \in detached THEN <<>>
        ELSE BatchCompletions(threads[b].sqes)]

Owed == Concat(OwedBy, Len(threads))

(* What flush_pending posts of the results rs of a thread. *)
ToPost(rs) == Concat([i \in DOMAIN rs |-> OnlyIf(Posts(rs[i]), CqeOf(rs[i]))], Len(rs))

(* The ring implements the abstract executor.  Outstanding are what the    *)
(* flush under way has still to post and what the pending threads will     *)
(* have computed, whether or not they have got there yet; a ring that is   *)
(* being dropped, or that a panicking thread made let go of its handles,   *)
(* gives all of it up at once.                                             *)
Outstanding ==
    IF op = "drop" \/ freed THEN <<>>
    ELSE ToPost(results) \o Concat([i \in DOMAIN pending |->
                              BatchCompletions(threads[pending[i]].sqes)], Len(pending))

Exec == INSTANCE Executor WITH
    Completions <- Cqe, outstanding <- Outstanding, delivered <- resolved

SysIsExecutor == Exec!Spec

(* The calls of post_cqe that have put their completion somewhere. *)
Settled == IF p_pc \in {"idle", "flag"} THEN Len(resolved) ELSE Len(resolved) - 1

PostedOrDropped ==
    \E S \in SUBSET (1 .. Settled) :
        posted = Pick(resolved, S) /\ dropped = Pick(resolved, (1 .. Settled) \ S)

(* End to end: the completions handed to post_cqe are those the submitted  *)
(* operations owe, in submission order, although batches run concurrently; *)
(* each went into the ring or was counted as dropped, and the user reaps   *)
(* the former in order.  No operation completes twice or out of thin air.  *)
CompletesOnce ==
    /\ Len(resolved) <= Len(Owed)
    /\ \A i \in DOMAIN resolved : resolved[i] = Owed[i]
    /\ PostedOrDropped
    /\ \A i \in DOMAIN reaped : reaped[i] = posted[i]

(* The batches lost between the spawn of the nth thread and of the next. *)
LostAfter(n) ==
    Concat([i \in DOMAIN lost |-> IF lost[i].after = n THEN lost[i].sqes ELSE <<>>], Len(lost))

Given == [b \in DOMAIN threads |-> LostAfter(b - 1) \o threads[b].sqes]

(* What the submitter consumed is what the dispatch threads were given, in *)
(* order, with the batch still in hand, and but for the batches whose      *)
(* thread could not be spawned: no SQE falls between ring and threads, or  *)
(* is given to two of them.                                                *)
NothingLost ==
    LET inHand == IF k_pc = "spawn" THEN batch ELSE <<>>
    IN  taken = Concat(Given, Len(threads)) \o LostAfter(Len(threads)) \o inHand

(* A dispatch thread that still runs can be waited for: its handle is in   *)
(* the list, so that flush and drop block on it.  In particular no thread  *)
(* touches user buffers after the ring is gone, or after the completions   *)
(* of its batch began to appear.  The exception are the threads behind a   *)
(* panicked one: a flush that met the panic has detached them, and then    *)
(* they have no completions either.                                        *)
RunningIsPending ==
    \A b \in DOMAIN threads :
        ~Ended(threads[b]) =>
            \/ ~freed /\ \E i \in DOMAIN pending : pending[i] = b
            \/ b \in detached /\ \E c \in 1 .. b - 1 : threads[c].panicked

(* completion(), split() and submit_and_wait(n > 0) return only when every *)
(* operation consumed so far has been completed, and the CompletionQueue   *)
(* they hand out sees all completions that went into the ring.             *)
FlushIsComplete ==
    [][(op \in {"wait", "completion", "split"} /\ op' = "none") =>
          /\ resolved' = Owed'
          /\ Len(resolved') = Len(posted') + Len(dropped')
          /\ op # "wait" => Len(reaped') + WrappingSub(c_tail', c_head') = Len(posted')
      ]_sysVars

(* Every call returns or unwinds, whatever the threads it waits for do:    *)
(* a panicking thread does not leave its joiner waiting.                   *)
CallsReturn == op # "none" ~> op = "none"

(* As long as flushing calls are made again and again, every operation     *)
(* that was consumed is eventually completed, unless a panic cancels it.   *)
Completes ==
    []<>(op \in {"wait", "completion", "split"}) =>
        \A n \in 1 .. MaxPushed :
            (Len(Owed) >= n) ~> (Len(resolved) >= n \/ Len(Owed) < n)

(* RingMemory::drop: "Join any pending dispatch threads before freeing     *)
(* ring memory."                                                           *)
DropJoinsAll == freed => \A b \in DOMAIN threads : Ended(threads[b])

(* Why the safety properties above hold: the inductive invariant.  The     *)
(* call that owns the ring owns both queues' emulator sides.               *)
SysControl ==
    /\ k_pc # "idle" => op \in {"submit", "wait"}
    /\ p_pc # "idle" \/ results # <<>> => Flushing
    /\ freed => op = "none" /\ pending = <<>>
    /\ k_pc = "spawn" => batch \in Seq(Sqe)

(* The pending handles are those of the last threads spawned, in order.    *)
(* Of the threads before them each has ended, or it is detached, and then  *)
(* one further ahead has panicked.                                         *)
Joined == Len(threads) - Len(pending)

SysHandles ==
    /\ Len(pending) <= Len(threads)
    /\ \A i \in DOMAIN pending : pending[i] = Joined + i
    /\ \A b \in 1 .. Joined : Ended(threads[b]) \/ b \in detached
    /\ \A b \in detached : b <= Joined /\ \E c \in 1 .. b - 1 : threads[c].panicked

(* What has been handed to post_cqe, with the rest of the batch at hand,   *)
(* is what the threads joined so far owe; a drop joins without posting.    *)
SysAccount ==
    /\ IsSequence(results)
    /\ \A i \in DOMAIN results : CqeOf(results[i]) \in Cqe
    /\ \E n \in 0 .. Joined :
          /\ resolved \o ToPost(results) = Concat(OwedBy, n)
          /\ op # "drop" /\ ~freed => n = Joined

SysPosted ==
    /\ p_pc # "idle" => resolved # <<>> /\ p_cqe = resolved[Len(resolved)]
    /\ Len(posted) + Len(dropped) = Settled
    /\ PostedOrDropped

(* The whole of it. *)
SysInv ==
    /\ SysTypeOK /\ SqInv /\ CqInv /\ DispatchInv
    /\ SysControl /\ SysHandles /\ SysAccount /\ SysPosted /\ NothingLost
==============================================================================
