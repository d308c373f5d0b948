--------------------------- MODULE SubmissionQueue ---------------------------
(***************************************************************************)
(* The submission ring: squeue.rs on the user's side, the first half of    *)
(* Submitter::enqueue_sqes on the emulator's side.                         *)
(*                                                                         *)
(* A SubmissionQueue handle is Send and a Submitter stays on its thread,   *)
(* so the two sides run concurrently.  A step is one atomic load or store  *)
(* of a variable the other side writes, or one access to a slot.           *)
(***************************************************************************)
EXTENDS RingIndex, Sequences

CONSTANTS SqEntries,    \* ring_entries of the SQ
          Sqe,          \* the entries a user may push
          EnterCounts,  \* to_submit arguments given to Submitter::enter
          Batches,      \* slices given to push_multiple
          MaxPushed     \* bound: entries pushed in one behaviour

ASSUME SqAssumption ==
    /\ RingSize(SqEntries)
    /\ EnterCounts \subseteq U32
    /\ Batches \subseteq Seq(Sqe)
    /\ MaxPushed \in Nat

VARIABLES
    sq_head, sq_tail,   \* RingState.sq_head, sq_tail: shared
    sqes,               \* the SQE array: shared
    h_open,             \* whether a SubmissionQueue handle exists
    h_head, h_tail,     \* its fields head, tail: cached copies
    h_pc,               \* where the handle's owner is in a call
    todo,               \* entries push / push_multiple still has to write
    k_pc,               \* where the submitter is in enqueue_sqes
    to_submit,          \* locals of enqueue_sqes ...
    k_head, to_process, batch,
    pushed,             \* history: every entry pushed
    taken               \* history: every entry consumed

handleVars == <<h_open, h_head, h_tail, h_pc, todo>>
kernelVars == <<k_pc, to_submit, k_head, to_process, batch>>
sqVars == <<sq_head, sq_tail, sqes, handleVars, kernelVars, pushed, taken>>

SqSlots == 0 .. SqEntries - 1
SqSlot(x) == Slot(x, SqEntries)

SqInit ==
    /\ sq_head = 0 /\ sq_tail = 0
    /\ sqes = [s \in SqSlots |-> Zeroed]
    /\ h_open = FALSE /\ h_head = 0 /\ h_tail = 0 /\ h_pc = "idle"
    /\ todo = <<>>
    /\ k_pc = "idle" /\ to_submit = 0 /\ k_head = 0 /\ to_process = 0
    /\ batch = <<>>
    /\ pushed = <<>> /\ taken = <<>>

-----------------------------------------------------------------------------
(* The user's side. *)

SqLen == WrappingSub(h_tail, h_head)

(* borrow_shared: submission(), submission_shared() and split() come here. *)
SqBorrow ==
    /\ ~h_open
    /\ h_open' = TRUE
    /\ h_head' = sq_head
    /\ h_tail' = sq_tail
    /\ UNCHANGED <<sq_head, sq_tail, sqes, h_pc, todo, kernelVars, pushed, taken>>

(* Mutant: the fullness test is off by one. *)
HasRoomForOne_OffByOne == SqLen # SqEntries + 1
HasRoomForOne == SqLen # SqEntries

(* Mutant: free entries counted against the published tail only. *)
HasRoomFor_Published(n) == SqEntries - WrappingSub(sq_tail, h_head) >= n
HasRoomFor(n) == SqEntries - SqLen >= n

StartPush(es) ==
    /\ h_open /\ h_pc = "idle"
    /\ Len(pushed) + Len(es) <= MaxPushed
    /\ todo' = es
    /\ h_pc' = "push"
    /\ UNCHANGED <<sq_head, sq_tail, sqes, h_open, h_head, h_tail, kernelVars, pushed, taken>>

(* push: the error return leaves everything alone, so it is a stutter. *)
Push(e) == HasRoomForOne /\ StartPush(<<e>>)

(* push_multiple: all of the slice or, on PushError, none of it. *)
PushMultiple(es) == es # <<>> /\ HasRoomFor(Len(es)) /\ StartPush(es)

(* One push_unchecked: write the slot, then advance the cached tail only. *)
PushUnchecked ==
    /\ h_pc = "push"
    /\ sqes' = [sqes EXCEPT ![SqSlot(h_tail)] = Head(todo)]
    /\ h_tail' = WrappingInc(h_tail)
    /\ pushed' = Append(pushed, Head(todo))
    /\ todo' = Tail(todo)
    /\ h_pc' = IF Len(todo) = 1 THEN "idle" ELSE "push"
    /\ UNCHANGED <<sq_head, sq_tail, h_open, h_head, kernelVars, taken>>

(* sync: publish the tail, then refresh the cached head. *)
SqSyncStore ==
    /\ h_open /\ h_pc = "idle"
    /\ sq_tail' = h_tail
    /\ h_pc' = "sync"
    /\ UNCHANGED <<sq_head, sqes, h_open, h_head, h_tail, todo, kernelVars, pushed, taken>>

SqSyncLoad ==
    /\ h_pc = "sync"
    /\ h_head' = sq_head
    /\ h_pc' = "idle"
    /\ UNCHANGED <<sq_head, sq_tail, sqes, h_open, h_tail, todo, kernelVars, pushed, taken>>

(* Drop publishes the tail and ends the borrow. *)
SqDrop ==
    /\ h_open /\ h_pc = "idle"
    /\ sq_tail' = h_tail
    /\ h_open' = FALSE
    /\ UNCHANGED <<sq_head, sqes, h_head, h_tail, h_pc, todo, kernelVars, pushed, taken>>

SqHandle ==
    \/ \E e \in Sqe : Push(e)
    \/ \E es \in Batches : PushMultiple(es)
    \/ PushUnchecked
    \/ SqSyncStore \/ SqSyncLoad \/ SqDrop

SqUser == SqBorrow \/ SqHandle

-----------------------------------------------------------------------------
(* The emulator's side. *)

StartEnqueue(n) ==
    /\ k_pc = "idle"
    /\ k_pc' = "load"
    /\ to_submit' = n
    /\ UNCHANGED <<sq_head, sq_tail, sqes, handleVars, k_head, to_process, batch, pushed, taken>>

(* submit, submit_and_wait and submit_with_args pass sq_len(), which they  *)
(* compute from a load of the tail before enqueue_sqes loads it again.     *)
Submit == StartEnqueue(WrappingSub(sq_tail, sq_head))

(* enter passes the caller's count. *)
Enter(n) == StartEnqueue(n)

(* Mutants: the count is not clamped to what is queued; the last queued    *)
(* entry is left behind.                                                   *)
ToProcess_Unclamped == to_submit
ToProcess_LeavesOne ==
    LET pending == WrappingSub(sq_tail, sq_head)
    IN  IF to_submit < pending THEN to_submit
        ELSE IF pending = 0 THEN 0 ELSE pending - 1
ToProcess ==
    LET pending == WrappingSub(sq_tail, sq_head)
    IN  IF to_submit < pending THEN to_submit ELSE pending

(* Mutant: the head is published before the slots have been copied. *)
LoadIndices_ReleaseEarly ==
    /\ k_pc = "load"
    /\ k_head' = sq_head
    /\ to_process' = ToProcess
    /\ k_pc' = IF ToProcess = 0 THEN "idle" ELSE "read"
    /\ batch' = <<>>
    /\ sq_head' = WrappingAdd(sq_head, ToProcess)
    /\ UNCHANGED <<sq_tail, sqes, handleVars, to_submit, pushed, taken>>

(* Load head and tail; nothing to process is an early return. *)
LoadIndices ==
    /\ k_pc = "load"
    /\ k_head' = sq_head
    /\ to_process' = ToProcess
    /\ k_pc' = IF ToProcess = 0 THEN "idle" ELSE "read"
    /\ batch' = <<>>
    /\ UNCHANGED <<sq_head, sq_tail, sqes, handleVars, to_submit, pushed, taken>>

(* Copy one SQE out of the ring. *)
ReadSqe ==
    /\ k_pc = "read"
    /\ Len(batch) < to_process
    /\ batch' = Append(batch, sqes[SqSlot(k_head)])
    /\ k_head' = WrappingInc(k_head)
    /\ UNCHANGED <<sq_head, sq_tail, sqes, handleVars, k_pc, to_submit, to_process, pushed, taken>>

(* Release the slots: only now may the user overwrite them. *)
StoreHead ==
    /\ k_pc = "read"
    /\ Len(batch) = to_process
    /\ sq_head' = k_head
    /\ taken' = taken \o batch
    /\ k_pc' = "spawn"
    /\ UNCHANGED <<sq_tail, sqes, handleVars, to_submit, k_head, to_process, batch, pushed>>

(* The batch moves into the closure of the dispatch thread. *)
HandOver ==
    /\ k_pc = "spawn"
    /\ k_pc' = "idle"
    /\ batch' = <<>>
    /\ UNCHANGED <<sq_head, sq_tail, sqes, handleVars, to_submit, k_head, to_process, pushed, taken>>

SqKernelStep == LoadIndices \/ ReadSqe \/ StoreHead \/ HandOver

SqKernel ==
    \/ Submit
    \/ \E n \in EnterCounts : Enter(n)
    \/ SqKernelStep

SqNext == SqUser \/ SqKernel

SqSpec == SqInit /\ [][SqNext]_sqVars

(* A thread inside a call of the library keeps running.  Which calls the   *)
(* user makes is left open.                                                *)
SqFairness == WF_sqVars(SqKernelStep) /\ WF_sqVars(PushUnchecked \/ SqSyncLoad)

SqFairSpec == SqSpec /\ SqFairness
-----------------------------------------------------------------------------
(* Properties *)

(* The handle's view while one exists, the published indices otherwise. *)
UserHead == IF h_open THEN h_head ELSE sq_head
UserTail == IF h_open THEN h_tail ELSE sq_tail

(* The slots of the n positions from x on. *)
SlotsFrom(x, n) == {SqSlot(WrappingAdd(x, i)) : i \in 0 .. n - 1}

SqTypeOK ==
    /\ sq_head \in U32 /\ sq_tail \in U32
    /\ sqes \in [SqSlots -> Sqe \cup {Zeroed}]
    /\ h_open \in BOOLEAN /\ h_head \in U32 /\ h_tail \in U32
    /\ h_pc \in {"idle", "push", "sync"}
    /\ todo \in Seq(Sqe)
    /\ k_pc \in {"idle", "load", "read", "spawn"}
    /\ to_submit \in U32 /\ k_head \in U32 /\ to_process \in U32
    /\ batch \in Seq(Sqe \cup {Zeroed})
    /\ pushed \in Seq(Sqe) /\ taken \in Seq(Sqe \cup {Zeroed})

(* The slot push_unchecked is about to write holds no entry that is still  *)
(* queued, published or not, and is not one enqueue_sqes has yet to copy:  *)
(* the plain accesses to the SQE array never race, although push decides   *)
(* on a cached head and enqueue_sqes releases the slots with one store.    *)
SqNoRace ==
    h_pc = "push" =>
        /\ SqSlot(h_tail) \notin SlotsFrom(sq_head, WrappingSub(h_tail, sq_head))
        /\ k_pc = "read" =>
              SqSlot(h_tail) \notin SlotsFrom(k_head, to_process - Len(batch))

(* Everything enqueue_sqes has copied out of the ring, the batch it is     *)
(* still copying included, is what was pushed, in the order it was pushed: *)
(* none is skipped, taken twice or read before it was written, over any    *)
(* number of wraps of the u32 indices.                                     *)
SqFifo ==
    LET copied == IF k_pc = "read" THEN taken \o batch ELSE taken
    IN  /\ Len(copied) <= Len(pushed)
        /\ \A i \in 1 .. Len(copied) : copied[i] = pushed[i]

(* Why the two properties above hold: the inductive invariant.  Counted    *)
(* from the head the user knows, the shared head comes before the shared   *)
(* tail, which comes before the user's tail, and what a push call still    *)
(* has to write fits before the ring closes on itself.                     *)
SqOrder ==
    /\ WrappingSub(sq_head, UserHead) <= WrappingSub(sq_tail, UserHead)
    /\ WrappingSub(sq_tail, UserHead) <= WrappingSub(UserTail, UserHead)
    /\ WrappingSub(UserTail, UserHead) + Len(todo) <= SqEntries

SqControl ==
    /\ h_pc = "push" <=> todo # <<>>
    /\ h_pc # "idle" => h_open

(* The entries being copied are still queued: their slots are not free. *)
SqReading ==
    k_pc = "read" =>
        /\ to_process <= WrappingSub(sq_tail, sq_head)
        /\ Len(batch) <= to_process
        /\ k_head = WrappingAdd(sq_head, Len(batch))

(* From the shared head to the user's tail the slots hold the entries      *)
(* pushed and not yet consumed, in order.                                  *)
SqContents ==
    /\ Len(pushed) = Len(taken) + WrappingSub(UserTail, sq_head)
    /\ \A i \in 0 .. WrappingSub(UserTail, sq_head) - 1 :
          sqes[SqSlot(WrappingAdd(sq_head, i))] = pushed[Len(taken) + i + 1]

SqCopied ==
    /\ \A i \in 1 .. Len(taken) : taken[i] = pushed[i]
    /\ k_pc = "read" =>
          \A i \in 1 .. Len(batch) : batch[i] = pushed[Len(taken) + i]

(* The whole of it. *)
SqInv == SqTypeOK /\ SqOrder /\ SqControl /\ SqReading /\ SqContents /\ SqCopied

(* The ring implements the abstract FIFO: what lies between the published  *)
(* indices is the channel's contents, and publication is all or nothing.   *)
SqPublished ==
    [i \in 1 .. WrappingSub(sq_tail, sq_head) |->
        sqes[SqSlot(WrappingAdd(sq_head, i - 1))]]

SqChannel == INSTANCE Channel WITH
    Entries <- Sqe, Capacity <- SqEntries, queue <- SqPublished, out <- taken

SqIsChannel == SqChannel!Spec

(* As long as submit is called again and again, every published entry is   *)
(* eventually consumed, whatever the pushing thread does meanwhile.        *)
PublishedCount == Len(taken) + WrappingSub(sq_tail, sq_head)

SqDrains ==
    []<><<Submit>>_sqVars =>
        \A n \in 1 .. MaxPushed : (PublishedCount >= n) ~> (Len(taken) >= n)
==============================================================================
