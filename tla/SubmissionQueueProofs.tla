------------------------ MODULE SubmissionQueueProofs ------------------------
(***************************************************************************)
(* Proofs about the submission ring, for every ring size that divides the  *)
(* modulus, every set of entries and any number of pushes.                 *)
(***************************************************************************)
EXTENDS SubmissionQueue, RingIndexProofs, SequenceLemmas

(* What is used of the constants. *)
LEMMA SqConstants ==
    /\ SqEntries \in Nat \ {0} /\ SqEntries < Modulus
    /\ Modulus \in Nat \ {0}
    /\ U32 \subseteq Nat
    /\ EnterCounts \subseteq U32
    /\ Batches \subseteq Seq(Sqe)
  BY SqAssumption, ModulusAssumption DEF RingSize, U32

(* Masking maps into the array, and keeps positions that are less than a   *)
(* ring apart in different slots.                                          *)
LEMMA SqSlotFacts ==
    /\ \A x \in U32 : SqSlot(x) \in SqSlots
    /\ \A x, y \in U32 :
          WrappingSub(x, y) \in 1 .. SqEntries - 1 => SqSlot(x) # SqSlot(y)
  BY SqAssumption, SlotInRange, SlotDistinct DEF SqSlot, SqSlots

(* The distances SqOrder is about, rewritten from the shared head.  They   *)
(* are all at most SqEntries, and so below the modulus.                    *)
LEMMA SqDistances ==
    ASSUME SqTypeOK, SqOrder
    PROVE  /\ UserHead \in U32 /\ UserTail \in U32
           /\ WrappingSub(UserTail, UserHead) \in 0 .. SqEntries
           /\ WrappingSub(sq_head, UserHead) \in 0 .. SqEntries
           /\ WrappingSub(sq_tail, UserHead) \in 0 .. SqEntries
           /\ WrappingSub(UserTail, sq_head)
                = WrappingSub(UserTail, UserHead) - WrappingSub(sq_head, UserHead)
           /\ WrappingSub(sq_tail, sq_head)
                = WrappingSub(sq_tail, UserHead) - WrappingSub(sq_head, UserHead)
           /\ WrappingSub(sq_tail, sq_head) \in 0 .. WrappingSub(UserTail, sq_head)
           /\ WrappingSub(UserTail, sq_head) + Len(todo) <= SqEntries
           /\ WrappingSub(UserTail, sq_head) \in 0 .. SqEntries
           /\ Len(todo) \in Nat
<1>1. UserHead \in U32 /\ UserTail \in U32 /\ sq_head \in U32 /\ sq_tail \in U32
  BY DEF SqTypeOK, UserHead, UserTail
<1>2. Len(todo) \in Nat
  BY DEF SqTypeOK
<1>3. /\ WrappingSub(UserTail, UserHead) \in Nat
      /\ WrappingSub(sq_head, UserHead) \in Nat
      /\ WrappingSub(sq_tail, UserHead) \in Nat
  BY <1>1, WrapTypes, SqConstants
<1>4. WrappingSub(sq_head, UserHead) <= WrappingSub(UserTail, UserHead)
  BY <1>3 DEF SqOrder
<1>5. /\ WrappingSub(UserTail, sq_head)
            = WrappingSub(UserTail, UserHead) - WrappingSub(sq_head, UserHead)
      /\ WrappingSub(sq_tail, sq_head)
            = WrappingSub(sq_tail, UserHead) - WrappingSub(sq_head, UserHead)
  BY <1>1, <1>4, SubSplit DEF SqOrder
<1> QED
  BY <1>1, <1>2, <1>3, <1>4, <1>5, SqConstants DEF SqOrder

LEMMA SqInvInit == SqInit => SqInv
<1> SUFFICES ASSUME SqInit PROVE SqInv
  OBVIOUS
<1>1. 0 \in U32 /\ WrappingSub(0, 0) = 0
  BY SqConstants, SubSelf DEF U32
<1>2. SqTypeOK
  <2>1. sqes \in [SqSlots -> Sqe \cup {Zeroed}]
    BY DEF SqInit
  <2>2. h_open \in BOOLEAN
    BY DEF SqInit
  <2>3. todo \in Seq(Sqe) /\ pushed \in Seq(Sqe)
    BY DEF SqInit
  <2>4. batch \in Seq(Sqe \cup {Zeroed}) /\ taken \in Seq(Sqe \cup {Zeroed})
    BY DEF SqInit
  <2> QED
    BY <1>1, <2>1, <2>2, <2>3, <2>4 DEF SqInit, SqTypeOK
<1>3. UserHead = 0 /\ UserTail = 0
  BY DEF SqInit, UserHead, UserTail
<1>4. SqOrder
  BY <1>1, <1>3, SqConstants DEF SqInit, SqOrder
<1>5. SqControl /\ SqReading
  BY DEF SqInit, SqControl, SqReading
<1>6. SqContents
  BY <1>1, <1>3 DEF SqInit, SqContents
<1>7. SqCopied
  BY DEF SqInit, SqCopied
<1> QED
  BY <1>2, <1>4, <1>5, <1>6, <1>7 DEF SqInv

-----------------------------------------------------------------------------
(* One lemma per group of actions: each preserves the invariant. *)

(* Opening a handle, and the control steps that touch neither the ring nor *)
(* the histories.                                                          *)
LEMMA BorrowKeepsInv == SqInv /\ SqBorrow => SqInv'
<1> SUFFICES ASSUME SqInv, SqBorrow PROVE SqInv'
  OBVIOUS
<1> USE DEF SqInv, SqBorrow, kernelVars
<1>1. UserHead' = UserHead /\ UserTail' = UserTail
  BY DEF UserHead, UserTail
<1>2. SqTypeOK'
  BY DEF SqTypeOK
<1>3. SqOrder' /\ SqContents'
  BY <1>1 DEF SqOrder, SqContents
<1>4. SqControl' /\ SqReading' /\ SqCopied'
  BY DEF SqControl, SqReading, SqCopied
<1> QED
  BY <1>2, <1>3, <1>4

LEMMA StartPushKeepsInv ==
    ASSUME SqInv, NEW es \in Seq(Sqe), es # <<>>,
           SqLen + Len(es) <= SqEntries, StartPush(es)
    PROVE  SqInv'
<1> USE DEF SqInv, StartPush, kernelVars
<1>1. UserHead' = UserHead /\ UserTail' = UserTail
  BY DEF UserHead, UserTail
<1>2. SqTypeOK'
  BY DEF SqTypeOK
<1>3. SqLen = WrappingSub(UserTail, UserHead)
  BY DEF SqLen, UserTail, UserHead
<1>4. SqOrder'
  BY <1>1, <1>3 DEF SqOrder
<1>5. SqContents'
  BY <1>1 DEF SqContents
<1>6. SqControl' /\ SqReading' /\ SqCopied'
  BY DEF SqControl, SqReading, SqCopied
<1> QED
  BY <1>2, <1>4, <1>5, <1>6

(* push and push_multiple start only when everything fits. *)
LEMMA PushKeepsInv ==
    /\ \A e \in Sqe : SqInv /\ Push(e) => SqInv'
    /\ \A es \in Batches : SqInv /\ PushMultiple(es) => SqInv'
<1>1. ASSUME NEW e \in Sqe, SqInv, Push(e) PROVE SqInv'
  <2>1. /\ <<e>> \in Seq(Sqe) /\ <<e>> # <<>> /\ Len(<<e>>) = 1
    OBVIOUS
  <2>2. SqLen = WrappingSub(UserTail, UserHead)
    BY <1>1 DEF Push, StartPush, SqLen, UserTail, UserHead
  <2>3. SqLen \in 0 .. SqEntries
    BY <1>1, <2>2, SqDistances DEF SqInv
  <2>4. SqLen + 1 <= SqEntries
    BY <1>1, <2>3, SqConstants DEF Push, HasRoomForOne
  <2> QED
    BY <1>1, <2>1, <2>4, StartPushKeepsInv DEF Push
<1>2. ASSUME NEW es \in Batches, SqInv, PushMultiple(es) PROVE SqInv'
  <2>1. es \in Seq(Sqe) /\ es # <<>> /\ Len(es) \in Nat
    BY <1>2, SqConstants DEF PushMultiple
  <2>2. SqLen = WrappingSub(UserTail, UserHead)
    BY <1>2 DEF PushMultiple, StartPush, SqLen, UserTail, UserHead
  <2>3. SqLen \in 0 .. SqEntries
    BY <1>2, <2>2, SqDistances DEF SqInv
  <2>4. SqLen + Len(es) <= SqEntries
    BY <1>2, <2>1, <2>3, SqConstants DEF PushMultiple, HasRoomFor
  <2> QED
    BY <1>2, <2>1, <2>4, StartPushKeepsInv DEF PushMultiple
<1> QED
  BY <1>1, <1>2

(* Writing one entry: the slot is free, because the positions from the     *)
(* shared head to the user's tail number fewer than SqEntries.             *)
LEMMA PushUncheckedKeepsInv == SqInv /\ PushUnchecked => SqInv'
<1> SUFFICES ASSUME SqInv, PushUnchecked PROVE SqInv'
  OBVIOUS
<1> DEFINE L == WrappingSub(UserTail, sq_head)
<1>1. h_open /\ todo # <<>> /\ todo \in Seq(Sqe) /\ sq_head \in U32
  BY DEF SqInv, SqControl, SqTypeOK, PushUnchecked
<1>2. /\ Head(todo) \in Sqe /\ Tail(todo) \in Seq(Sqe)
      /\ Len(Tail(todo)) = Len(todo) - 1 /\ Len(todo) \in Nat \ {0}
  BY <1>1
<1>3. /\ UserHead = h_head /\ UserTail = h_tail
      /\ UserHead' = h_head /\ UserTail' = WrappingInc(h_tail)
  BY <1>1 DEF UserHead, UserTail, PushUnchecked
<1>4. h_head \in U32 /\ h_tail \in U32 /\ WrappingInc(h_tail) \in U32
  BY WrapTypes DEF SqInv, SqTypeOK
<1>5. L \in Nat /\ L + Len(todo) <= SqEntries
  BY <1>2, SqDistances, SqConstants DEF SqInv
<1>6. /\ WrappingSub(WrappingInc(h_tail), h_head) = WrappingSub(h_tail, h_head) + 1
      /\ WrappingSub(WrappingInc(h_tail), sq_head) = L + 1
  <2>1. WrappingSub(h_tail, h_head) + 1 < Modulus
    BY <1>2, <1>3, SqDistances, SqConstants DEF SqInv, SqOrder
  <2>2. WrappingSub(h_tail, sq_head) + 1 < Modulus
    BY <1>2, <1>3, <1>5, SqConstants
  <2> QED
    BY <1>1, <1>3, <1>4, <2>1, <2>2, SubInc
<1>7. SqTypeOK'
  <2>1. sqes' \in [SqSlots -> Sqe \cup {Zeroed}]
    BY <1>2, <1>4, SqSlotFacts DEF SqInv, SqTypeOK, PushUnchecked
  <2>2. pushed' \in Seq(Sqe)
    BY <1>2 DEF SqInv, SqTypeOK, PushUnchecked
  <2>3. h_pc' \in {"idle", "push", "sync"}
    BY DEF PushUnchecked
  <2> QED
    BY <1>2, <1>4, <2>1, <2>2, <2>3 DEF SqInv, SqTypeOK, PushUnchecked, kernelVars
<1>8. SqOrder'
  <2>1. /\ WrappingSub(h_tail, h_head) \in 0 .. SqEntries
        /\ WrappingSub(sq_head, h_head) \in 0 .. SqEntries
        /\ WrappingSub(sq_tail, h_head) \in 0 .. SqEntries
    BY <1>3, SqDistances DEF SqInv
  <2>2. /\ WrappingSub(sq_head, h_head) <= WrappingSub(sq_tail, h_head)
        /\ WrappingSub(sq_tail, h_head) <= WrappingSub(h_tail, h_head)
        /\ WrappingSub(h_tail, h_head) + Len(todo) <= SqEntries
    BY <1>3 DEF SqInv, SqOrder
  <2>3. sq_head' = sq_head /\ sq_tail' = sq_tail /\ todo' = Tail(todo)
    BY DEF PushUnchecked
  <2> QED
    BY <1>2, <1>3, <1>6, <2>1, <2>2, <2>3, SqConstants DEF SqOrder
<1>9. SqControl'
  BY <1>1, <1>2 DEF SqInv, SqControl, PushUnchecked
<1>10. SqReading'
  BY DEF SqInv, SqReading, PushUnchecked, kernelVars
<1>11. pushed \in Seq(Sqe) /\ Len(pushed) = Len(taken) + L /\ Len(taken) \in Nat
  BY DEF SqInv, SqTypeOK, SqContents
<1>12. /\ Len(pushed') = Len(pushed) + 1
       /\ pushed'[Len(pushed) + 1] = Head(todo)
       /\ \A i \in 1 .. Len(pushed) : pushed'[i] = pushed[i]
  BY <1>2, <1>11 DEF PushUnchecked
<1>13. SqContents'
  <2>1. Len(pushed') = Len(taken) + WrappingSub(UserTail', sq_head)
    BY <1>3, <1>5, <1>6, <1>11, <1>12
  <2>2. ASSUME NEW i \in 0 .. L
        PROVE  sqes'[SqSlot(WrappingAdd(sq_head, i))] = pushed'[Len(taken) + i + 1]
    <3>0. i \in U32
      BY <1>2, <1>5, SqConstants DEF U32
    <3>1. i \in U32 /\ WrappingAdd(sq_head, i) \in U32
      BY <1>1, <3>0, WrapTypes
    <3>2. CASE i = L
      <4>1. WrappingAdd(sq_head, i) = h_tail
        BY <1>1, <1>3, <1>4, <3>2, AddSub
      <4>2. sqes'[SqSlot(h_tail)] = Head(todo)
        BY <1>4, SqSlotFacts DEF SqInv, SqTypeOK, PushUnchecked
      <4> QED
        BY <1>5, <1>11, <1>12, <3>2, <4>1, <4>2
    <3>3. CASE i < L
      <4>1. WrappingSub(h_tail, WrappingAdd(sq_head, i)) = L - i
        BY <1>1, <1>3, <1>4, <1>5, <3>1, <3>3, SubAdd
      <4>2. L - i \in 1 .. SqEntries - 1
        BY <1>2, <1>5, <3>3, SqConstants
      <4>3. SqSlot(h_tail) # SqSlot(WrappingAdd(sq_head, i))
        BY <1>4, <3>1, <4>1, <4>2, SqSlotFacts
      <4>4. sqes'[SqSlot(WrappingAdd(sq_head, i))] = sqes[SqSlot(WrappingAdd(sq_head, i))]
        BY <3>1, <4>3, SqSlotFacts DEF SqInv, SqTypeOK, PushUnchecked
      <4>5. sqes[SqSlot(WrappingAdd(sq_head, i))] = pushed[Len(taken) + i + 1]
        BY <1>5, <3>3 DEF SqInv, SqContents
      <4>6. Len(taken) + i + 1 \in 1 .. Len(pushed)
        BY <1>5, <1>11, <3>3
      <4> QED
        BY <1>12, <4>4, <4>5, <4>6
    <3> QED
      BY <1>5, <3>2, <3>3
  <2>3. sq_head' = sq_head /\ taken' = taken
    BY DEF PushUnchecked
  <2>4. WrappingSub(UserTail', sq_head) = L + 1
    BY <1>3, <1>6
  <2> HIDE DEF L
  <2>5. WrappingSub(UserTail', sq_head) - 1 = L
    BY <1>5, <2>4
  <2>6. \A i \in 0 .. WrappingSub(UserTail', sq_head) - 1 :
          sqes'[SqSlot(WrappingAdd(sq_head, i))] = pushed'[Len(taken) + i + 1]
    BY <2>2, <2>5
  <2> QED
    BY <2>1, <2>3, <2>6 DEF SqContents
<1>14. SqCopied'
  <2>1. taken' = taken /\ batch' = batch /\ k_pc' = k_pc /\ Len(batch) \in Nat
    BY DEF PushUnchecked, kernelVars, SqInv, SqTypeOK
  <2>2. k_pc = "read" => Len(batch) <= L
    <3>1. to_process \in Nat
      BY SqConstants DEF SqInv, SqTypeOK
    <3>2. WrappingSub(sq_tail, sq_head) \in 0 .. L
      BY SqDistances DEF SqInv
    <3> QED
      BY <1>5, <2>1, <3>1, <3>2 DEF SqInv, SqReading
  <2>3. \A i \in 1 .. Len(taken) : taken[i] = pushed'[i]
    BY <1>5, <1>11, <1>12 DEF SqInv, SqCopied
  <2>4. k_pc = "read" => \A i \in 1 .. Len(batch) : batch[i] = pushed'[Len(taken) + i]
    BY <1>5, <1>11, <1>12, <2>1, <2>2 DEF SqInv, SqCopied
  <2> QED
    BY <2>1, <2>3, <2>4 DEF SqCopied
<1> QED
  BY <1>7, <1>8, <1>9, <1>10, <1>13, <1>14 DEF SqInv

(* Publishing the tail, by sync or by Drop: it only moves forward, to      *)
(* where the user's tail is.                                               *)
LEMMA PublishKeepsInv == SqInv /\ (SqSyncStore \/ SqDrop) => SqInv'
<1> SUFFICES ASSUME SqInv, SqSyncStore \/ SqDrop PROVE SqInv'
  OBVIOUS
<1>1. /\ h_open /\ h_pc = "idle" /\ sq_tail' = h_tail /\ sq_head' = sq_head
      /\ sqes' = sqes /\ h_head' = h_head /\ h_tail' = h_tail /\ todo' = todo
      /\ UNCHANGED <<kernelVars, pushed, taken>>
      /\ \/ h_open' = h_open /\ h_pc' = "sync"
         \/ h_open' = FALSE /\ h_pc' = "idle"
  BY DEF SqSyncStore, SqDrop
<1>2. todo = <<>> /\ Len(todo) = 0
  BY <1>1 DEF SqInv, SqControl
<1>3. /\ UserHead = h_head /\ UserTail = h_tail /\ UserTail' = h_tail
      /\ UserHead' = h_head \/ UserHead' = sq_head
  BY <1>1 DEF UserHead, UserTail
<1>4. h_head \in U32 /\ h_tail \in U32 /\ sq_head \in U32
  BY DEF SqInv, SqTypeOK
<1>5. SqTypeOK'
  <2>1. h_open' \in BOOLEAN
    BY <1>1 DEF SqInv, SqTypeOK
  <2>2. h_pc' \in {"idle", "push", "sync"}
    BY <1>1
  <2> QED
    BY <1>1, <2>1, <2>2 DEF SqInv, SqTypeOK, kernelVars
<1>6. SqOrder'
  <2>1. WrappingSub(sq_head, sq_head) = 0
    BY <1>4, SubSelf
  <2> QED
    BY <1>1, <1>2, <1>3, <2>1, SqDistances, SqConstants DEF SqInv, SqOrder
<1>7. SqControl'
  BY <1>1, <1>2 DEF SqControl
<1>8. SqReading'
  <2>1. WrappingSub(sq_tail, sq_head) \in 0 .. WrappingSub(h_tail, sq_head)
    BY <1>3, SqDistances DEF SqInv
  <2>2. to_process \in Nat /\ WrappingSub(h_tail, sq_head) \in Nat
    BY <1>4, WrapTypes, SqConstants DEF SqInv, SqTypeOK
  <2> QED
    BY <1>1, <2>1, <2>2 DEF SqInv, SqReading, kernelVars
<1>9. SqContents'
  BY <1>1, <1>3 DEF SqInv, SqContents
<1>10. SqCopied'
  BY <1>1 DEF SqInv, SqCopied, kernelVars
<1> QED
  BY <1>5, <1>6, <1>7, <1>8, <1>9, <1>10 DEF SqInv

(* Refreshing the cached head moves it up to the shared one. *)
LEMMA SyncLoadKeepsInv == SqInv /\ SqSyncLoad => SqInv'
<1> SUFFICES ASSUME SqInv, SqSyncLoad PROVE SqInv'
  OBVIOUS
<1> USE DEF SqSyncLoad, kernelVars
<1>1. h_open /\ todo = <<>> /\ Len(todo) = 0
  BY DEF SqInv, SqControl
<1>2. UserHead' = sq_head /\ UserTail' = UserTail
  BY <1>1 DEF UserHead, UserTail
<1>3. SqTypeOK'
  BY DEF SqInv, SqTypeOK
<1>4. SqOrder'
  <2>1. WrappingSub(sq_head, sq_head) = 0
    BY SubSelf DEF SqInv, SqTypeOK
  <2> QED
    BY <1>1, <1>2, <2>1, SqDistances, SqConstants DEF SqInv, SqOrder
<1>5. SqControl' /\ SqReading' /\ SqCopied'
  BY <1>1 DEF SqInv, SqControl, SqReading, SqCopied
<1>6. SqContents'
  BY <1>2 DEF SqInv, SqContents
<1> QED
  BY <1>3, <1>4, <1>5, <1>6 DEF SqInv

(* The submitter's steps that only change its locals. *)
LEMMA LocalsKeepInv ==
    ASSUME SqInv, UNCHANGED <<sq_head, sq_tail, sqes, handleVars, pushed, taken>>,
           SqTypeOK', SqReading',
           k_pc' = "read" => \A i \in 1 .. Len(batch') : batch'[i] = pushed[Len(taken) + i]
    PROVE  SqInv'
<1>1. UserHead' = UserHead /\ UserTail' = UserTail
  BY DEF UserHead, UserTail, handleVars
<1>2. SqOrder' /\ SqContents'
  BY <1>1 DEF SqInv, SqOrder, SqContents, handleVars
<1>3. SqControl' /\ SqCopied'
  BY DEF SqInv, SqControl, SqCopied, handleVars
<1> QED
  BY <1>2, <1>3 DEF SqInv

LEMMA StartEnqueueKeepsInv ==
    ASSUME SqInv, NEW n \in U32, StartEnqueue(n) PROVE SqInv'
<1>1. SqTypeOK'
  BY DEF SqInv, SqTypeOK, StartEnqueue, handleVars
<1>2. SqReading'
  BY DEF SqReading, StartEnqueue
<1> QED
  BY <1>1, <1>2, LocalsKeepInv DEF StartEnqueue

LEMMA LoadIndicesKeepsInv == SqInv /\ LoadIndices => SqInv'
<1> SUFFICES ASSUME SqInv, LoadIndices PROVE SqInv'
  OBVIOUS
<1>1. WrappingSub(sq_tail, sq_head) \in U32 /\ to_submit \in U32 /\ sq_head \in U32
  BY WrapTypes DEF SqInv, SqTypeOK
<1>2. ToProcess \in U32 /\ ToProcess <= WrappingSub(sq_tail, sq_head)
  BY <1>1, ModulusAssumption DEF ToProcess, U32
<1>3. SqTypeOK'
  <2>1. batch' \in Seq(Sqe \cup {Zeroed}) /\ k_pc' \in {"idle", "load", "read", "spawn"}
    BY DEF LoadIndices
  <2> QED
    BY <1>1, <1>2, <2>1 DEF SqInv, SqTypeOK, LoadIndices, handleVars
<1>4. SqReading'
  <2>1. WrappingAdd(sq_head, 0) = sq_head
    BY <1>1, SubSelf
  <2> QED
    BY <1>1, <1>2, <2>1, SqConstants DEF SqReading, LoadIndices
<1> QED
  BY <1>3, <1>4, LocalsKeepInv DEF LoadIndices

(* Copying one entry: the slot holds the next entry that was pushed. *)
LEMMA ReadSqeKeepsInv == SqInv /\ ReadSqe => SqInv'
<1> SUFFICES ASSUME SqInv, ReadSqe PROVE SqInv'
  OBVIOUS
<1> DEFINE n == Len(batch)
<1>1. /\ sq_head \in U32 /\ k_head \in U32 /\ to_process \in Nat
      /\ batch \in Seq(Sqe \cup {Zeroed}) /\ n \in Nat /\ Len(taken) \in Nat
  BY SqConstants DEF SqInv, SqTypeOK
<1>2. n < to_process /\ to_process <= WrappingSub(sq_tail, sq_head)
      /\ k_head = WrappingAdd(sq_head, n)
  BY DEF SqInv, SqReading, ReadSqe
<1>3. /\ WrappingSub(sq_tail, sq_head) \in 0 .. SqEntries
      /\ WrappingSub(sq_tail, sq_head) \in 0 .. WrappingSub(UserTail, sq_head)
      /\ WrappingSub(UserTail, sq_head) \in Nat
  BY SqDistances, SqConstants DEF SqInv
<1>4. n \in U32 /\ n + 1 < Modulus
  BY <1>1, <1>2, <1>3, SqConstants DEF U32
<1>5. WrappingInc(k_head) = WrappingAdd(sq_head, n + 1) /\ WrappingInc(k_head) \in U32
  BY <1>1, <1>2, <1>4, IncAdd, WrapTypes
<1>6. sqes[SqSlot(k_head)] = pushed[Len(taken) + n + 1]
  <2>1. n \in 0 .. WrappingSub(UserTail, sq_head) - 1
    BY <1>1, <1>2, <1>3
  <2> QED
    BY <1>2, <2>1 DEF SqInv, SqContents
<1>7. sqes[SqSlot(k_head)] \in Sqe \cup {Zeroed}
  BY <1>1, SqSlotFacts DEF SqInv, SqTypeOK
<1>8. /\ batch' \in Seq(Sqe \cup {Zeroed}) /\ Len(batch') = n + 1
      /\ batch'[n + 1] = sqes[SqSlot(k_head)]
      /\ \A i \in 1 .. n : batch'[i] = batch[i]
  BY <1>1, <1>7 DEF ReadSqe
<1>9. SqTypeOK'
  BY <1>5, <1>8 DEF SqInv, SqTypeOK, ReadSqe, handleVars
<1>10. SqReading'
  BY <1>1, <1>2, <1>5, <1>8 DEF SqReading, ReadSqe
<1>11. \A i \in 1 .. Len(batch') : batch'[i] = pushed[Len(taken) + i]
  <2>1. \A i \in 1 .. n : batch[i] = pushed[Len(taken) + i]
    BY DEF SqInv, SqCopied, ReadSqe
  <2>2. ASSUME NEW i \in 1 .. n + 1 PROVE batch'[i] = pushed[Len(taken) + i]
    <3>1. CASE i = n + 1
      BY <1>1, <1>6, <1>8, <3>1
    <3>2. CASE i \in 1 .. n
      BY <1>8, <2>1, <3>2
    <3> QED
      BY <1>1, <3>1, <3>2
  <2> QED
    BY <1>8, <2>2
<1> QED
  BY <1>9, <1>10, <1>11, LocalsKeepInv DEF ReadSqe

LEMMA HandOverKeepsInv == SqInv /\ HandOver => SqInv'
<1> SUFFICES ASSUME SqInv, HandOver PROVE SqInv'
  OBVIOUS
<1>1. SqTypeOK'
  <2>1. batch' \in Seq(Sqe \cup {Zeroed})
    BY DEF HandOver
  <2> QED
    BY <2>1 DEF SqInv, SqTypeOK, HandOver, handleVars
<1>2. SqReading'
  BY DEF SqReading, HandOver
<1> QED
  BY <1>1, <1>2, LocalsKeepInv DEF HandOver

(* Releasing the copied slots: the head moves up past exactly the entries  *)
(* that were copied, and they become part of the history of taken ones.    *)
LEMMA StoreHeadKeepsInv == SqInv /\ StoreHead => SqInv'
<1> SUFFICES ASSUME SqInv, StoreHead PROVE SqInv'
  OBVIOUS
<1> DEFINE n == Len(batch)
           L == WrappingSub(UserTail, sq_head)
           T == WrappingSub(sq_tail, sq_head)
<1>1. /\ sq_head \in U32 /\ sq_tail \in U32 /\ k_head \in U32
      /\ UserTail \in U32 /\ UserHead \in U32
      /\ batch \in Seq(Sqe \cup {Zeroed}) /\ taken \in Seq(Sqe \cup {Zeroed})
      /\ n \in Nat /\ Len(taken) \in Nat /\ Len(todo) \in Nat
  BY SqDistances DEF SqInv, SqTypeOK
<1>2. n = to_process /\ n <= T /\ k_head = WrappingAdd(sq_head, n)
  BY DEF SqInv, SqReading, StoreHead
<1>3. T \in 0 .. L /\ L \in Nat /\ L + Len(todo) <= SqEntries
  BY SqDistances, SqConstants DEF SqInv
<1>4. n \in U32
  BY <1>1, <1>2, <1>3, SqConstants DEF U32
<1>5. /\ UserTail' = UserTail
      /\ IF h_open THEN UserHead' = UserHead ELSE UserHead' = k_head
      /\ sq_head' = k_head /\ sq_tail' = sq_tail /\ todo' = todo /\ sqes' = sqes
      /\ taken' = taken \o batch /\ pushed' = pushed
  BY DEF UserHead, UserTail, StoreHead, handleVars
<1>6. /\ WrappingSub(UserTail, k_head) = L - n
      /\ WrappingSub(sq_tail, k_head) = T - n
  BY <1>1, <1>2, <1>3, <1>4, SubAdd
<1>7. SqTypeOK'
  <2>1. taken' \in Seq(Sqe \cup {Zeroed})
    BY <1>1, <1>5
  <2> QED
    BY <1>1, <2>1 DEF SqInv, SqTypeOK, StoreHead, handleVars
<1>8. SqOrder'
  <2>1. CASE h_open
    <3> DEFINE d == WrappingSub(sq_head, UserHead)
    <3>1. /\ d \in Nat /\ WrappingSub(UserTail, UserHead) = L + d
          /\ WrappingSub(sq_tail, UserHead) = T + d
          /\ L + d <= SqEntries
      <4>1. /\ d \in 0 .. SqEntries
            /\ WrappingSub(UserTail, UserHead) \in 0 .. SqEntries
            /\ WrappingSub(sq_tail, UserHead) \in 0 .. SqEntries
            /\ L = WrappingSub(UserTail, UserHead) - d
            /\ T = WrappingSub(sq_tail, UserHead) - d
        BY SqDistances DEF SqInv
      <4> HIDE DEF d, L, T
      <4> QED
        BY <4>1, SqConstants
    <3>2. WrappingSub(k_head, UserHead) = d + n
      <4>1. d + n \in 0 .. SqEntries
        <5> HIDE DEF d, n, L, T
        <5> QED
          BY <1>1, <1>2, <1>3, <3>1, SqConstants
      <4> QED
        BY <1>1, <1>2, <1>4, <4>1, SubOfAdd, SqConstants
    <3> QED
      BY <1>1, <1>2, <1>3, <1>5, <2>1, <3>1, <3>2 DEF SqInv, SqOrder
  <2>2. CASE ~h_open
    <3>1. WrappingSub(k_head, k_head) = 0
      BY <1>1, SubSelf
    <3> QED
      BY <1>1, <1>2, <1>3, <1>5, <1>6, <2>2, <3>1, SqConstants DEF SqOrder
  <2> QED
    BY <2>1, <2>2
<1>9. SqControl' /\ SqReading'
  BY DEF SqInv, SqControl, SqReading, StoreHead, handleVars
<1>10. /\ Len(taken') = Len(taken) + n
       /\ \A i \in 1 .. Len(taken) : taken'[i] = taken[i]
       /\ \A i \in 1 .. n : taken'[Len(taken) + i] = batch[i]
  BY <1>1, <1>5
<1>11. SqContents'
  <2>1. Len(pushed) = Len(taken') + (L - n)
    BY <1>1, <1>2, <1>3, <1>10 DEF SqInv, SqContents
  <2>2. ASSUME NEW i \in 0 .. L - n - 1
        PROVE  sqes[SqSlot(WrappingAdd(k_head, i))] = pushed[Len(taken') + i + 1]
    <3>1. n + i \in 0 .. L - 1 /\ i \in U32 /\ n + i < Modulus
      <4> HIDE DEF n, L, T
      <4> QED
        BY <1>1, <1>2, <1>3, SqConstants DEF U32
    <3>2. WrappingAdd(k_head, i) = WrappingAdd(sq_head, n + i)
      BY <1>1, <1>2, <1>4, <3>1, AddAdd
    <3>3. sqes[SqSlot(WrappingAdd(sq_head, n + i))] = pushed[Len(taken) + (n + i) + 1]
      BY <3>1 DEF SqInv, SqContents
    <3>4. Len(taken) + (n + i) + 1 = Len(taken') + i + 1
      BY <1>1, <1>10, <3>1
    <3> QED
      BY <3>2, <3>3, <3>4
  <2> QED
    BY <1>5, <1>6, <2>1, <2>2 DEF SqContents
<1>12. SqCopied'
  <2>1. /\ \A i \in 1 .. Len(taken) : taken[i] = pushed[i]
        /\ \A i \in 1 .. n : batch[i] = pushed[Len(taken) + i]
    BY DEF SqInv, SqCopied, StoreHead
  <2>2. ASSUME NEW i \in 1 .. Len(taken') PROVE taken'[i] = pushed[i]
    <3>1. CASE i <= Len(taken)
      BY <1>1, <1>10, <2>1, <3>1
    <3>2. CASE i > Len(taken)
      <4>1. i - Len(taken) \in 1 .. n /\ i = Len(taken) + (i - Len(taken))
        BY <1>1, <1>10, <3>2
      <4> QED
        BY <1>10, <2>1, <4>1
    <3> QED
      BY <1>1, <1>10, <3>1, <3>2
  <2>3. k_pc' # "read"
    BY DEF StoreHead
  <2> QED
    BY <1>5, <2>2, <2>3 DEF SqCopied
<1> QED
  BY <1>7, <1>8, <1>9, <1>11, <1>12 DEF SqInv

-----------------------------------------------------------------------------
(* The theorems *)

(* SqInv is inductive. *)
LEMMA SqInvStep == SqInv /\ [SqNext]_sqVars => SqInv'
<1> SUFFICES ASSUME SqInv, [SqNext]_sqVars PROVE SqInv'
  OBVIOUS
<1>1. CASE SqBorrow
  BY <1>1, BorrowKeepsInv
<1>2. CASE \E e \in Sqe : Push(e)
  BY <1>2, PushKeepsInv
<1>3. CASE \E es \in Batches : PushMultiple(es)
  BY <1>3, PushKeepsInv
<1>4. CASE PushUnchecked
  BY <1>4, PushUncheckedKeepsInv
<1>5. CASE SqSyncStore \/ SqDrop
  BY <1>5, PublishKeepsInv
<1>6. CASE SqSyncLoad
  BY <1>6, SyncLoadKeepsInv
<1>7. CASE Submit
  <2>1. WrappingSub(sq_tail, sq_head) \in U32
    BY WrapTypes DEF SqInv, SqTypeOK
  <2> QED
    BY <1>7, <2>1, StartEnqueueKeepsInv DEF Submit
<1>8. CASE \E n \in EnterCounts : Enter(n)
  BY <1>8, SqConstants, StartEnqueueKeepsInv DEF Enter
<1>9. CASE LoadIndices
  BY <1>9, LoadIndicesKeepsInv
<1>10. CASE ReadSqe
  BY <1>10, ReadSqeKeepsInv
<1>11. CASE StoreHead
  BY <1>11, StoreHeadKeepsInv
<1>12. CASE HandOver
  BY <1>12, HandOverKeepsInv
<1>13. CASE UNCHANGED sqVars
  <2>1. UserHead' = UserHead /\ UserTail' = UserTail
    BY <1>13 DEF sqVars, handleVars, UserHead, UserTail
  <2>2. SqTypeOK' /\ SqControl' /\ SqReading' /\ SqCopied'
    BY <1>13 DEF sqVars, handleVars, kernelVars, SqInv, SqTypeOK, SqControl, SqReading, SqCopied
  <2>3. SqOrder' /\ SqContents'
    BY <1>13, <2>1 DEF sqVars, handleVars, kernelVars, SqInv, SqOrder, SqContents
  <2> QED
    BY <2>2, <2>3 DEF SqInv
<1> QED
  BY <1>1, <1>2, <1>3, <1>4, <1>5, <1>6, <1>7, <1>8, <1>9, <1>10, <1>11, <1>12, <1>13
    DEF SqNext, SqUser, SqHandle, SqKernel, SqKernelStep

(* The inductive invariant holds of every behaviour of the ring. *)
THEOREM SqInvariance == SqSpec => []SqInv
  BY SqInvInit, SqInvStep, PTL DEF SqSpec

(* Type correctness: in particular the indices stay u32 values and no      *)
(* slot is ever addressed outside the array.                               *)
THEOREM SqTypeCorrect == SqSpec => []SqTypeOK
<1>1. SqInv => SqTypeOK
  BY DEF SqInv
<1> QED
  BY <1>1, SqInvariance, PTL

(* push_unchecked never writes a slot whose entry is queued or being       *)
(* copied, whatever the ring size and however stale its cached head is.    *)
THEOREM SqRaceFree == SqSpec => []SqNoRace
<1>1. SqInv => SqNoRace
  <2> SUFFICES ASSUME SqInv, h_pc = "push" PROVE SqNoRace
    BY DEF SqNoRace
  <2> DEFINE L == WrappingSub(UserTail, sq_head)
  <2>1. UserTail = h_tail /\ Len(todo) \in Nat \ {0}
    BY DEF SqInv, SqControl, SqTypeOK, UserTail
  <2>2. L \in Nat /\ L < SqEntries /\ sq_head \in U32 /\ h_tail \in U32
    <3>1. L \in 0 .. SqEntries /\ L + Len(todo) <= SqEntries
      BY SqDistances DEF SqInv
    <3>2. sq_head \in U32 /\ h_tail \in U32
      BY DEF SqInv, SqTypeOK
    <3> HIDE DEF L
    <3> QED
      BY <2>1, <3>1, <3>2, SqConstants
  <2>3. ASSUME NEW i \in 0 .. L - 1
        PROVE  SqSlot(h_tail) # SqSlot(WrappingAdd(sq_head, i))
    <3>1. i \in U32
      BY <2>2, SqConstants DEF U32
    <3>2. WrappingAdd(sq_head, i) \in U32
      BY <2>2, <3>1, WrapTypes
    <3>3. WrappingSub(h_tail, WrappingAdd(sq_head, i)) = L - i
      BY <2>1, <2>2, <3>1, SubAdd
    <3>4. L - i \in 1 .. SqEntries - 1
      BY <2>2, SqConstants
    <3> QED
      BY <2>2, <3>2, <3>3, <3>4, SqSlotFacts
  <2>4. SqSlot(h_tail) \notin SlotsFrom(sq_head, WrappingSub(h_tail, sq_head))
    BY <2>1, <2>3 DEF SlotsFrom
  <2>5. ASSUME k_pc = "read", NEW i \in 0 .. to_process - Len(batch) - 1
        PROVE  SqSlot(h_tail) # SqSlot(WrappingAdd(k_head, i))
    <3>1. /\ to_process \in Nat /\ Len(batch) \in Nat
          /\ WrappingSub(sq_tail, sq_head) \in 0 .. L
      BY SqDistances, SqConstants DEF SqInv, SqTypeOK
    <3>2. /\ to_process <= WrappingSub(sq_tail, sq_head)
          /\ k_head = WrappingAdd(sq_head, Len(batch))
      BY <2>5 DEF SqInv, SqReading
    <3>3. /\ Len(batch) + i \in 0 .. L - 1 /\ Len(batch) + i < Modulus
          /\ Len(batch) \in U32 /\ i \in U32
      BY <2>2, <3>1, <3>2, SqConstants DEF U32
    <3>4. WrappingAdd(k_head, i) = WrappingAdd(sq_head, Len(batch) + i)
      BY <2>2, <3>2, <3>3, AddAdd
    <3> QED
      BY <2>3, <3>3, <3>4
  <2> QED
    BY <2>4, <2>5 DEF SqNoRace, SlotsFrom
<1> QED
  BY <1>1, SqInvariance, PTL

(* The submitter consumes exactly what was pushed, in order and once each. *)
THEOREM SqInOrder == SqSpec => []SqFifo
<1>1. SqInv => SqFifo
  <2> SUFFICES ASSUME SqInv PROVE SqFifo
    OBVIOUS
  <2> DEFINE L == WrappingSub(UserTail, sq_head)
             copied == IF k_pc = "read" THEN taken \o batch ELSE taken
  <2>1. /\ taken \in Seq(Sqe \cup {Zeroed}) /\ batch \in Seq(Sqe \cup {Zeroed})
        /\ Len(taken) \in Nat /\ Len(batch) \in Nat
        /\ L \in Nat /\ Len(pushed) = Len(taken) + L
    <3>1. L \in 0 .. SqEntries
      BY SqDistances DEF SqInv
    <3> QED
      BY <3>1, SqConstants DEF SqInv, SqTypeOK, SqContents
  <2>2. CASE k_pc # "read"
    BY <2>1, <2>2 DEF SqInv, SqCopied, SqFifo
  <2>3. CASE k_pc = "read"
    <3>1. Len(batch) <= L
      <4>1. to_process \in Nat /\ WrappingSub(sq_tail, sq_head) \in 0 .. L
        BY SqDistances, SqConstants DEF SqInv, SqTypeOK
      <4> QED
        BY <2>1, <2>3, <4>1 DEF SqInv, SqReading
    <3>2. /\ Len(taken \o batch) = Len(taken) + Len(batch)
          /\ \A i \in 1 .. Len(taken) : (taken \o batch)[i] = taken[i]
          /\ \A i \in 1 .. Len(batch) : (taken \o batch)[Len(taken) + i] = batch[i]
      BY <2>1
    <3>3. ASSUME NEW i \in 1 .. Len(taken) + Len(batch)
          PROVE  (taken \o batch)[i] = pushed[i]
      <4>1. CASE i <= Len(taken)
        BY <2>1, <3>2, <4>1 DEF SqInv, SqCopied
      <4>2. CASE i > Len(taken)
        <5>1. i - Len(taken) \in 1 .. Len(batch) /\ i = Len(taken) + (i - Len(taken))
          BY <2>1, <4>2
        <5> QED
          BY <2>3, <3>2, <5>1 DEF SqInv, SqCopied
      <4> QED
        BY <2>1, <4>1, <4>2
    <3> QED
      BY <2>1, <2>3, <3>1, <3>2, <3>3 DEF SqFifo
  <2> QED
    BY <2>2, <2>3
<1> QED
  BY <1>1, SqInvariance, PTL

-----------------------------------------------------------------------------
(* The ring implements the abstract channel. *)

SqUsed == WrappingSub(sq_tail, sq_head)

(* Both parts of the channel's state are windows on the pushed sequence:   *)
(* what was taken, and then what is published.                             *)
LEMMA SqMapping ==
    SqInv => /\ pushed \in Seq(Sqe) /\ Len(taken) \in Nat /\ SqUsed \in 0 .. SqEntries
             /\ Len(taken) + SqUsed <= Len(pushed)
             /\ SqPublished = Window(pushed, Len(taken), SqUsed)
             /\ taken = Window(pushed, 0, Len(taken))
<1> SUFFICES ASSUME SqInv
             PROVE  /\ pushed \in Seq(Sqe) /\ Len(taken) \in Nat /\ SqUsed \in 0 .. SqEntries
                    /\ Len(taken) + SqUsed <= Len(pushed)
                    /\ SqPublished = Window(pushed, Len(taken), SqUsed)
                    /\ taken = Window(pushed, 0, Len(taken))
  OBVIOUS
<1> DEFINE t == Len(taken)
           L == WrappingSub(UserTail, sq_head)
<1>1. /\ pushed \in Seq(Sqe) /\ Len(pushed) \in Nat
      /\ taken \in Seq(Sqe \cup {Zeroed}) /\ t \in Nat
  BY DEF SqInv, SqTypeOK
<1>2. SqUsed \in 0 .. L /\ L \in 0 .. SqEntries
  BY SqDistances DEF SqInv, SqUsed
<1>3. /\ Len(pushed) = t + L
      /\ \A i \in 0 .. L - 1 :
            sqes[SqSlot(WrappingAdd(sq_head, i))] = pushed[t + i + 1]
      /\ \A i \in 1 .. t : taken[i] = pushed[i]
  BY DEF SqInv, SqContents, SqCopied
<1> HIDE DEF t, L
<1>4. SqUsed \in Nat /\ SqUsed \in 0 .. SqEntries /\ SqUsed <= L /\ L \in Nat
  BY <1>2, SqConstants
<1>5. t + SqUsed <= Len(pushed) /\ t <= Len(pushed)
  BY <1>1, <1>3, <1>4
<1>6. ASSUME NEW i \in 1 .. SqUsed
      PROVE  /\ pushed[t + i] \in Sqe
             /\ sqes[SqSlot(WrappingAdd(sq_head, i - 1))] = pushed[t + i]
  <2>1. i - 1 \in 0 .. L - 1 /\ t + (i - 1) + 1 = t + i /\ t + i \in 1 .. Len(pushed)
    BY <1>1, <1>4, <1>5
  <2>2. pushed[t + i] \in Sqe
    BY <1>1, <2>1, ElementOfSeq
  <2> QED
    BY <1>3, <2>1, <2>2
<1>7. SqPublished = Window(pushed, t, SqUsed)
  <2>1. /\ SqPublished \in [1 .. SqUsed -> Sqe]
        /\ \A i \in 1 .. SqUsed : SqPublished[i] = pushed[t + i]
    BY <1>6 DEF SqPublished, SqUsed
  <2>2. SqPublished \in Seq(Sqe) /\ Len(SqPublished) = SqUsed
    BY <1>4, <2>1, FcnIsSeq
  <2>3. \A i \in 1 .. SqUsed : SqPublished[i] = pushed[t + i]
    BY <2>1
  <2>4. pushed \in Seq(Sqe) /\ t \in Nat /\ SqUsed \in Nat /\ t + SqUsed <= Len(pushed)
    BY <1>1, <1>4, <1>5
  <2> QED
    BY <2>2, <2>3, <2>4, IsWindow
<1>8. taken = Window(pushed, 0, t)
  <2> DEFINE z == 0
  <2>1. pushed \in Seq(Sqe \cup {Zeroed})
    BY <1>1, SeqMonotonic
  <2>2. /\ taken \in Seq(Sqe \cup {Zeroed}) /\ Len(taken) = t /\ t \in Nat
        /\ z \in Nat /\ z + t <= Len(pushed)
    BY <1>1, <1>5 DEF t
  <2>3. \A i \in 1 .. t : taken[i] = pushed[z + i]
    BY <1>1, <1>3
  <2> HIDE DEF z
  <2>4. taken = Window(pushed, z, t)
    BY <2>1, <2>2, <2>3, IsWindow
  <2> QED
    BY <2>4 DEF z
<1> QED
  BY <1>1, <1>4, <1>5, <1>7, <1>8 DEF t

LEMMA PushedSplit ==
    \A t, m, n \in Nat : pushed \in Seq(Sqe) /\ t + m + n <= Len(pushed) =>
        Window(pushed, t, m + n) = Window(pushed, t, m) \o Window(pushed, t + m, n)
  BY WindowSplit

(* Storing the tail, by sync or by Drop, publishes all that was pushed     *)
(* since the last time, at once.                                           *)
LEMMA SqStorePublishes ==
    ASSUME SqInv, SqInv', UNCHANGED <<pushed, taken>>, SqUsed <= SqUsed'
    PROVE  [SqChannel!Next]_(SqChannel!vars)
<1>1. (SqInv => /\ pushed \in Seq(Sqe) /\ Len(taken) \in Nat /\ SqUsed \in 0 .. SqEntries
               /\ Len(taken) + SqUsed <= Len(pushed)
               /\ SqPublished = Window(pushed, Len(taken), SqUsed)
               /\ taken = Window(pushed, 0, Len(taken)))'
  BY SqMapping, PTL
<1>2. PICK m \in Nat, n \in Nat : SqUsed = m /\ SqUsed' = m + n /\ n <= SqEntries
  <2> DEFINE u == SqUsed
             v == SqUsed'
  <2>1. u \in Nat /\ v \in Nat /\ u <= v /\ v <= SqEntries
    BY <1>1, SqMapping, SqConstants
  <2> HIDE DEF u, v
  <2>2. v - u \in Nat /\ v = u + (v - u) /\ v - u <= SqEntries
    BY <2>1, SqConstants
  <2>3. \E m \in Nat, n \in Nat : u = m /\ v = m + n /\ n <= SqEntries
    BY <2>1, <2>2
  <2> QED
    BY <2>3 DEF u, v
<1>4. PICK t \in Nat : Len(taken) = t
  BY SqMapping
<1>5. /\ pushed \in Seq(Sqe) /\ t + (m + n) <= Len(pushed) /\ m + n <= SqEntries
      /\ SqPublished = Window(pushed, t, m)
      /\ SqPublished' = Window(pushed, t, m + n)
  BY <1>1, <1>2, <1>4, SqMapping, SqConstants
<1>6. /\ Len(pushed) \in Nat /\ t + m + n <= Len(pushed) /\ t + m <= Len(pushed)
      /\ t + m \in Nat
  BY <1>5, LenProperties
<1>7. Window(pushed, t, m + n) = Window(pushed, t, m) \o Window(pushed, t + m, n)
  <2>1. pushed \in Seq(Sqe) /\ n \in Nat /\ t + m + n <= Len(pushed)
    BY <1>5, <1>6
  <2> QED
    BY <2>1, PushedSplit
<1>8. Window(pushed, t + m, n) \in Seq(Sqe) /\ Len(Window(pushed, t + m, n)) = n
  <2>1. (t + m) + n <= Len(pushed)
    BY <1>6
  <2> QED
    BY <1>5, <1>6, <2>1, WindowProperties
<1>9. Window(pushed, t + m, n) \in [1 .. n -> Sqe]
  <2> DEFINE w == Window(pushed, t + m, n)
  <2> HIDE DEF w
  <2>1. w \in Seq(Sqe) /\ Len(w) = n
    BY <1>8 DEF w
  <2>2. w \in [1 .. n -> Sqe]
    BY <2>1, LenProperties
  <2> QED
    BY <2>2 DEF w
<1>10. Len(Window(pushed, t, m)) = m
  BY <1>5, <1>6, WindowProperties
<1>11. CASE n = 0
  <2>1. m + n = m
    BY <1>11
  <2> QED
    BY <1>5, <2>1 DEF SqChannel!vars
<1>12. CASE n # 0
  <2>1. n \in 1 .. SqEntries
    BY <1>2, <1>12, SqConstants
  <2>2. Len(SqPublished) + n <= SqEntries
    BY <1>5, <1>10
  <2>3. SqPublished' = SqPublished \o Window(pushed, t + m, n)
    BY <1>5, <1>7
  <2>4. SqChannel!Publish(n)
    BY <1>9, <2>2, <2>3 DEF SqChannel!Publish
  <2> QED
    BY <2>1, <2>4 DEF SqChannel!Next
<1> QED
  BY <1>11, <1>12

(* Releasing the copied slots takes the batch from the channel. *)
LEMMA SqStoreHeadTakes ==
    ASSUME SqInv, SqInv', StoreHead
    PROVE  [SqChannel!Next]_(SqChannel!vars)
<1>1. (SqInv => /\ pushed \in Seq(Sqe) /\ Len(taken) \in Nat /\ SqUsed \in 0 .. SqEntries
               /\ Len(taken) + SqUsed <= Len(pushed)
               /\ SqPublished = Window(pushed, Len(taken), SqUsed)
               /\ taken = Window(pushed, 0, Len(taken)))'
  BY SqMapping, PTL
<1>2. PICK t \in Nat : Len(taken) = t
  BY SqMapping
<1>3. PICK n \in Nat, m \in Nat :
        /\ Len(batch) = n /\ SqUsed = n + m /\ SqUsed' = m /\ n <= SqEntries
  <2>1. /\ Len(batch) \in Nat /\ Len(batch) <= SqUsed
        /\ k_head = WrappingAdd(sq_head, Len(batch))
        /\ sq_head' = k_head /\ sq_tail' = sq_tail
    BY DEF SqInv, SqTypeOK, SqReading, StoreHead, SqUsed
  <2>2. SqUsed \in Nat /\ SqUsed <= SqEntries
    BY SqMapping, SqConstants
  <2>3. Len(batch) \in U32
    BY <2>1, <2>2, SqConstants DEF U32
  <2>4. SqUsed' = SqUsed - Len(batch)
    BY <2>1, <2>3, SubAdd DEF SqInv, SqTypeOK, SqUsed
  <2> DEFINE u == SqUsed
             v == SqUsed'
             k == Len(batch)
  <2>5. u \in Nat /\ k \in Nat /\ k <= u /\ v = u - k /\ u <= SqEntries
    BY <2>1, <2>2, <2>4
  <2> HIDE DEF u, v, k
  <2>6. u = k + v /\ v \in Nat /\ k <= SqEntries
    BY <2>5, SqConstants
  <2>7. \E n \in Nat, m \in Nat : k = n /\ u = n + m /\ v = m /\ n <= SqEntries
    BY <2>5, <2>6
  <2> QED
    BY <2>7 DEF u, v, k
<1>4. Len(taken') = t + n /\ pushed' = pushed
  <2>1. /\ taken \in Seq(Sqe \cup {Zeroed}) /\ batch \in Seq(Sqe \cup {Zeroed})
        /\ taken' = taken \o batch /\ pushed' = pushed
    BY DEF SqInv, SqTypeOK, StoreHead
  <2>2. Len(taken \o batch) = Len(taken) + Len(batch)
    BY <2>1
  <2> QED
    BY <1>2, <1>3, <2>1, <2>2
<1>5. /\ pushed \in Seq(Sqe) /\ t + (n + m) <= Len(pushed)
      /\ SqPublished = Window(pushed, t, n + m) /\ taken = Window(pushed, 0, t)
      /\ SqPublished' = Window(pushed, t + n, m) /\ taken' = Window(pushed, 0, t + n)
  BY <1>1, <1>2, <1>3, <1>4, SqMapping
<1>6. Len(pushed) \in Nat /\ t + n + m <= Len(pushed) /\ t + n <= Len(pushed)
  BY <1>5, LenProperties
<1>7. /\ Len(SqPublished) = n + m
      /\ Window(pushed, t, n) = Window(SqPublished, 0, n)
      /\ Window(pushed, t + n, m) = Window(SqPublished, n, m)
  <2>1. pushed \in Seq(Sqe) /\ SqPublished = Window(pushed, t, n + m)
    BY <1>5
  <2> QED
    BY <1>6, <2>1, WindowTake
<1>8. Window(pushed, 0, t + n) = Window(pushed, 0, t) \o Window(pushed, t, n)
  BY <1>5, <1>6, PrefixSplit
<1>9. /\ Window(SqPublished, 0, n) = SubSeq(SqPublished, 1, n)
      /\ Window(SqPublished, n, m) = SubSeq(SqPublished, n + 1, Len(SqPublished))
  BY <1>7 DEF Window
<1>10. /\ taken' = taken \o SubSeq(SqPublished, 1, n)
       /\ SqPublished' = SubSeq(SqPublished, n + 1, Len(SqPublished))
  BY <1>5, <1>7, <1>8, <1>9
<1>11. CASE n = 0
  <2>1. t + n = t /\ n + m = m
    BY <1>11
  <2> QED
    BY <1>5, <2>1 DEF SqChannel!vars
<1>12. CASE n # 0
  <2>1. n \in 1 .. SqEntries /\ n <= Len(SqPublished)
    BY <1>3, <1>7, <1>12, SqConstants
  <2>2. SqChannel!Take(n)
    BY <1>10, <2>1 DEF SqChannel!Take
  <2> QED
    BY <2>1, <2>2 DEF SqChannel!Next
<1> QED
  BY <1>11, <1>12

(* What is pushed and not yet published cannot be seen. *)
LEMMA SqPushInvisible ==
    ASSUME SqInv, SqInv', PushUnchecked
    PROVE  UNCHANGED SqChannel!vars
<1>1. (SqInv => /\ pushed \in Seq(Sqe) /\ Len(taken) \in Nat /\ SqUsed \in 0 .. SqEntries
               /\ Len(taken) + SqUsed <= Len(pushed)
               /\ SqPublished = Window(pushed, Len(taken), SqUsed)
               /\ taken = Window(pushed, 0, Len(taken)))'
  BY SqMapping, PTL
<1>2. PICK t \in Nat, u \in Nat : Len(taken) = t /\ SqUsed = u
  BY SqMapping, SqConstants
<1>3. taken' = taken /\ SqUsed' = SqUsed /\ pushed' = Append(pushed, Head(todo))
  BY DEF PushUnchecked, SqUsed
<1>4. Head(todo) \in Sqe
  BY DEF SqInv, SqControl, SqTypeOK, PushUnchecked
<1>5. /\ pushed \in Seq(Sqe) /\ t + u <= Len(pushed)
      /\ SqPublished = Window(pushed, t, u)
      /\ SqPublished' = Window(Append(pushed, Head(todo)), t, u)
  BY <1>1, <1>2, <1>3, SqMapping
<1>6. Window(Append(pushed, Head(todo)), t, u) = Window(pushed, t, u)
  BY <1>4, <1>5, WindowAppend
<1> QED
  BY <1>3, <1>5, <1>6 DEF SqChannel!vars

LEMMA SqChannelInit == SqInit => SqChannel!Init
<1> SUFFICES ASSUME SqInit PROVE SqChannel!Init
  OBVIOUS
<1>1. SqInv
  BY SqInvInit
<1>2. pushed = <<>> /\ taken = <<>> /\ SqUsed = 0 /\ Len(taken) = 0
  BY SqConstants, SubSelf DEF SqInit, SqUsed, U32
<1>3. pushed \in Seq(Sqe) /\ SqPublished = Window(pushed, 0, 0)
  BY <1>1, <1>2, SqMapping
<1>4. Window(pushed, 0, 0) = <<>>
  BY <1>3, WindowWhole
<1> QED
  BY <1>2, <1>3, <1>4 DEF SqChannel!Init

LEMMA SqChannelStep ==
    SqInv /\ SqInv' /\ [SqNext]_sqVars => [SqChannel!Next]_(SqChannel!vars)
<1> SUFFICES ASSUME SqInv, SqInv', [SqNext]_sqVars
             PROVE  [SqChannel!Next]_(SqChannel!vars)
  OBVIOUS
<1>1. SqUsed \in Nat
  BY SqMapping, SqConstants
<1>2. CASE StoreHead
  BY <1>2, SqStoreHeadTakes
<1>3. CASE SqSyncStore \/ SqDrop
  <2>1. UNCHANGED <<pushed, taken>> /\ SqUsed' = WrappingSub(h_tail, sq_head) /\ h_open
    BY <1>3 DEF SqSyncStore, SqDrop, SqUsed
  <2>2. UserTail = h_tail
    BY <2>1 DEF UserTail
  <2>3. SqUsed <= SqUsed'
    <3>1. SqUsed \in 0 .. WrappingSub(h_tail, sq_head) /\ WrappingSub(h_tail, sq_head) \in Nat
      BY <2>2, SqDistances, SqConstants DEF SqInv, SqUsed
    <3> QED
      BY <2>1, <3>1
  <2> QED
    BY <2>1, <2>3, SqStorePublishes
<1>4. CASE PushUnchecked
  BY <1>4, SqPushInvisible
<1>5. CASE UNCHANGED <<pushed, taken, sq_head, sq_tail>>
  <2>1. SqUsed' = SqUsed
    BY <1>5 DEF SqUsed
  <2> QED
    BY <1>1, <1>5, <2>1, SqStorePublishes
<1>6. \/ StoreHead \/ SqSyncStore \/ SqDrop \/ PushUnchecked
      \/ UNCHANGED <<pushed, taken, sq_head, sq_tail>>
  <2>1. CASE SqUser
    BY <2>1 DEF SqUser, SqHandle, SqBorrow, Push, PushMultiple, StartPush, SqSyncLoad
  <2>2. CASE SqKernel
    BY <2>2 DEF SqKernel, SqKernelStep, Submit, Enter, StartEnqueue, LoadIndices, ReadSqe, HandOver
  <2>3. CASE UNCHANGED sqVars
    BY <2>3 DEF sqVars
  <2> QED
    BY <2>1, <2>2, <2>3 DEF SqNext
<1> QED
  BY <1>2, <1>3, <1>4, <1>5, <1>6

(* The submission ring implements the abstract FIFO: sync and Drop publish *)
(* at its end all that was pushed, the store of the head takes the copied  *)
(* batch from its front, and no other step can be told from doing nothing. *)
THEOREM SqRefinesChannel == SqSpec => SqIsChannel
  BY SqChannelInit, SqChannelStep, SqInvariance, PTL DEF SqSpec, SqIsChannel, SqChannel!Spec
==============================================================================
