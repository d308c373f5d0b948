------------------------ MODULE CompletionQueueProofs ------------------------
(***************************************************************************)
(* Proofs about the completion ring, for every ring size that divides the  *)
(* modulus, every set of completions and any number of posts.              *)
(***************************************************************************)
EXTENDS CompletionQueue, RingIndexProofs, SequenceLemmas

(* What is used of the constants. *)
LEMMA CqConstants ==
    /\ CqEntries \in Nat \ {0} /\ CqEntries < Modulus
    /\ Modulus \in Nat \ {0}
    /\ U32 \subseteq Nat
    /\ FillSizes \subseteq Nat
  BY CqAssumption, ModulusAssumption DEF RingSize, U32

(* Masking maps into the array, and keeps positions that are less than a   *)
(* ring apart in different slots.                                          *)
LEMMA CqSlotFacts ==
    /\ \A x \in U32 : CqSlot(x) \in CqSlots
    /\ \A x, y \in U32 :
          WrappingSub(x, y) \in 1 .. CqEntries - 1 => CqSlot(x) # CqSlot(y)
  BY CqAssumption, SlotInRange, SlotDistinct DEF CqSlot, CqSlots

(* The distances CqOrder is about are naturals of at most CqEntries, and   *)
(* positions of the handle can be written from the shared head.            *)
LEMMA CqDistances ==
    ASSUME CqTypeOK, CqOrder
    PROVE  /\ Unreleased \in 0 .. CqEntries
           /\ WrappingSub(ReapTail, cq_head) \in 0 .. CqEntries
           /\ WrappingSub(cq_tail, cq_head) \in 0 .. CqEntries
           /\ Unreleased + c_todo <= WrappingSub(ReapTail, cq_head)
           /\ WrappingSub(ReapTail, cq_head) <= WrappingSub(cq_tail, cq_head)
           /\ Unreleased \in U32
           /\ c_open => c_head = WrappingAdd(cq_head, Unreleased)
<1>1. /\ cq_head \in U32 /\ cq_tail \in U32 /\ ReapTail \in U32 /\ c_head \in U32
      /\ c_todo \in Nat
  BY DEF CqTypeOK, ReapTail
<1>2. /\ WrappingSub(ReapTail, cq_head) \in Nat
      /\ WrappingSub(cq_tail, cq_head) \in Nat
      /\ WrappingSub(c_head, cq_head) \in U32
  BY <1>1, WrapTypes, CqConstants
<1>3. Unreleased \in U32 /\ Unreleased \in Nat
  BY <1>2, CqConstants DEF Unreleased, U32
<1>4. c_open => c_head = WrappingAdd(cq_head, Unreleased)
  BY <1>1, AddSub DEF Unreleased
<1> QED
  BY <1>1, <1>2, <1>3, <1>4, CqConstants DEF CqOrder

LEMMA CqInvInit == CqInit => CqInv
<1> SUFFICES ASSUME CqInit PROVE CqInv
  OBVIOUS
<1>1. 0 \in U32 /\ WrappingSub(0, 0) = 0 /\ 0 % Modulus = 0
  BY CqConstants, SubSelf DEF U32
<1>2. CqTypeOK
  <2>1. cqes \in [CqSlots -> Cqe \cup {Zeroed}]
    BY DEF CqInit
  <2>2. c_open \in BOOLEAN /\ sq_cq_overflow \in BOOLEAN
    BY DEF CqInit
  <2>3. posted \in Seq(Cqe) /\ dropped \in Seq(Cqe) /\ reaped \in Seq(Cqe)
    BY DEF CqInit
  <2> QED
    BY <1>1, <2>1, <2>2, <2>3 DEF CqInit, CqTypeOK
<1>3. Unreleased = 0 /\ ReapTail = 0
  BY DEF CqInit, Unreleased, ReapTail
<1>4. CqOrder
  BY <1>1, <1>3, CqConstants DEF CqInit, CqOrder
<1>5. CqControl /\ CqPosting
  BY DEF CqInit, CqControl, CqPosting
<1>6. CqContents
  BY <1>1, <1>3 DEF CqInit, CqContents
<1>7. CqReaped
  BY DEF CqInit, CqReaped
<1>8. CqCounted
  BY <1>1 DEF CqInit, CqCounted
<1> QED
  BY <1>2, <1>4, <1>5, <1>6, <1>7, <1>8 DEF CqInv

-----------------------------------------------------------------------------
(* One lemma per group of actions: each preserves the invariant. *)

(* The reaper's steps that leave the ring and the histories alone. *)
LEMMA CqBorrowKeepsInv == CqInv /\ CqBorrow => CqInv'
<1> SUFFICES ASSUME CqInv, CqBorrow PROVE CqInv'
  OBVIOUS
<1> USE DEF CqBorrow, posterVars, overflowVars
<1>1. WrappingSub(cq_head, cq_head) = 0
  BY SubSelf DEF CqInv, CqTypeOK
<1>2. Unreleased' = Unreleased /\ ReapTail' = ReapTail
  BY <1>1 DEF Unreleased, ReapTail
<1>3. CqTypeOK'
  BY DEF CqInv, CqTypeOK
<1>4. CqOrder' /\ CqContents'
  BY <1>2 DEF CqInv, CqOrder, CqContents
<1>5. CqControl' /\ CqPosting' /\ CqReaped' /\ CqCounted'
  BY DEF CqInv, CqControl, CqPosting, CqReaped, CqCounted
<1> QED
  BY <1>3, <1>4, <1>5 DEF CqInv

LEMMA StartPopKeepsInv ==
    ASSUME CqInv, NEW n \in Nat, n <= CqLen, StartPop(n)
    PROVE  CqInv'
<1> USE DEF StartPop, posterVars, overflowVars
<1>1. Unreleased' = Unreleased /\ ReapTail' = ReapTail
  BY DEF Unreleased, ReapTail
<1>2. CqTypeOK'
  BY DEF CqInv, CqTypeOK
<1>3. CqOrder'
  <2>1. c_open /\ c_todo = 0 /\ ReapTail = c_tail /\ Unreleased = WrappingSub(c_head, cq_head)
    BY DEF CqInv, CqControl, ReapTail, Unreleased
  <2>2. Unreleased \in Nat /\ WrappingSub(c_tail, cq_head) \in Nat
        /\ Unreleased <= WrappingSub(c_tail, cq_head)
    BY <2>1, CqDistances, CqConstants DEF CqInv
  <2>3. CqLen = WrappingSub(c_tail, cq_head) - Unreleased
    BY <2>1, <2>2, SubSplit DEF CqLen, CqInv, CqTypeOK
  <2>4. Unreleased + n <= WrappingSub(c_tail, cq_head)
    BY <2>2, <2>3
  <2> QED
    BY <1>1, <2>1, <2>4 DEF CqInv, CqOrder
<1>4. CqContents'
  BY <1>1 DEF CqInv, CqContents
<1>5. CqControl' /\ CqPosting' /\ CqReaped' /\ CqCounted'
  BY DEF CqInv, CqControl, CqPosting, CqReaped, CqCounted
<1> QED
  BY <1>2, <1>3, <1>4, <1>5 DEF CqInv

(* next and fill only start as many pops as the cached window holds. *)
LEMMA NextFillKeepInv ==
    /\ CqInv /\ NextCqe => CqInv'
    /\ \A n \in FillSizes : CqInv /\ Fill(n) => CqInv'
<1>1. CqInv => CqLen \in Nat /\ (c_head # c_tail => CqLen >= 1)
  <2> SUFFICES ASSUME CqInv PROVE CqLen \in Nat /\ (c_head # c_tail => CqLen >= 1)
    OBVIOUS
  <2>1. c_head \in U32 /\ c_tail \in U32
    BY DEF CqInv, CqTypeOK
  <2> QED
    BY <2>1, ModulusAssumption DEF CqLen, WrappingSub, U32
<1>2. CqInv /\ NextCqe => CqInv'
  BY <1>1, StartPopKeepsInv DEF NextCqe
<1>3. ASSUME NEW n \in FillSizes, CqInv, Fill(n) PROVE CqInv'
  <2>1. FillCount(n) \in Nat /\ FillCount(n) <= CqLen
    BY <1>1, <1>3, CqConstants DEF FillCount
  <2> QED
    BY <1>3, <2>1, StartPopKeepsInv DEF Fill
<1> QED
  BY <1>2, <1>3

(* Popping one completion: the slot holds the next one that was posted. *)
LEMMA PopKeepsInv == CqInv /\ Pop => CqInv'
<1> SUFFICES ASSUME CqInv, Pop PROVE CqInv'
  OBVIOUS
<1> DEFINE U == Unreleased
           W == WrappingSub(ReapTail, cq_head)
           D == WrappingSub(cq_tail, cq_head)
           x == cqes[CqSlot(c_head)]
<1>1. /\ c_open /\ c_todo \in Nat \ {0} /\ cq_head \in U32 /\ c_head \in U32
      /\ reaped \in Seq(Cqe) /\ posted \in Seq(Cqe)
      /\ Len(reaped) \in Nat /\ Len(posted) \in Nat
  BY DEF CqInv, CqControl, CqTypeOK, Pop
<1>2. /\ U \in Nat /\ W \in Nat /\ D \in 0 .. CqEntries
      /\ U + c_todo <= W /\ W <= D /\ U \in U32
      /\ U = WrappingSub(c_head, cq_head) /\ c_head = WrappingAdd(cq_head, U)
  BY <1>1, CqDistances, CqConstants DEF CqInv, Unreleased
<1>3. /\ Len(reaped) - U >= 0 /\ Len(posted) = Len(reaped) - U + D
      /\ \A i \in 0 .. D - 1 :
            cqes[CqSlot(WrappingAdd(cq_head, i))] = posted[Len(reaped) - U + i + 1]
  BY DEF CqInv, CqContents
<1>4. U \in 0 .. D - 1 /\ U + 1 < Modulus
  <2> HIDE DEF U, W, D
  <2> QED
    BY <1>1, <1>2, CqConstants
<1>5. x = posted[Len(reaped) + 1] /\ Len(reaped) + 1 \in 1 .. Len(posted)
  <2>1. x = posted[Len(reaped) - U + U + 1]
    BY <1>2, <1>3, <1>4
  <2> HIDE DEF U, W, D, x
  <2>2. Len(reaped) - U + U + 1 = Len(reaped) + 1
    BY <1>1, <1>2
  <2>3. Len(reaped) + 1 \in 1 .. Len(posted)
    <3> DEFINE r == Len(reaped)
               p == Len(posted)
    <3>1. r \in Nat /\ p \in Nat /\ p = r - U + D
      BY <1>1, <1>3
    <3> HIDE DEF r, p
    <3>2. U \in Nat /\ D \in Nat /\ U < D
      BY <1>2, <1>4, CqConstants
    <3>3. r + 1 <= p
      BY <3>1, <3>2
    <3>4. r + 1 \in 1 .. p
      BY <3>1, <3>3
    <3> QED
      BY <3>4 DEF r, p
  <2> QED
    BY <2>1, <2>2, <2>3
<1>6. x \in Cqe
  BY <1>1, <1>5
<1>7. WrappingInc(c_head) \in U32 /\ WrappingSub(WrappingInc(c_head), cq_head) = U + 1
  BY <1>1, <1>2, <1>4, WrapTypes, SubInc
<1>8. Unreleased' = U + 1 /\ ReapTail' = ReapTail
  BY <1>1, <1>7 DEF Unreleased, ReapTail, Pop
<1>9. /\ reaped' \in Seq(Cqe) /\ Len(reaped') = Len(reaped) + 1
      /\ reaped'[Len(reaped) + 1] = x
      /\ \A i \in 1 .. Len(reaped) : reaped'[i] = reaped[i]
  BY <1>1, <1>6 DEF Pop
<1>10. c_todo' \in Nat /\ c_todo' = c_todo - 1 /\ c_pc' \in {"idle", "pop"}
  BY <1>1 DEF Pop
<1>11. CqTypeOK'
  BY <1>7, <1>9, <1>10 DEF CqInv, CqTypeOK, Pop, posterVars, overflowVars
<1>12. CqOrder'
  <2>1. cq_head' = cq_head /\ cq_tail' = cq_tail
    BY DEF Pop
  <2>2. (U + 1) + c_todo' <= W
    <3> HIDE DEF U, W, D
    <3> QED
      BY <1>1, <1>2, <1>10
  <2> QED
    BY <1>8, <2>1, <2>2 DEF CqInv, CqOrder
<1>13. CqControl'
  BY <1>1 DEF CqInv, CqControl, Pop
<1>14. CqPosting' /\ CqCounted'
  BY DEF CqInv, CqPosting, CqCounted, Pop, posterVars, overflowVars
<1>15. CqContents'
  <2>1. Len(reaped') - Unreleased' = Len(reaped) - U
    <3> DEFINE r == Len(reaped)
    <3>1. r \in Nat /\ U \in Nat /\ Len(reaped') = r + 1 /\ Unreleased' = U + 1
      BY <1>1, <1>2, <1>8, <1>9
    <3> HIDE DEF U, r
    <3>2. (r + 1) - (U + 1) = r - U
      BY <3>1
    <3> QED
      BY <3>1, <3>2 DEF r
  <2>2. cq_head' = cq_head /\ cq_tail' = cq_tail /\ cqes' = cqes /\ posted' = posted
    BY DEF Pop
  <2> QED
    BY <1>3, <2>1, <2>2 DEF CqContents
<1>16. CqReaped'
  <2>1. posted' = posted
    BY DEF Pop
  <2>2. ASSUME NEW i \in 1 .. Len(reaped) + 1 PROVE reaped'[i] = posted[i]
    <3>1. CASE i = Len(reaped) + 1
      BY <1>5, <1>9, <3>1
    <3>2. CASE i \in 1 .. Len(reaped)
      BY <1>9, <3>2 DEF CqInv, CqReaped
    <3> QED
      BY <1>1, <3>1, <3>2
  <2> QED
    BY <1>9, <2>1, <2>2 DEF CqReaped
<1> QED
  BY <1>11, <1>12, <1>13, <1>14, <1>15, <1>16 DEF CqInv
(* Releasing the popped slots, by sync or by Drop: the shared head moves   *)
(* up to the cached one, over slots that have been copied.                 *)
LEMMA ReleaseKeepsInv == CqInv /\ (CqSyncStore \/ CqDrop) => CqInv'
<1> SUFFICES ASSUME CqInv, CqSyncStore \/ CqDrop PROVE CqInv'
  OBVIOUS
<1> DEFINE U == Unreleased
           W == WrappingSub(c_tail, cq_head)
           D == WrappingSub(cq_tail, cq_head)
           r == Len(reaped)
<1>1. /\ c_open /\ c_pc = "idle" /\ cq_head' = c_head /\ cq_tail' = cq_tail
      /\ c_head' = c_head /\ c_tail' = c_tail /\ c_todo' = c_todo /\ cqes' = cqes
      /\ UNCHANGED <<overflowVars, posterVars, posted, reaped>>
      /\ \/ c_open' = c_open /\ c_pc' = "sync"
         \/ c_open' = FALSE /\ c_pc' = "idle"
  BY DEF CqSyncStore, CqDrop, CqReleased
<1>2. c_todo = 0 /\ c_todo' = 0
  BY <1>1 DEF CqInv, CqControl
<1>3. /\ cq_head \in U32 /\ c_head \in U32 /\ c_tail \in U32 /\ cq_tail \in U32
      /\ r \in Nat
  BY DEF CqInv, CqTypeOK
<1>4. /\ ReapTail = c_tail /\ U = WrappingSub(c_head, cq_head)
      /\ U \in Nat /\ W \in Nat /\ D \in Nat /\ U <= W /\ W <= D /\ D <= CqEntries
      /\ U \in U32 /\ c_head = WrappingAdd(cq_head, U)
  BY <1>1, <1>2, CqDistances, CqConstants DEF CqInv, ReapTail, Unreleased
<1>5. WrappingSub(c_head, c_head) = 0
  BY <1>3, SubSelf
<1>6. Unreleased' = 0 /\ (ReapTail' = c_tail \/ ReapTail' = cq_tail)
  BY <1>1, <1>5 DEF Unreleased, ReapTail
<1>7. WrappingSub(c_tail, c_head) = W - U /\ WrappingSub(cq_tail, c_head) = D - U
  <2>1. WrappingSub(c_head, cq_head) <= W /\ WrappingSub(c_head, cq_head) <= D
    <3> HIDE DEF U, W, D
    <3> QED
      BY <1>4
  <2> QED
    BY <1>3, <1>4, <2>1, SubSplit
<1>8. CqTypeOK'
  <2>1. c_open' \in BOOLEAN
    BY <1>1 DEF CqInv, CqTypeOK
  <2>2. c_pc' \in {"idle", "pop", "sync"}
    BY <1>1
  <2> QED
    BY <1>1, <1>3, <2>1, <2>2 DEF CqInv, CqTypeOK, overflowVars, posterVars
<1>9. CqOrder'
  <2>1. 0 <= W - U /\ 0 <= D - U /\ W - U <= D - U /\ D - U <= CqEntries
    <3> HIDE DEF U, W, D
    <3> QED
      BY <1>4, CqConstants
  <2>2. /\ 0 + c_todo' <= WrappingSub(ReapTail', c_head)
        /\ WrappingSub(ReapTail', c_head) <= WrappingSub(cq_tail, c_head)
        /\ WrappingSub(cq_tail, c_head) <= CqEntries
    <3>1. W - U \in Int /\ D - U \in Int
      <4> HIDE DEF U, W, D
      <4> QED
        BY <1>4
    <3> HIDE DEF U, W, D
    <3> QED
      BY <1>2, <1>6, <1>7, <2>1, <3>1
  <2> QED
    BY <1>1, <1>6, <2>2 DEF CqOrder
<1>10. CqControl'
  BY <1>1, <1>2 DEF CqControl
<1>11. CqPosting'
  <2>1. D < CqEntries => D - U < CqEntries
    <3> HIDE DEF U, W, D
    <3> QED
      BY <1>4, CqConstants
  <2> QED
    BY <1>1, <1>7, <2>1 DEF CqInv, CqPosting, posterVars
<1>12. /\ r - U >= 0 /\ Len(posted) = r - U + D
       /\ \A i \in 0 .. D - 1 :
             cqes[CqSlot(WrappingAdd(cq_head, i))] = posted[r - U + i + 1]
  BY DEF CqInv, CqContents
<1>13. CqContents'
  <2>1. /\ r - 0 = r /\ r >= 0 /\ r - U + D = r + (D - U)
    <3> HIDE DEF U, W, D, r
    <3> QED
      BY <1>3, <1>4
  <2>2. ASSUME NEW i \in 0 .. (D - U) - 1
        PROVE  cqes[CqSlot(WrappingAdd(c_head, i))] = posted[r + i + 1]
    <3>1. /\ U + i \in 0 .. D - 1 /\ i \in U32 /\ U + i < Modulus
          /\ r - U + (U + i) + 1 = r + i + 1
      <4> HIDE DEF U, W, D, r
      <4> QED
        BY <1>3, <1>4, CqConstants DEF U32
    <3>2. WrappingAdd(c_head, i) = WrappingAdd(cq_head, U + i)
      <4>1. WrappingAdd(WrappingAdd(cq_head, U), i) = WrappingAdd(cq_head, U + i)
        <5> HIDE DEF U, W, D, r
        <5> QED
          BY <1>3, <1>4, <3>1, AddAdd
      <4> QED
        BY <1>4, <4>1
    <3>3. cqes[CqSlot(WrappingAdd(cq_head, U + i))] = posted[r - U + (U + i) + 1]
      BY <1>12, <3>1
    <3> QED
      BY <3>1, <3>2, <3>3
  <2>3. reaped' = reaped /\ posted' = posted
    BY <1>1
  <2>4. /\ Len(reaped') - Unreleased' = r
        /\ WrappingSub(cq_tail', cq_head') = D - U
    BY <1>1, <1>6, <1>7, <2>1, <2>3
  <2>5. Len(posted') = r + (D - U)
    BY <1>12, <2>1, <2>3
  <2> HIDE DEF D, U
  <2>6. \A i \in 0 .. (D - U) - 1 :
          cqes'[CqSlot(WrappingAdd(cq_head', i))] = posted'[r + i + 1]
    BY <1>1, <2>2, <2>3
  <2> HIDE DEF r
  <2> QED
    BY <2>1, <2>4, <2>5, <2>6 DEF CqContents
<1>14. CqReaped' /\ CqCounted'
  BY <1>1 DEF CqInv, CqReaped, CqCounted, overflowVars, posterVars
<1> QED
  BY <1>8, <1>9, <1>10, <1>11, <1>13, <1>14 DEF CqInv

(* Refreshing the cached tail moves it up to the shared one. *)
LEMMA CqSyncLoadKeepsInv == CqInv /\ CqSyncLoad => CqInv'
<1> SUFFICES ASSUME CqInv, CqSyncLoad PROVE CqInv'
  OBVIOUS
<1> USE DEF CqSyncLoad, CqRefreshed, posterVars, overflowVars
<1>1. c_open /\ c_todo = 0
  BY DEF CqInv, CqControl
<1>2. Unreleased' = Unreleased /\ ReapTail' = cq_tail
  BY <1>1 DEF Unreleased, ReapTail
<1>3. CqTypeOK'
  BY DEF CqInv, CqTypeOK
<1>4. CqOrder'
  <2>1. /\ Unreleased \in Nat /\ WrappingSub(ReapTail, cq_head) \in Nat
        /\ WrappingSub(cq_tail, cq_head) \in Nat
        /\ Unreleased + c_todo <= WrappingSub(ReapTail, cq_head)
        /\ WrappingSub(ReapTail, cq_head) <= WrappingSub(cq_tail, cq_head)
        /\ WrappingSub(cq_tail, cq_head) <= CqEntries
    BY CqDistances, CqConstants DEF CqInv
  <2> QED
    BY <1>1, <1>2, <2>1 DEF CqOrder
<1>5. CqContents'
  BY <1>2 DEF CqInv, CqContents
<1>6. CqControl' /\ CqPosting' /\ CqReaped' /\ CqCounted'
  BY <1>1 DEF CqInv, CqControl, CqPosting, CqReaped, CqCounted
<1> QED
  BY <1>3, <1>4, <1>5, <1>6 DEF CqInv

(* The poster's steps that leave the ring and the histories alone. *)
LEMMA PosterKeepsInv ==
    ASSUME CqInv,
           UNCHANGED <<cq_head, cq_tail, cqes, cq_overflow, reaperVars, posted, reaped>>,
           CqTypeOK', CqPosting', CqCounted'
    PROVE  CqInv'
<1>1. Unreleased' = Unreleased /\ ReapTail' = ReapTail
  BY DEF Unreleased, ReapTail, reaperVars
<1>2. CqOrder' /\ CqContents'
  BY <1>1 DEF CqInv, CqOrder, CqContents, reaperVars
<1>3. CqControl' /\ CqReaped'
  BY DEF CqInv, CqControl, CqReaped, reaperVars
<1> QED
  BY <1>2, <1>3 DEF CqInv

LEMMA PostCqeKeepsInv == ASSUME CqInv, NEW c \in Cqe, PostCqe(c) PROVE CqInv'
<1> USE DEF PostCqe, overflowVars
<1>1. CqTypeOK'
  BY DEF CqInv, CqTypeOK, reaperVars
<1>2. CqPosting' /\ CqCounted'
  BY DEF CqInv, CqPosting, CqCounted
<1> QED
  BY <1>1, <1>2, PosterKeepsInv

(* The check for room. *)
LEMMA LoadCqKeepsInv == CqInv /\ LoadCq => CqInv'
<1> SUFFICES ASSUME CqInv, LoadCq PROVE CqInv'
  OBVIOUS
<1> USE DEF LoadCq, overflowVars
<1>1. p_pc' \in {"overflow", "write"}
  OBVIOUS
<1>2. CqTypeOK'
  BY <1>1 DEF CqInv, CqTypeOK, reaperVars
<1>3. p_pc' = "write" => WrappingSub(cq_tail, cq_head) < CqEntries
  <2>1. WrappingSub(cq_tail, cq_head) \in Nat
    BY WrapTypes, CqConstants DEF CqInv, CqTypeOK
  <2> QED
    BY <2>1, CqConstants DEF CqIsFull
<1>4. CqPosting'
  BY <1>1, <1>3 DEF CqInv, CqPosting
<1>5. CqCounted'
  BY <1>1 DEF CqInv, CqCounted
<1> QED
  BY <1>2, <1>4, <1>5, PosterKeepsInv

(* A lost completion is counted; the first of a round also raises the flag. *)
LEMMA CountOverflowKeepsInv == CqInv /\ CountOverflow => CqInv'
<1> SUFFICES ASSUME CqInv, CountOverflow PROVE CqInv'
  OBVIOUS
<1>1. p_cqe \in Cqe /\ dropped \in Seq(Cqe) /\ Len(dropped) \in Nat
  BY DEF CqInv, CqPosting, CqTypeOK, CountOverflow
<1>2. /\ dropped' \in Seq(Cqe) /\ Len(dropped') = Len(dropped) + 1 /\ dropped' # <<>>
  BY <1>1 DEF CountOverflow
<1>3. cq_overflow' \in U32 /\ p_pc' \in {"flag", "idle"}
  BY WrapTypes DEF CqInv, CqTypeOK, CountOverflow
<1>4. CqTypeOK'
  BY <1>2, <1>3 DEF CqInv, CqTypeOK, CountOverflow, reaperVars
<1>5. CqPosting'
  BY <1>1, <1>3 DEF CqPosting, CountOverflow
<1>6. CqCounted'
  <2>1. cq_overflow' = Len(dropped') % Modulus
    BY <1>1, <1>2, ModInc DEF CqInv, CqCounted, CountOverflow
  <2>2. CASE p_pc' = "flag"
    BY <1>2, <2>1, <2>2 DEF CqCounted
  <2>3. CASE p_pc' # "flag"
    <3>1. cq_overflow # 0
      BY <2>3 DEF CountOverflow, FirstOverflow
    <3>2. dropped # <<>>
      <4>1. 0 % Modulus = 0
        BY CqConstants
      <4> QED
        BY <3>1, <4>1 DEF CqInv, CqCounted
    <3>3. sq_cq_overflow'
      BY <3>2 DEF CqInv, CqCounted, CountOverflow
    <3> QED
      BY <1>2, <2>1, <2>3, <3>3 DEF CqCounted
  <2> QED
    BY <2>2, <2>3
<1>7. Unreleased' = Unreleased /\ ReapTail' = ReapTail
  BY DEF Unreleased, ReapTail, reaperVars, CountOverflow
<1>8. CqOrder' /\ CqContents'
  BY <1>7 DEF CqInv, CqOrder, CqContents, reaperVars, CountOverflow
<1>9. CqControl' /\ CqReaped'
  BY DEF CqInv, CqControl, CqReaped, reaperVars, CountOverflow
<1> QED
  BY <1>4, <1>5, <1>6, <1>8, <1>9 DEF CqInv

LEMMA SetOverflowFlagKeepsInv == CqInv /\ SetOverflowFlag => CqInv'
<1> SUFFICES ASSUME CqInv, SetOverflowFlag PROVE CqInv'
  OBVIOUS
<1> USE DEF SetOverflowFlag
<1>1. sq_cq_overflow' \in BOOLEAN
  OBVIOUS
<1>2. CqTypeOK'
  BY <1>1 DEF CqInv, CqTypeOK, reaperVars
<1>3. CqPosting'
  BY DEF CqInv, CqPosting
<1>4. CqCounted'
  BY DEF CqInv, CqCounted
<1> QED
  BY <1>2, <1>3, <1>4, PosterKeepsInv

(* Writing the free slot behind the tail leaves every published one alone. *)
LEMMA WriteCqeKeepsInv == CqInv /\ WriteCqe => CqInv'
<1> SUFFICES ASSUME CqInv, WriteCqe PROVE CqInv'
  OBVIOUS
<1> DEFINE D == WrappingSub(cq_tail, cq_head)
<1>1. /\ p_cqe \in Cqe /\ cq_tail \in U32 /\ cq_head \in U32 /\ D \in Nat
      /\ D < CqEntries /\ cqes \in [CqSlots -> Cqe \cup {Zeroed}]
  BY WrapTypes, CqConstants DEF CqInv, CqPosting, CqTypeOK, WriteCqe
<1>2. CqSlot(cq_tail) \in CqSlots
  BY <1>1, CqSlotFacts
<1>3. cqes' \in [CqSlots -> Cqe \cup {Zeroed}] /\ cqes'[CqSlot(cq_tail)] = p_cqe
  BY <1>1, <1>2 DEF WriteCqe
<1>4. ASSUME NEW i \in 0 .. D - 1
      PROVE  cqes'[CqSlot(WrappingAdd(cq_head, i))] = cqes[CqSlot(WrappingAdd(cq_head, i))]
  <2>1. i \in U32
    BY <1>1, CqConstants DEF U32
  <2>2. WrappingAdd(cq_head, i) \in U32
    BY <1>1, <2>1, WrapTypes
  <2>3. WrappingSub(cq_tail, WrappingAdd(cq_head, i)) = D - i
    BY <1>1, <2>1, SubAdd
  <2>4. D - i \in 1 .. CqEntries - 1
    BY <1>1, CqConstants
  <2>5. CqSlot(cq_tail) # CqSlot(WrappingAdd(cq_head, i))
    BY <1>1, <2>2, <2>3, <2>4, CqSlotFacts
  <2> QED
    BY <1>1, <2>2, <2>5, CqSlotFacts DEF WriteCqe
<1>5. CqTypeOK'
  BY <1>3 DEF CqInv, CqTypeOK, WriteCqe, reaperVars, overflowVars
<1>6. CqPosting' /\ CqCounted'
  BY <1>1, <1>3 DEF CqInv, CqPosting, CqCounted, WriteCqe, overflowVars
<1>7. Unreleased' = Unreleased /\ ReapTail' = ReapTail
  BY DEF Unreleased, ReapTail, reaperVars, WriteCqe
<1>8. CqOrder'
  BY <1>7 DEF CqInv, CqOrder, reaperVars, WriteCqe
<1>9. CqContents'
  BY <1>4, <1>7 DEF CqInv, CqContents, WriteCqe
<1>10. CqControl' /\ CqReaped'
  BY DEF CqInv, CqControl, CqReaped, reaperVars, WriteCqe
<1> QED
  BY <1>5, <1>6, <1>8, <1>9, <1>10 DEF CqInv
(* Storing the tail publishes the slot just written. *)
LEMMA StoreTailKeepsInv == CqInv /\ StoreTail => CqInv'
<1> SUFFICES ASSUME CqInv, StoreTail PROVE CqInv'
  OBVIOUS
<1> DEFINE U == Unreleased
           W == WrappingSub(ReapTail, cq_head)
           D == WrappingSub(cq_tail, cq_head)
           r == Len(reaped)
           p == Len(posted)
<1>1. /\ p_cqe \in Cqe /\ cq_tail \in U32 /\ cq_head \in U32
      /\ D < CqEntries /\ cqes[CqSlot(cq_tail)] = p_cqe
      /\ posted \in Seq(Cqe) /\ r \in Nat /\ p \in Nat
  BY DEF CqInv, CqPosting, CqTypeOK, StoreTail
<1>2. U \in Nat /\ W \in Nat /\ D \in Nat /\ U + c_todo <= W /\ W <= D /\ c_todo \in Nat
  BY CqDistances, CqConstants DEF CqInv, CqTypeOK
<1>3. /\ WrappingInc(cq_tail) \in U32 /\ WrappingSub(WrappingInc(cq_tail), cq_head) = D + 1
      /\ D \in U32
  <2>1. D + 1 < Modulus /\ D \in U32
    <3> HIDE DEF D
    <3> QED
      BY <1>1, <1>2, CqConstants DEF U32
  <2> QED
    BY <1>1, <2>1, WrapTypes, SubInc
<1>4. /\ cq_tail' = WrappingInc(cq_tail) /\ cq_head' = cq_head /\ cqes' = cqes
      /\ reaped' = reaped /\ posted' = Append(posted, p_cqe) /\ p_pc' = "idle"
      /\ UNCHANGED <<overflowVars, reaperVars, p_cqe>>
  BY DEF StoreTail
<1>5. /\ posted' \in Seq(Cqe) /\ Len(posted') = p + 1 /\ posted'[p + 1] = p_cqe
      /\ \A i \in 1 .. p : posted'[i] = posted[i]
  BY <1>1, <1>4
<1>6. CqTypeOK'
  BY <1>3, <1>4, <1>5 DEF CqInv, CqTypeOK, overflowVars, reaperVars
<1>7. Unreleased' = U
  BY <1>4 DEF Unreleased, reaperVars
<1>8. CqOrder'
  <2>1. D + 1 <= CqEntries /\ U + c_todo <= D + 1 /\ W <= D + 1 /\ D + 1 <= D + 1
    <3> HIDE DEF U, W, D
    <3> QED
      BY <1>1, <1>2, CqConstants
  <2>2. ReapTail' = ReapTail \/ ReapTail' = WrappingInc(cq_tail)
    BY <1>4 DEF ReapTail, reaperVars
  <2>3. c_todo' = c_todo
    BY <1>4 DEF reaperVars
  <2>4. \/ WrappingSub(ReapTail', cq_head) = W
        \/ WrappingSub(ReapTail', cq_head) = D + 1
    BY <1>3, <2>2
  <2>5. /\ U + c_todo' <= WrappingSub(ReapTail', cq_head)
        /\ WrappingSub(ReapTail', cq_head) <= D + 1
    <3> HIDE DEF U, W, D
    <3> QED
      BY <1>2, <2>1, <2>3, <2>4
  <2> QED
    BY <1>3, <1>4, <1>7, <2>1, <2>5 DEF CqOrder
<1>9. CqControl' /\ CqPosting' /\ CqCounted'
  <2>1. p_pc = "store"
    BY DEF StoreTail
  <2> QED
    BY <1>4, <2>1 DEF CqInv, CqControl, CqPosting, CqCounted, reaperVars, overflowVars
<1>10. /\ r - U >= 0 /\ p = r - U + D
       /\ \A i \in 0 .. D - 1 :
             cqes[CqSlot(WrappingAdd(cq_head, i))] = posted[r - U + i + 1]
  BY DEF CqInv, CqContents
<1>11. CqContents'
  <2>1. p + 1 = r - U + (D + 1)
    <3> HIDE DEF U, D, r, p
    <3> QED
      BY <1>1, <1>2, <1>10
  <2>2. ASSUME NEW i \in 0 .. (D + 1) - 1
        PROVE  cqes[CqSlot(WrappingAdd(cq_head, i))] = posted'[r - U + i + 1]
    <3>1. CASE i = D
      <4>1. WrappingAdd(cq_head, D) = cq_tail
        BY <1>1, AddSub
      <4>2. r - U + D + 1 = p + 1
        BY <1>10
      <4> QED
        BY <1>1, <1>5, <3>1, <4>1, <4>2
    <3>2. CASE i < D
      <4>1. i \in 0 .. D - 1 /\ r - U + i + 1 \in 1 .. p
        <5> HIDE DEF U, D, r, p
        <5> QED
          BY <1>1, <1>2, <1>10, <3>2
      <4> QED
        BY <1>5, <1>10, <4>1
    <3>3. i \in Int /\ D \in Int /\ i <= D
      <4> HIDE DEF D
      <4> QED
        BY <1>2
    <3> QED
      BY <3>1, <3>2, <3>3
  <2>3. /\ Len(reaped') - Unreleased' = r - U /\ Len(posted') = p + 1
        /\ WrappingSub(cq_tail', cq_head') = D + 1
    BY <1>3, <1>4, <1>5, <1>7
  <2>4. \A i \in 0 .. (D + 1) - 1 :
          cqes'[CqSlot(WrappingAdd(cq_head', i))] = posted'[r - U + i + 1]
    BY <1>4, <2>2
  <2> HIDE DEF U, D, r, p
  <2> QED
    BY <1>10, <2>1, <2>3, <2>4 DEF CqContents
<1>12. CqReaped'
  <2>1. r <= p
    <3> HIDE DEF U, W, D, r, p
    <3> QED
      BY <1>1, <1>2, <1>10
  <2>2. ASSUME NEW i \in 1 .. Len(reaped) PROVE reaped[i] = posted'[i]
    BY <1>1, <1>5, <2>1 DEF CqInv, CqReaped
  <2> QED
    BY <1>4, <2>2 DEF CqReaped
<1> QED
  BY <1>6, <1>8, <1>9, <1>11, <1>12 DEF CqInv

-----------------------------------------------------------------------------
(* The theorems *)

(* CqInv is inductive. *)
LEMMA CqInvStep == CqInv /\ [CqNext]_cqVars => CqInv'
<1> SUFFICES ASSUME CqInv, [CqNext]_cqVars PROVE CqInv'
  OBVIOUS
<1>1. CASE CqBorrow
  BY <1>1, CqBorrowKeepsInv
<1>2. CASE NextCqe
  BY <1>2, NextFillKeepInv
<1>3. CASE \E n \in FillSizes : Fill(n)
  BY <1>3, NextFillKeepInv
<1>4. CASE Pop
  BY <1>4, PopKeepsInv
<1>5. CASE CqSyncStore \/ CqDrop
  BY <1>5, ReleaseKeepsInv
<1>6. CASE CqSyncLoad
  BY <1>6, CqSyncLoadKeepsInv
<1>7. CASE \E c \in Cqe : PostCqe(c)
  BY <1>7, PostCqeKeepsInv
<1>8. CASE LoadCq
  BY <1>8, LoadCqKeepsInv
<1>9. CASE CountOverflow
  BY <1>9, CountOverflowKeepsInv
<1>10. CASE SetOverflowFlag
  BY <1>10, SetOverflowFlagKeepsInv
<1>11. CASE WriteCqe
  BY <1>11, WriteCqeKeepsInv
<1>12. CASE StoreTail
  BY <1>12, StoreTailKeepsInv
<1>13. CASE UNCHANGED cqVars
  <2> USE <1>13 DEF cqVars, reaperVars, posterVars, overflowVars
  <2>1. Unreleased' = Unreleased /\ ReapTail' = ReapTail
    BY DEF Unreleased, ReapTail
  <2>2. CqTypeOK' /\ CqControl' /\ CqPosting' /\ CqReaped' /\ CqCounted'
    BY DEF CqInv, CqTypeOK, CqControl, CqPosting, CqReaped, CqCounted
  <2>3. CqOrder' /\ CqContents'
    BY <2>1 DEF CqInv, CqOrder, CqContents
  <2> QED
    BY <2>2, <2>3 DEF CqInv
<1> QED
  BY <1>1, <1>2, <1>3, <1>4, <1>5, <1>6, <1>7, <1>8, <1>9, <1>10, <1>11, <1>12, <1>13
    DEF CqNext, CqUser, CqHandle, CqKernel, CqPostStep

(* The inductive invariant holds of every behaviour of the ring. *)
THEOREM CqInvariance == CqSpec => []CqInv
  BY CqInvInit, CqInvStep, PTL DEF CqSpec

(* Type correctness: in particular the user never reaps the contents of a  *)
(* slot nobody wrote, and the indices stay u32 values.                     *)
THEOREM CqTypeCorrect == CqSpec => []CqTypeOK
<1>1. CqInv => CqTypeOK
  BY DEF CqInv
<1> QED
  BY <1>1, CqInvariance, PTL

(* post_cqe never writes a slot the reaper may still read, whatever the    *)
(* ring size and however stale the handle's cached window is.              *)
THEOREM CqRaceFree == CqSpec => []CqNoRace
<1>1. CqInv => CqNoRace
  <2> SUFFICES ASSUME CqInv, p_pc = "write" PROVE CqNoRace
    BY DEF CqNoRace
  <2> DEFINE U == Unreleased
             D == WrappingSub(cq_tail, cq_head)
  <2>1. cq_tail \in U32 /\ cq_head \in U32 /\ c_head \in U32 /\ c_tail \in U32
    BY DEF CqInv, CqTypeOK
  <2>2. D \in Nat /\ D < CqEntries
    BY <2>1, WrapTypes, CqConstants DEF CqInv, CqPosting
  <2>3. ASSUME NEW i \in 0 .. D - 1
        PROVE  CqSlot(WrappingAdd(cq_head, i)) # CqSlot(cq_tail)
    <3>1. i \in U32
      BY <2>2, CqConstants DEF U32
    <3>2. WrappingAdd(cq_head, i) \in U32
      BY <2>1, <3>1, WrapTypes
    <3>3. WrappingSub(cq_tail, WrappingAdd(cq_head, i)) = D - i
      BY <2>1, <2>2, <3>1, SubAdd
    <3>4. D - i \in 1 .. CqEntries - 1
      BY <2>2, CqConstants
    <3> QED
      BY <2>1, <3>2, <3>3, <3>4, CqSlotFacts
  <2>4. ASSUME c_open, NEW i \in 0 .. CqLen - 1
        PROVE  CqSlot(WrappingAdd(c_head, i)) # CqSlot(cq_tail)
    <3> DEFINE W == WrappingSub(c_tail, cq_head)
    <3>1. /\ ReapTail = c_tail /\ U = WrappingSub(c_head, cq_head) /\ c_todo \in Nat
      BY <2>4 DEF ReapTail, Unreleased, CqInv, CqTypeOK
    <3>2. /\ U \in Nat /\ W \in Nat /\ U + c_todo <= W /\ W <= D /\ U \in U32
          /\ c_head = WrappingAdd(cq_head, U)
      BY <2>4, <3>1, CqDistances, CqConstants DEF CqInv
    <3>3. U <= W
      <4> HIDE DEF U, W, D
      <4> QED
        BY <3>1, <3>2
    <3>4. CqLen = W - U
      BY <2>1, <3>1, <3>3, SubSplit DEF CqLen
    <3>5. i \in U32 /\ U + i \in 0 .. D - 1 /\ U + i < Modulus
      <4> HIDE DEF U, W, D
      <4> QED
        BY <2>2, <3>2, <3>3, <3>4, CqConstants DEF U32
    <3>6. WrappingAdd(WrappingAdd(cq_head, U), i) = WrappingAdd(cq_head, U + i)
      <4> HIDE DEF U, W, D
      <4> QED
        BY <2>1, <3>2, <3>5, AddAdd
    <3> QED
      BY <2>3, <3>2, <3>5, <3>6
  <2> QED
    BY <2>3, <2>4 DEF CqNoRace
<1> QED
  BY <1>1, CqInvariance, PTL

(* The user reaps exactly what was posted, in order and once each, and     *)
(* what it has not reaped is intact.                                       *)
THEOREM CqInOrder == CqSpec => []CqFifo
<1>1. CqInv => CqFifo
  <2> SUFFICES ASSUME CqInv PROVE CqFifo
    OBVIOUS
  <2> DEFINE U == Unreleased
             D == WrappingSub(cq_tail, cq_head)
             r == Len(reaped)
             p == Len(posted)
  <2>1. /\ r \in Nat /\ p \in Nat /\ U \in Nat /\ D \in Nat
        /\ p = r - U + D
        /\ \A i \in 0 .. D - 1 :
              cqes[CqSlot(WrappingAdd(cq_head, i))] = posted[r - U + i + 1]
    BY CqDistances, CqConstants DEF CqInv, CqTypeOK, CqContents
  <2>2. p = r + (D - U)
    <3> HIDE DEF U, D, r, p
    <3> QED
      BY <2>1
  <2>3. ASSUME NEW i \in 1 .. D - U
        PROVE  cqes[CqSlot(WrappingAdd(cq_head, U + i - 1))] = posted[r + i]
    <3>1. U + i - 1 \in 0 .. D - 1 /\ r - U + (U + i - 1) + 1 = r + i
      <4> HIDE DEF U, D, r, p
      <4> QED
        BY <2>1
    <3> QED
      BY <2>1, <3>1
  <2> QED
    BY <2>2, <2>3 DEF CqInv, CqReaped, CqFifo
<1> QED
  BY <1>1, CqInvariance, PTL

(* Overflow is counted modulo 2^32 and reported once and for all. *)
THEOREM CqOverflowExact == CqSpec => []CqOverflowReported
<1>1. CqInv => CqOverflowReported
  BY DEF CqInv, CqCounted, CqOverflowReported
<1> QED
  BY <1>1, CqInvariance, PTL

-----------------------------------------------------------------------------
(* The ring implements the abstract channel. *)

CqUsed == WrappingSub(cq_tail, cq_head)
CqOut == SubSeq(reaped, 1, Len(reaped) - Unreleased)

(* Both parts of the channel's state are windows on the posted sequence:   *)
(* what is out, and then what is queued, up to its end.                    *)
LEMMA CqMapping ==
    CqInv => /\ posted \in Seq(Cqe) /\ CqUsed \in 0 .. CqEntries
             /\ CqUsed <= Len(posted)
             /\ CqPublished = Window(posted, Len(posted) - CqUsed, CqUsed)
             /\ CqOut = Window(posted, 0, Len(posted) - CqUsed)
<1> SUFFICES ASSUME CqInv
             PROVE  /\ posted \in Seq(Cqe) /\ CqUsed \in 0 .. CqEntries
                    /\ CqUsed <= Len(posted)
                    /\ CqPublished = Window(posted, Len(posted) - CqUsed, CqUsed)
                    /\ CqOut = Window(posted, 0, Len(posted) - CqUsed)
  OBVIOUS
<1> DEFINE rel == Len(reaped) - Unreleased
<1>1. posted \in Seq(Cqe) /\ Len(posted) \in Nat /\ reaped \in Seq(Cqe) /\ Len(reaped) \in Nat
  BY DEF CqInv, CqTypeOK
<1>2. CqUsed \in 0 .. CqEntries /\ CqUsed \in Nat /\ Unreleased \in Nat /\ Unreleased <= CqUsed
  <2>1. c_todo \in Nat
    BY DEF CqInv, CqTypeOK
  <2> QED
    BY <2>1, CqDistances, CqConstants DEF CqInv, CqUsed
<1>3. /\ rel >= 0 /\ Len(posted) = rel + CqUsed
      /\ \A i \in 0 .. CqUsed - 1 :
            cqes[CqSlot(WrappingAdd(cq_head, i))] = posted[rel + i + 1]
  BY DEF CqInv, CqContents, CqUsed
<1>4. /\ rel \in Nat /\ rel = Len(posted) - CqUsed /\ rel <= Len(reaped)
      /\ rel + CqUsed <= Len(posted) /\ CqUsed <= Len(posted)
      /\ Len(reaped) <= Len(posted)
  BY <1>1, <1>2, <1>3
<1> HIDE DEF rel
<1>5. ASSUME NEW i \in 1 .. CqUsed
      PROVE  /\ posted[rel + i] \in Cqe
             /\ cqes[CqSlot(WrappingAdd(cq_head, i - 1))] = posted[rel + i]
  <2>1. i - 1 \in 0 .. CqUsed - 1 /\ rel + (i - 1) + 1 = rel + i /\ rel + i \in 1 .. Len(posted)
    BY <1>1, <1>2, <1>4
  <2>2. posted[rel + i] \in Cqe
    BY <1>1, <2>1, ElementOfSeq
  <2> QED
    BY <1>3, <2>1, <2>2
<1>6. CqPublished = Window(posted, rel, CqUsed)
  <2>1. /\ CqPublished \in [1 .. CqUsed -> Cqe]
        /\ \A i \in 1 .. CqUsed : CqPublished[i] = posted[rel + i]
    BY <1>5 DEF CqPublished, CqUsed
  <2>2. CqPublished \in Seq(Cqe) /\ Len(CqPublished) = CqUsed
    BY <1>2, <2>1, FcnIsSeq
  <2>3. \A i \in 1 .. CqUsed : CqPublished[i] = posted[rel + i]
    BY <2>1
  <2>4. posted \in Seq(Cqe) /\ rel \in Nat /\ CqUsed \in Nat /\ rel + CqUsed <= Len(posted)
    BY <1>1, <1>2, <1>4
  <2> QED
    BY <2>2, <2>3, <2>4, IsWindow
<1>7. CqOut = Window(posted, 0, rel)
  <2> DEFINE z == 0
  <2>1. z \in Nat /\ z + rel <= Len(reaped) /\ z + rel <= Len(posted)
    BY <1>1, <1>4
  <2>2. CqOut = Window(reaped, z, rel)
    BY <1>4 DEF CqOut, Window, rel
  <2>3. ASSUME NEW i \in 1 .. rel PROVE reaped[z + i] = posted[z + i]
    BY <1>1, <1>4 DEF CqInv, CqReaped
  <2> HIDE DEF z
  <2>4. /\ Window(reaped, z, rel) \in Seq(Cqe) /\ Len(Window(reaped, z, rel)) = rel
        /\ \A i \in 1 .. rel : Window(reaped, z, rel)[i] = reaped[z + i]
    <3>1. z \in Nat /\ rel \in Nat /\ z + rel <= Len(reaped) /\ reaped \in Seq(Cqe)
      BY <1>1, <1>4, <2>1
    <3> QED
      BY <3>1, WindowProperties
  <2>5. \A i \in 1 .. rel : CqOut[i] = posted[z + i]
    BY <2>2, <2>3, <2>4
  <2>6. /\ CqOut \in Seq(Cqe) /\ Len(CqOut) = rel /\ z \in Nat /\ rel \in Nat
        /\ z + rel <= Len(posted) /\ posted \in Seq(Cqe)
    BY <1>1, <1>4, <2>1, <2>2, <2>4
  <2>7. CqOut = Window(posted, z, rel)
    BY <2>5, <2>6, IsWindow
  <2> QED
    BY <2>7 DEF z
<1> QED
  BY <1>1, <1>2, <1>4, <1>6, <1>7

(* Releasing slots is taking what they hold from the channel. *)
LEMMA CqReleaseTakes ==
    ASSUME CqInv, CqInv', posted' = posted, CqUsed' <= CqUsed
    PROVE  [CqChannel!Next]_(CqChannel!vars)
<1>1. (CqInv => /\ posted \in Seq(Cqe) /\ CqUsed \in 0 .. CqEntries
               /\ CqUsed <= Len(posted)
               /\ CqPublished = Window(posted, Len(posted) - CqUsed, CqUsed)
               /\ CqOut = Window(posted, 0, Len(posted) - CqUsed))'
  BY CqMapping, PTL
<1>2. PICK a \in Nat, n \in 0 .. CqEntries, m \in Nat :
        /\ CqUsed = n + m /\ CqUsed' = m
        /\ Len(posted) = a + n + m
  <2>1. /\ Len(posted) \in Nat /\ CqUsed \in 0 .. CqEntries /\ CqUsed <= Len(posted)
        /\ CqUsed' \in Nat
    BY <1>1, CqMapping, LenProperties, CqConstants
  <2> DEFINE u == CqUsed
             v == CqUsed'
             p == Len(posted)
             b == p - u
             k == u - v
  <2>2. u \in Nat /\ v \in Nat /\ p \in Nat /\ v <= u /\ u <= p /\ u <= CqEntries
    BY <2>1, CqConstants
  <2> HIDE DEF u, v, p
  <2>3. b \in Nat /\ k \in 0 .. CqEntries /\ u = k + v /\ p = b + k + v
    BY <2>2, CqConstants
  <2> HIDE DEF b, k
  <2>4. \E a \in Nat, n \in 0 .. CqEntries, m \in Nat : u = n + m /\ v = m /\ p = a + n + m
    BY <2>2, <2>3
  <2> QED
    BY <2>4 DEF u, v, p
<1>3. n \in Nat
  BY CqConstants
<1>4. Len(posted) - CqUsed = a /\ Len(posted) - CqUsed' = a + n
  BY <1>2, <1>3
<1>5. /\ posted \in Seq(Cqe)
      /\ CqPublished = Window(posted, a, n + m) /\ CqOut = Window(posted, 0, a)
      /\ CqPublished' = Window(posted, a + n, m) /\ CqOut' = Window(posted, 0, a + n)
  BY <1>1, <1>2, <1>4, CqMapping
<1>6. a + n + m <= Len(posted)
  BY <1>2, <1>3
<1>7. /\ Len(CqPublished) = n + m
      /\ CqOut' = CqOut \o SubSeq(CqPublished, 1, n)
      /\ CqPublished' = SubSeq(CqPublished, n + 1, Len(CqPublished))
  <2>1. /\ posted \in Seq(Cqe) /\ CqPublished = Window(posted, a, n + m)
        /\ CqOut = Window(posted, 0, a)
    BY <1>5
  <2>2. /\ Len(CqPublished) = n + m
        /\ Window(posted, a, n) = Window(CqPublished, 0, n)
        /\ Window(posted, a + n, m) = Window(CqPublished, n, m)
    BY <1>3, <1>6, <2>1, WindowTake
  <2>3. a + n <= Len(posted)
    BY <1>2, <1>3
  <2>4. Window(posted, 0, a + n) = Window(posted, 0, a) \o Window(posted, a, n)
    BY <1>3, <2>1, <2>3, PrefixSplit
  <2>5. /\ Window(CqPublished, 0, n) = SubSeq(CqPublished, 1, n)
        /\ Window(CqPublished, n, m) = SubSeq(CqPublished, n + 1, Len(CqPublished))
    BY <2>2 DEF Window
  <2> QED
    BY <1>5, <2>2, <2>4, <2>5
<1>8. CASE n = 0
  <2>1. a + n = a /\ n + m = m
    BY <1>8
  <2> QED
    BY <1>5, <2>1 DEF CqChannel!vars, CqOut
<1>9. CASE n # 0
  <2>1. n \in 1 .. CqEntries /\ n <= Len(CqPublished)
    BY <1>3, <1>7, <1>9, CqConstants
  <2>2. CqChannel!Take(n)
    BY <1>7, <2>1 DEF CqChannel!Take, CqOut
  <2> QED
    BY <2>1, <2>2 DEF CqChannel!Next
<1> QED
  BY <1>8, <1>9

(* Storing the tail publishes one completion. *)
LEMMA CqStoreTailPublishes ==
    ASSUME CqInv, CqInv', StoreTail
    PROVE  [CqChannel!Next]_(CqChannel!vars)
<1>1. (CqInv => /\ posted \in Seq(Cqe) /\ CqUsed \in 0 .. CqEntries
               /\ CqUsed <= Len(posted)
               /\ CqPublished = Window(posted, Len(posted) - CqUsed, CqUsed)
               /\ CqOut = Window(posted, 0, Len(posted) - CqUsed))'
  BY CqMapping, PTL
<1>2. p_cqe \in Cqe /\ posted' = Append(posted, p_cqe) /\ posted \in Seq(Cqe)
      /\ Len(posted) \in Nat /\ CqUsed < CqEntries
  BY DEF CqInv, CqPosting, CqTypeOK, StoreTail, CqUsed
<1>3. CqUsed \in Nat /\ CqUsed <= Len(posted)
  BY CqMapping, CqConstants
<1>4. CqUsed' = CqUsed + 1
  <2>1. CqUsed + 1 < Modulus
    BY <1>2, <1>3, CqConstants
  <2> QED
    BY <2>1, SubInc DEF CqUsed, StoreTail, CqInv, CqTypeOK
<1>5. Len(posted') = Len(posted) + 1
  BY <1>2
<1>6. PICK a \in Nat : Len(posted) = a + CqUsed
  <2>1. Len(posted) - CqUsed \in Nat /\ Len(posted) = (Len(posted) - CqUsed) + CqUsed
    BY <1>2, <1>3
  <2> QED
    BY <2>1
<1>7. Len(posted) - CqUsed = a /\ Len(posted') - CqUsed' = a /\ a + CqUsed <= Len(posted)
  BY <1>2, <1>3, <1>4, <1>5, <1>6
<1>8. /\ CqPublished = Window(posted, a, CqUsed) /\ CqOut = Window(posted, 0, a)
      /\ CqPublished' = Window(Append(posted, p_cqe), a, CqUsed + 1)
      /\ CqOut' = Window(Append(posted, p_cqe), 0, a)
  BY <1>1, <1>2, <1>4, <1>7, CqMapping
<1>9. Window(Append(posted, p_cqe), a, CqUsed + 1) = Window(posted, a, CqUsed) \o <<p_cqe>>
  BY <1>2, <1>3, <1>6, <1>7, WindowAppend
<1>10. Window(Append(posted, p_cqe), 0, a) = Window(posted, 0, a)
  <2> DEFINE z == 0
  <2>1. z \in Nat /\ z + a <= Len(posted)
    BY <1>3, <1>6
  <2> HIDE DEF z
  <2>2. Window(Append(posted, p_cqe), z, a) = Window(posted, z, a)
    BY <1>2, <2>1, WindowAppend
  <2> QED
    BY <2>2 DEF z
<1>11. Len(CqPublished) = CqUsed
  BY <1>2, <1>3, <1>7, <1>8, WindowProperties
<1>12. <<p_cqe>> \in [1 .. 1 -> Cqe]
  BY <1>2
<1>13. CqChannel!Publish(1)
  <2>1. Len(CqPublished) + 1 <= CqEntries
    BY <1>2, <1>3, <1>11, CqConstants
  <2>2. CqPublished' = CqPublished \o <<p_cqe>> /\ CqOut' = CqOut
    BY <1>8, <1>9, <1>10
  <2> QED
    BY <1>12, <2>1, <2>2 DEF CqChannel!Publish, CqOut
<1>14. 1 \in 1 .. CqEntries
  BY CqConstants
<1> QED
  BY <1>13, <1>14 DEF CqChannel!Next

LEMMA CqChannelInit == CqInit => CqChannel!Init
<1> SUFFICES ASSUME CqInit PROVE CqChannel!Init
  OBVIOUS
<1>1. CqInv
  BY CqInvInit
<1>2. posted = <<>> /\ CqUsed = 0 /\ Len(posted) - CqUsed = 0
  BY CqConstants, SubSelf DEF CqInit, CqUsed, U32
<1>3. /\ posted \in Seq(Cqe) /\ CqPublished = Window(posted, 0, 0)
      /\ CqOut = Window(posted, 0, 0)
  BY <1>1, <1>2, CqMapping
<1>4. Window(posted, 0, 0) = <<>>
  BY <1>3, WindowWhole
<1> QED
  BY <1>3, <1>4 DEF CqChannel!Init, CqOut

LEMMA CqChannelStep ==
    CqInv /\ CqInv' /\ [CqNext]_cqVars => [CqChannel!Next]_(CqChannel!vars)
<1> SUFFICES ASSUME CqInv, CqInv', [CqNext]_cqVars
             PROVE  [CqChannel!Next]_(CqChannel!vars)
  OBVIOUS
<1>1. CqUsed \in Nat
  BY CqMapping, CqConstants
<1>2. CASE StoreTail
  BY <1>2, CqStoreTailPublishes
<1>3. CASE CqSyncStore \/ CqDrop
  <2>1. posted' = posted /\ CqUsed' = WrappingSub(cq_tail, c_head) /\ c_open
    BY <1>3 DEF CqSyncStore, CqDrop, CqReleased, CqUsed
  <2>2. Unreleased = WrappingSub(c_head, cq_head)
    BY <2>1 DEF Unreleased
  <2>3. Unreleased \in Nat /\ Unreleased <= CqUsed
    <3>1. c_todo \in Nat
      BY DEF CqInv, CqTypeOK
    <3> QED
      BY <1>1, <3>1, CqDistances, CqConstants DEF CqInv, CqUsed
  <2>4. WrappingSub(cq_tail, c_head) = CqUsed - Unreleased
    BY <2>2, <2>3, SubSplit DEF CqUsed, CqInv, CqTypeOK
  <2>5. CqUsed' <= CqUsed
    BY <1>1, <2>1, <2>3, <2>4
  <2> QED
    BY <2>1, <2>5, CqReleaseTakes
<1>4. CASE posted' = posted /\ cq_head' = cq_head /\ cq_tail' = cq_tail
  <2>1. CqUsed' = CqUsed
    BY <1>4 DEF CqUsed
  <2> QED
    BY <1>1, <1>4, <2>1, CqReleaseTakes
<1>5. \/ StoreTail \/ CqSyncStore \/ CqDrop
      \/ posted' = posted /\ cq_head' = cq_head /\ cq_tail' = cq_tail
  <2>1. CASE CqUser
    BY <2>1 DEF CqUser, CqHandle, CqBorrow, NextCqe, Fill, StartPop, Pop, CqSyncLoad
  <2>2. CASE CqKernel
    BY <2>2 DEF CqKernel, CqPostStep, PostCqe, LoadCq, CountOverflow, SetOverflowFlag, WriteCqe
  <2>3. CASE UNCHANGED cqVars
    BY <2>3 DEF cqVars
  <2> QED
    BY <2>1, <2>2, <2>3 DEF CqNext
<1> QED
  BY <1>2, <1>3, <1>4, <1>5

(* The completion ring implements the abstract FIFO: releasing slots takes *)
(* them from its front, storing the tail publishes at its end, and no      *)
(* other step of either side can be told from doing nothing.               *)
THEOREM CqRefinesChannel == CqSpec => CqIsChannel
  BY CqChannelInit, CqChannelStep, CqInvariance, PTL DEF CqSpec, CqIsChannel, CqChannel!Spec
==============================================================================
