--------------------------- MODULE CompletionQueue ---------------------------
(***************************************************************************)
(* The completion ring: cqueue.rs on the user's side, Submitter::post_cqe  *)
(* on the emulator's side.                                                 *)
(*                                                                         *)
(* With split() a CompletionQueue handle (Send) lives next to a Submitter  *)
(* that flushes from submit_and_wait, so a thread may reap while another   *)
(* posts.  A step is one atomic access to a variable the other side        *)
(* writes, or one access to a slot.                                        *)
(***************************************************************************)
EXTENDS RingIndex, Sequences

CONSTANTS CqEntries,    \* ring_entries of the CQ
          Cqe,          \* the completions the emulator may post
          FillSizes,    \* lengths of the slices given to fill
          MaxPosts      \* bound: calls of post_cqe in one behaviour

ASSUME CqAssumption ==
    /\ RingSize(CqEntries)
    /\ FillSizes \subseteq Nat
    /\ MaxPosts \in Nat

VARIABLES
    cq_head, cq_tail,   \* RingState.cq_head, cq_tail: shared
    cqes,               \* the CQE array: shared
    cq_overflow,        \* RingState.cq_overflow: shared
    sq_cq_overflow,     \* IORING_SQ_CQ_OVERFLOW, the only bit of sq_flags ever set
    c_open,             \* whether a CompletionQueue handle exists
    c_head, c_tail,     \* its fields head, tail: cached copies
    c_pc,               \* where the handle's owner is in a call
    c_todo,             \* entries next / fill still has to pop
    p_pc,               \* where the submitter is in post_cqe
    p_cqe,              \* the completion it posts
    posted,             \* history: completions put into the ring
    dropped,            \* history: completions lost to overflow
    reaped              \* history: completions popped by the user

reaperVars == <<c_open, c_head, c_tail, c_pc, c_todo>>
posterVars == <<p_pc, p_cqe>>
overflowVars == <<cq_overflow, sq_cq_overflow, dropped>>
cqVars == <<cq_head, cq_tail, cqes, overflowVars, reaperVars, posterVars, posted, reaped>>

CqSlots == 0 .. CqEntries - 1
CqSlot(x) == Slot(x, CqEntries)

CqInit ==
    /\ cq_head = 0 /\ cq_tail = 0
    /\ cqes = [s \in CqSlots |-> Zeroed]
    /\ cq_overflow = 0 /\ sq_cq_overflow = FALSE
    /\ c_open = FALSE /\ c_head = 0 /\ c_tail = 0 /\ c_pc = "idle"
    /\ c_todo = 0
    /\ p_pc = "idle" /\ p_cqe = Zeroed
    /\ posted = <<>> /\ dropped = <<>> /\ reaped = <<>>

-----------------------------------------------------------------------------
(* The user's side. *)

CqLen == WrappingSub(c_tail, c_head)

(* borrow_shared: completion(), completion_shared() and split() come here. *)
CqBorrow ==
    /\ ~c_open
    /\ c_open' = TRUE
    /\ c_head' = cq_head
    /\ c_tail' = cq_tail
    /\ UNCHANGED <<cq_head, cq_tail, cqes, overflowVars, c_pc, c_todo, posterVars, posted, reaped>>

StartPop(n) ==
    /\ c_open /\ c_pc = "idle"
    /\ n > 0
    /\ c_todo' = n
    /\ c_pc' = "pop"
    /\ UNCHANGED <<cq_head, cq_tail, cqes, overflowVars, c_open, c_head, c_tail, posterVars, posted, reaped>>

(* Iterator::next; None changes nothing. *)
NextCqe == c_head # c_tail /\ StartPop(1)

(* Mutant: the slice is filled whatever the queue holds. *)
FillCount_Unclamped(n) == n
FillCount(n) == IF CqLen < n THEN CqLen ELSE n

(* fill: as many pops as the slice and the cached window allow. *)
Fill(n) == StartPop(FillCount(n))

(* One pop: copy the slot, advance the cached head only. *)
Pop ==
    /\ c_pc = "pop"
    /\ reaped' = Append(reaped, cqes[CqSlot(c_head)])
    /\ c_head' = WrappingInc(c_head)
    /\ c_todo' = c_todo - 1
    /\ c_pc' = IF c_todo = 1 THEN "idle" ELSE "pop"
    /\ UNCHANGED <<cq_head, cq_tail, cqes, overflowVars, c_open, c_tail, posterVars, posted>>

(* Mutant: sync releases the whole window instead of what was popped. *)
CqReleased_Window == c_tail
CqReleased == c_head

(* sync: release the popped slots, then refresh the cached tail. *)
CqSyncStore ==
    /\ c_open /\ c_pc = "idle"
    /\ cq_head' = CqReleased
    /\ c_pc' = "sync"
    /\ UNCHANGED <<cq_tail, cqes, overflowVars, c_open, c_head, c_tail, c_todo, posterVars, posted, reaped>>

(* Mutant: the refresh of the cached tail is forgotten. *)
CqRefreshed_Stale == c_tail
CqRefreshed == cq_tail

CqSyncLoad ==
    /\ c_pc = "sync"
    /\ c_tail' = CqRefreshed
    /\ c_pc' = "idle"
    /\ UNCHANGED <<cq_head, cq_tail, cqes, overflowVars, c_open, c_head, c_todo, posterVars, posted, reaped>>

(* Drop releases the popped slots and ends the borrow. *)
CqDrop ==
    /\ c_open /\ c_pc = "idle"
    /\ cq_head' = CqReleased
    /\ c_open' = FALSE
    /\ UNCHANGED <<cq_tail, cqes, overflowVars, c_head, c_tail, c_pc, c_todo, posterVars, posted, reaped>>

CqHandle ==
    \/ NextCqe
    \/ \E n \in FillSizes : Fill(n)
    \/ Pop
    \/ CqSyncStore \/ CqSyncLoad \/ CqDrop

CqUser == CqBorrow \/ CqHandle

-----------------------------------------------------------------------------
(* The emulator's side: one call of post_cqe. *)

PostCqe(c) ==
    /\ p_pc = "idle"
    /\ Len(posted) + Len(dropped) < MaxPosts
    /\ p_cqe' = c
    /\ p_pc' = "load"
    /\ UNCHANGED <<cq_head, cq_tail, cqes, overflowVars, reaperVars, posted, reaped>>

(* Mutant: one completion too many is let in. *)
CqIsFull_OffByOne == WrappingSub(cq_tail, cq_head) >= CqEntries + 1
CqIsFull == WrappingSub(cq_tail, cq_head) >= CqEntries

(* Mutant: the tail is advanced before the slot is written. *)
LoadCq_PublishEarly ==
    /\ p_pc = "load"
    /\ p_pc' = IF CqIsFull THEN "overflow" ELSE "write"
    /\ cq_tail' = IF CqIsFull THEN cq_tail ELSE WrappingInc(cq_tail)
    /\ UNCHANGED <<cq_head, cqes, overflowVars, reaperVars, p_cqe, posted, reaped>>

(* Load both indices (only this side writes the tail) and choose. *)
LoadCq ==
    /\ p_pc = "load"
    /\ p_pc' = IF CqIsFull THEN "overflow" ELSE "write"
    /\ UNCHANGED <<cq_head, cq_tail, cqes, overflowVars, reaperVars, p_cqe, posted, reaped>>

(* Mutant: the flag is raised when the new count, not the old one, is 0. *)
FirstOverflow_New == (cq_overflow + 1) % Modulus = 0
FirstOverflow == cq_overflow = 0

(* Full: fetch_add on the overflow counter; the completion is lost. *)
CountOverflow ==
    /\ p_pc = "overflow"
    /\ cq_overflow' = WrappingInc(cq_overflow)
    /\ dropped' = Append(dropped, p_cqe)
    /\ p_pc' = IF FirstOverflow THEN "flag" ELSE "idle"
    /\ UNCHANGED <<cq_head, cq_tail, cqes, sq_cq_overflow, reaperVars, p_cqe, posted, reaped>>

SetOverflowFlag ==
    /\ p_pc = "flag"
    /\ sq_cq_overflow' = TRUE
    /\ p_pc' = "idle"
    /\ UNCHANGED <<cq_head, cq_tail, cqes, cq_overflow, dropped, reaperVars, p_cqe, posted, reaped>>

WriteCqe ==
    /\ p_pc = "write"
    /\ cqes' = [cqes EXCEPT ![CqSlot(cq_tail)] = p_cqe]
    /\ p_pc' = "store"
    /\ UNCHANGED <<cq_head, cq_tail, overflowVars, reaperVars, p_cqe, posted, reaped>>

StoreTail ==
    /\ p_pc = "store"
    /\ cq_tail' = WrappingInc(cq_tail)
    /\ posted' = Append(posted, p_cqe)
    /\ p_pc' = "idle"
    /\ UNCHANGED <<cq_head, cqes, overflowVars, reaperVars, p_cqe, reaped>>

CqPostStep == LoadCq \/ CountOverflow \/ SetOverflowFlag \/ WriteCqe \/ StoreTail

CqKernel == (\E c \in Cqe : PostCqe(c)) \/ CqPostStep

CqNext == CqUser \/ CqKernel

CqSpec == CqInit /\ [][CqNext]_cqVars

(* A thread inside a call of the library keeps running. *)
CqFairness == WF_cqVars(CqPostStep) /\ WF_cqVars(Pop \/ CqSyncLoad)

CqFairSpec == CqSpec /\ CqFairness
-----------------------------------------------------------------------------
(* Properties *)

CqTypeOK ==
    /\ cq_head \in U32 /\ cq_tail \in U32
    /\ cqes \in [CqSlots -> Cqe \cup {Zeroed}]
    /\ cq_overflow \in U32 /\ sq_cq_overflow \in BOOLEAN
    /\ c_open \in BOOLEAN /\ c_head \in U32 /\ c_tail \in U32
    /\ c_pc \in {"idle", "pop", "sync"}
    /\ c_todo \in Nat
    /\ p_pc \in {"idle", "load", "overflow", "flag", "write", "store"}
    /\ p_cqe \in Cqe \cup {Zeroed}
    /\ posted \in Seq(Cqe) /\ dropped \in Seq(Cqe) /\ reaped \in Seq(Cqe)

(* The positions the reaper has popped but not yet released. *)
Unreleased == IF c_open THEN WrappingSub(c_head, cq_head) ELSE 0

(* post_cqe never writes a slot that the reaper may still read: neither    *)
(* one in the handle's cached window, however stale, nor one that is       *)
(* published and outside it.                                               *)
CqNoRace ==
    p_pc = "write" =>
        /\ \A i \in 0 .. WrappingSub(cq_tail, cq_head) - 1 :
              CqSlot(WrappingAdd(cq_head, i)) # CqSlot(cq_tail)
        /\ c_open => \A i \in 0 .. CqLen - 1 :
              CqSlot(WrappingAdd(c_head, i)) # CqSlot(cq_tail)

(* The user reaps exactly the completions that were put into the ring, in  *)
(* order and once each, whatever was dropped in between; those it has not  *)
(* reaped yet are still intact in their slots.                             *)
CqFifo ==
    LET unread == WrappingSub(cq_tail, cq_head) - Unreleased
    IN  /\ Len(posted) = Len(reaped) + unread
        /\ \A i \in 1 .. Len(reaped) : reaped[i] = posted[i]
        /\ \A i \in 1 .. unread :
              cqes[CqSlot(WrappingAdd(cq_head, Unreleased + i - 1))]
                = posted[Len(reaped) + i]

(* Between calls of post_cqe the overflow counter is the number of lost    *)
(* completions (mod 2^32), and the flag SubmissionQueue::cq_overflow       *)
(* reports is up exactly if one was lost, even after the counter wrapped.  *)
CqOverflowReported ==
    p_pc # "flag" =>
        /\ cq_overflow = Len(dropped) % Modulus
        /\ sq_cq_overflow <=> dropped # <<>>

(* Why these properties hold: the inductive invariant.  Counted from the   *)
(* shared head, the cached head comes first, then what a next or fill call *)
(* still has to pop, then the cached tail, then the shared tail, and the   *)
(* ring never closes on itself.                                            *)
ReapTail == IF c_open THEN c_tail ELSE cq_tail

CqOrder ==
    /\ Unreleased + c_todo <= WrappingSub(ReapTail, cq_head)
    /\ WrappingSub(ReapTail, cq_head) <= WrappingSub(cq_tail, cq_head)
    /\ WrappingSub(cq_tail, cq_head) <= CqEntries

CqControl ==
    /\ c_pc = "pop" <=> c_todo # 0
    /\ c_pc # "idle" => c_open

(* Between the check for room and the store of the tail, there is room:    *)
(* the reaper only makes more of it.                                       *)
CqPosting ==
    /\ p_pc # "idle" => p_cqe \in Cqe
    /\ p_pc \in {"write", "store"} => WrappingSub(cq_tail, cq_head) < CqEntries
    /\ p_pc = "store" => cqes[CqSlot(cq_tail)] = p_cqe

(* Between the shared indices the slots hold the last completions posted,  *)
(* those already popped but not yet released included.                     *)
CqContents ==
    LET released == Len(reaped) - Unreleased
    IN  /\ released >= 0
        /\ Len(posted) = released + WrappingSub(cq_tail, cq_head)
        /\ \A i \in 0 .. WrappingSub(cq_tail, cq_head) - 1 :
              cqes[CqSlot(WrappingAdd(cq_head, i))] = posted[released + i + 1]

CqReaped == \A i \in 1 .. Len(reaped) : reaped[i] = posted[i]

CqCounted ==
    /\ cq_overflow = Len(dropped) % Modulus
    /\ IF p_pc = "flag" THEN dropped # <<>> ELSE sq_cq_overflow <=> dropped # <<>>

(* The whole of it. *)
CqInv ==
    CqTypeOK /\ CqOrder /\ CqControl /\ CqPosting /\ CqContents /\ CqReaped /\ CqCounted

(* The ring implements the abstract FIFO: between the shared indices lie   *)
(* the channel's contents, and what is out is what the reaper released.    *)
CqPublished ==
    [i \in 1 .. WrappingSub(cq_tail, cq_head) |->
        cqes[CqSlot(WrappingAdd(cq_head, i - 1))]]

CqChannel == INSTANCE Channel WITH
    Entries <- Cqe, Capacity <- CqEntries,
    queue <- CqPublished, out <- SubSeq(reaped, 1, Len(reaped) - Unreleased)

CqIsChannel == CqChannel!Spec

(* IORING_FEAT_NODROP, one of the features build() always reports. *)
FeatureNodrop == TRUE

(* What is_feature_nodrop documents, "io_uring supports never dropping     *)
(* completion events", and overflow() repeats: with the feature, a full    *)
(* queue loses nothing.                                                    *)
NodropKept == FeatureNodrop => dropped = <<>>

(* A user that keeps calling sync and next reaps every completion that     *)
(* went into the ring.                                                     *)
CqReaps ==
    ([]<><<CqSyncLoad>>_cqVars /\ SF_cqVars(NextCqe)) =>
        \A n \in 1 .. MaxPosts : (Len(posted) >= n) ~> (Len(reaped) >= n)
==============================================================================
