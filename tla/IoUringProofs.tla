----------------------------- MODULE IoUringProofs -----------------------------
(***************************************************************************)
(* The safety properties of the whole ring, for every ring size, every     *)
(* dispatch_op, any number of threads and any panics.                      *)
(***************************************************************************)
EXTENDS IoUring, SubmissionQueueProofs, CompletionQueueProofs, DispatchProofs

(* A step that only moves the call and the queues. *)
QuietStep ==
    /\ UNCHANGED <<threads, pending, results, freed, resolved, faultVars>>
    /\ op = "drop" => op' = "drop"

(* ... and the steps that do more. *)
BusyStep ==
    \/ SpawnBatch \/ SpawnFails
    \/ JoinBatch \/ FlushPanics \/ SkipResult \/ PostResult
    \/ JoinOnDrop \/ FreeMemory
    \/ \E b \in DOMAIN threads : DispatchThread(b) \/ PanickingThread(b)

LEMMA QuietOrBusy == [SysNext]_sysVars => QuietStep \/ BusyStep
<1> SUFFICES ASSUME [SysNext]_sysVars PROVE QuietStep \/ BusyStep
  OBVIOUS
<1>1. ASSUME NEW w \in Wants, CallSubmit(w) \/ \E n \in EnterCounts : CallEnter(n, w)
      PROVE  QuietStep
  BY <1>1 DEF CallSubmit, CallEnter, StartSubmit, QuietStep
<1>2. CASE CallCompletion \/ CallSplit \/ CallDrop
  BY <1>2 DEF CallCompletion, CallSplit, CallDrop, StartCall, QuietStep
<1>3. CASE EnqueueStep \/ PostStep \/ PushThread \/ ReapThread
  BY <1>3 DEF EnqueueStep, PostStep, PushThread, ReapThread, callVars, QuietStep
<1>4. CASE FinishSubmit \/ Unwound \/ FinishWait
  BY <1>4 DEF FinishSubmit, Unwound, FinishWait, QuietStep
<1>5. CASE FinishCompletion \/ FinishSplit
  BY <1>5 DEF FinishCompletion, FinishSplit, QuietStep
<1>6. CASE Gone \/ UNCHANGED sysVars
  BY <1>6 DEF Gone, sysVars, callVars, QuietStep
<1> QED
  BY <1>1, <1>2, <1>3, <1>4, <1>5, <1>6 DEF SysNext, CallStep, BusyStep

-----------------------------------------------------------------------------
(* What the rings see of a step of the whole is a step of theirs. *)

LEMMA SysStepOfSq == [SysNext]_sysVars => [SqNext]_sqVars
<1> SUFFICES ASSUME [SysNext]_sysVars PROVE [SqNext]_sqVars
  OBVIOUS
<1>1. ASSUME NEW w \in Wants, CallSubmit(w) \/ \E n \in EnterCounts : CallEnter(n, w)
      PROVE  SqNext
  BY <1>1 DEF CallSubmit, CallEnter, SqNext, SqKernel
<1>2. CASE EnqueueStep \/ SpawnBatch \/ SpawnFails
  BY <1>2 DEF EnqueueStep, SpawnBatch, SpawnFails, SqNext, SqKernel, SqKernelStep
<1>3. CASE PushThread \/ FinishSplit
  BY <1>3 DEF PushThread, FinishSplit, SqNext, SqUser
<1>4. CASE CallCompletion \/ CallSplit \/ CallDrop
  BY <1>4 DEF CallCompletion, CallSplit, CallDrop, StartCall
<1>5. CASE FinishSubmit \/ Unwound \/ FinishWait \/ FinishCompletion
  BY <1>5 DEF FinishSubmit, Unwound, FinishWait, FinishCompletion
<1>6. CASE JoinBatch \/ FlushPanics \/ SkipResult \/ PostResult \/ PostStep
  BY <1>6 DEF JoinBatch, FlushPanics, SkipResult, PostResult, PostStep
<1>7. CASE JoinOnDrop \/ FreeMemory \/ ReapThread
  BY <1>7 DEF JoinOnDrop, FreeMemory, ReapThread
<1>8. ASSUME NEW b \in DOMAIN threads, DispatchThread(b) \/ PanickingThread(b)
      PROVE  UNCHANGED sqVars
  BY <1>8 DEF DispatchThread, PanickingThread
<1>9. CASE Gone \/ UNCHANGED sysVars
  BY <1>9 DEF Gone, sysVars
<1> QED
  BY <1>1, <1>2, <1>3, <1>4, <1>5, <1>6, <1>7, <1>8, <1>9 DEF SysNext, CallStep

(* The results at hand are sequences of completions. *)
LEMMA HeadOfResults ==
    ASSUME SysAccount, results # <<>>
    PROVE  /\ Len(results) \in Nat \ {0}
           /\ 1 \in DOMAIN results
           /\ Head(results) = results[1]
           /\ CqeOf(Head(results)) \in Cqe
<1> DEFINE S == {results[i] : i \in DOMAIN results}
<1>1. results \in Seq(S)
  BY DEF SysAccount, IsSequence
<1> HIDE DEF S
<1>2. Len(results) \in Nat \ {0} /\ 1 \in DOMAIN results /\ Head(results) = results[1]
  BY <1>1
<1> QED
  BY <1>2 DEF SysAccount

LEMMA SysStepOfCq == SysAccount /\ [SysNext]_sysVars => [CqNext]_cqVars
<1> SUFFICES ASSUME SysAccount, [SysNext]_sysVars PROVE [CqNext]_cqVars
  OBVIOUS
<1>1. ASSUME NEW w \in Wants, CallSubmit(w) \/ \E n \in EnterCounts : CallEnter(n, w)
      PROVE  UNCHANGED cqVars
  BY <1>1 DEF CallSubmit, CallEnter, StartSubmit
<1>2. CASE EnqueueStep \/ SpawnBatch \/ SpawnFails \/ PushThread
  BY <1>2 DEF EnqueueStep, SpawnBatch, SpawnFails, PushThread
<1>3. CASE PostResult
  <2>1. CqeOf(Head(results)) \in Cqe /\ PostCqe(CqeOf(Head(results)))
    BY <1>3, HeadOfResults DEF PostResult
  <2> QED
    BY <2>1 DEF CqNext, CqKernel
<1>4. CASE PostStep \/ ReapThread \/ FinishCompletion \/ FinishSplit
  BY <1>4 DEF PostStep, ReapThread, FinishCompletion, FinishSplit, CqNext, CqUser, CqKernel
<1>5. CASE CallCompletion \/ CallSplit \/ CallDrop
  BY <1>5 DEF CallCompletion, CallSplit, CallDrop, StartCall
<1>6. CASE FinishSubmit \/ Unwound \/ FinishWait
  BY <1>6 DEF FinishSubmit, Unwound, FinishWait
<1>7. CASE JoinBatch \/ FlushPanics \/ SkipResult \/ JoinOnDrop \/ FreeMemory
  BY <1>7 DEF JoinBatch, FlushPanics, SkipResult, JoinOnDrop, FreeMemory
<1>8. ASSUME NEW b \in DOMAIN threads, DispatchThread(b) \/ PanickingThread(b)
      PROVE  UNCHANGED cqVars
  BY <1>8 DEF DispatchThread, PanickingThread
<1>9. CASE Gone \/ UNCHANGED sysVars
  BY <1>9 DEF Gone, sysVars
<1> QED
  BY <1>1, <1>2, <1>3, <1>4, <1>5, <1>6, <1>7, <1>8, <1>9 DEF SysNext, CallStep

LEMMA RingsKeepInv == SysInv /\ [SysNext]_sysVars => SqInv' /\ CqInv'
  BY SysStepOfSq, SysStepOfCq, SqInvStep, CqInvStep DEF SysInv

-----------------------------------------------------------------------------
(* The threads.  They only become more, keep their batches, and stay what  *)
(* they are once they have ended.                                          *)

LEMMA SysFacts ==
    ASSUME SysInv
    PROVE  /\ Len(threads) \in Nat /\ DOMAIN threads = 1 .. Len(threads)
           /\ pending \in Seq(DOMAIN threads)
           /\ Len(pending) \in Nat /\ DOMAIN pending = 1 .. Len(pending)
           /\ Len(pending) <= Len(threads)
           /\ Joined \in Nat /\ Joined + Len(pending) = Len(threads)
           /\ \A i \in 1 .. Len(pending) : pending[i] = Joined + i
<1>1. Len(threads) \in Nat /\ DOMAIN threads = 1 .. Len(threads)
  BY DEF SysInv, DispatchInv, IsSequence
<1>2. pending \in Seq(DOMAIN threads)
  BY DEF SysInv, SysTypeOK
<1>3. Len(pending) \in Nat /\ DOMAIN pending = 1 .. Len(pending)
  BY <1>2
<1>4. Len(pending) <= Len(threads) /\ \A i \in DOMAIN pending : pending[i] = Joined + i
  BY DEF SysInv, SysHandles
<1>5. Joined \in Nat /\ Joined + Len(pending) = Len(threads)
  BY <1>1, <1>3, <1>4 DEF Joined
<1> QED
  BY <1>1, <1>2, <1>3, <1>4, <1>5

LEMMA BatchIsSequence ==
    ASSUME SysInv, k_pc = "spawn"
    PROVE  batch \in Seq(Sqe) /\ IsSequence(batch)
<1>1. batch \in Seq(Sqe)
  BY DEF SysInv, SysControl
<1> QED
  BY <1>1, SeqOfElements DEF IsSequence

LEMMA ThreadsGrow ==
    ASSUME SysInv, [SysNext]_sysVars
    PROVE  /\ DispatchInv'
           /\ Len(threads') \in Nat /\ DOMAIN threads' = 1 .. Len(threads')
           /\ Len(threads) <= Len(threads')
           /\ \A b \in DOMAIN threads :
                 /\ b \in DOMAIN threads'
                 /\ threads'[b].sqes = threads[b].sqes
                 /\ Ended(threads[b]) => threads'[b] = threads[b]
                 /\ threads[b].panicked => threads'[b].panicked
<1>1. DispatchInv /\ Len(threads) \in Nat /\ DOMAIN threads = 1 .. Len(threads)
  BY SysFacts DEF SysInv
<1>2. CASE threads' = threads
  BY <1>1, <1>2 DEF DispatchInv
<1>3. CASE SpawnBatch
  <2>1. IsSequence(batch) /\ Spawn(batch)
    BY <1>3, BatchIsSequence DEF SpawnBatch, HandOver
  <2>2. /\ DispatchInv'
        /\ Len(threads') = Len(threads) + 1
        /\ \A b \in DOMAIN threads : threads'[b] = threads[b]
        /\ threads'[Len(threads) + 1] = NewThread(batch)
    BY <1>1, <2>1, SpawnKeeps
  <2>3. DOMAIN threads' = 1 .. Len(threads')
    BY <2>2 DEF DispatchInv, IsSequence
  <2> QED
    BY <1>1, <2>2, <2>3
<1>4. ASSUME NEW b \in DOMAIN threads, DispatchThread(b) \/ PanickingThread(b)
      PROVE  /\ DispatchInv'
             /\ Len(threads') = Len(threads) /\ DOMAIN threads' = DOMAIN threads
             /\ \A c \in DOMAIN threads : threads'[c].sqes = threads[c].sqes
             /\ \A c \in DOMAIN threads :
                   Ended(threads[c]) \/ c # b => threads'[c] = threads[c]
             /\ threads[b].panicked => threads'[b].panicked
  <2>1. DispatchStep(b) \/ ThreadPanics(b)
    BY <1>4 DEF DispatchThread, PanickingThread
  <2> QED
    BY <1>1, <2>1, StepKeeps
<1>5. ASSUME NEW b \in DOMAIN threads, DispatchThread(b) \/ PanickingThread(b)
      PROVE  \A c \in DOMAIN threads : threads[c].panicked => threads'[c].panicked
  BY <1>4, <1>5
<1>6. CASE \E b \in DOMAIN threads : DispatchThread(b) \/ PanickingThread(b)
  BY <1>1, <1>4, <1>5, <1>6
<1>7. QuietStep => threads' = threads
  BY DEF QuietStep
<1>8. BusyStep => \/ threads' = threads \/ SpawnBatch
                  \/ \E b \in DOMAIN threads : DispatchThread(b) \/ PanickingThread(b)
  BY DEF BusyStep, SpawnFails, JoinBatch, FlushPanics, SkipResult, PostResult, JoinOnDrop,
         FreeMemory
<1> QED
  BY <1>2, <1>3, <1>6, <1>7, <1>8, QuietOrBusy

(* No thread touches what its batch does not name. *)
LEMMA TouchedInBatch ==
    ASSUME NEW t, ThreadInv(t)
    PROVE  t.touched \subseteq DOMAIN t.sqes
<1> DEFINE n == Len(t.results)
           reached == IF t.panicked THEN n + 1 ELSE n
<1>1. /\ Len(t.sqes) \in Nat /\ DOMAIN t.sqes = 1 .. Len(t.sqes)
      /\ n \in 0 .. Len(t.sqes) /\ ThreadAt(t, n)
  BY ThreadProgress
<1>2. /\ t.touched = {i \in 1 .. reached : ~Cancelled(t.sqes, i)}
      /\ t.panicked => n < Len(t.sqes)
  BY <1>1 DEF ThreadAt
<1>3. reached \in Nat /\ reached <= Len(t.sqes)
  BY <1>1, <1>2
<1> HIDE DEF reached
<1> QED
  BY <1>1, <1>2, <1>3

-----------------------------------------------------------------------------
(* Types *)

LEMMA ThreadTypes ==
    ASSUME SysInv, [SysNext]_sysVars
    PROVE  \A b \in DOMAIN threads' :
              /\ threads'[b].sqes \in Seq(Sqe)
              /\ threads'[b].touched \subseteq DOMAIN threads'[b].sqes
<1> TAKE b \in DOMAIN threads'
<1>1. ThreadInv(threads'[b])
  BY ThreadsGrow DEF DispatchInv
<1>2. threads'[b].touched \subseteq DOMAIN threads'[b].sqes
  BY <1>1, TouchedInBatch
<1>3. CASE b \in DOMAIN threads
  <2>1. threads'[b].sqes = threads[b].sqes
    BY <1>3, ThreadsGrow
  <2>2. threads[b].sqes \in Seq(Sqe)
    BY <1>3 DEF SysInv, SysTypeOK
  <2> QED
    BY <1>2, <2>1, <2>2
<1>4. CASE b \notin DOMAIN threads
  <2>1. SpawnBatch
    <3>1. QuietStep => threads' = threads
      BY DEF QuietStep
    <3>2. ASSUME NEW c \in DOMAIN threads, DispatchThread(c) \/ PanickingThread(c)
          PROVE  DOMAIN threads' = DOMAIN threads
      BY <3>2 DEF DispatchThread, PanickingThread, DispatchStep, ThreadPanics
    <3>3. BusyStep => SpawnBatch \/ DOMAIN threads' = DOMAIN threads
      BY <3>2 DEF BusyStep, SpawnFails, JoinBatch, FlushPanics, SkipResult, PostResult,
                  JoinOnDrop, FreeMemory
    <3> QED
      BY <1>4, <3>1, <3>3, QuietOrBusy
  <2>2. batch \in Seq(Sqe) /\ IsSequence(batch) /\ Spawn(batch) /\ DispatchInv
    BY <2>1, BatchIsSequence DEF SpawnBatch, HandOver, SysInv
  <2>3. /\ DispatchInv'
        /\ Len(threads') = Len(threads) + 1
        /\ \A c \in DOMAIN threads : threads'[c] = threads[c]
        /\ threads'[Len(threads) + 1] = NewThread(batch)
    BY <2>2, SpawnKeeps
  <2>4. b = Len(threads) + 1
    BY <1>4, <2>3, SysFacts, ThreadsGrow
  <2>5. NewThread(batch).sqes = batch
    BY DEF NewThread
  <2> QED
    BY <1>2, <2>2, <2>3, <2>4, <2>5
<1> QED
  BY <1>3, <1>4

LEMMA PendingType ==
    ASSUME SysInv, [SysNext]_sysVars
    PROVE  pending' \in Seq(DOMAIN threads') /\ detached' \subseteq DOMAIN threads'
<1> DEFINE D == DOMAIN threads
           E == DOMAIN threads'
<1>1. pending \in Seq(D) /\ detached \subseteq D
  BY DEF SysInv, SysTypeOK
<1>2. D \subseteq E
  BY ThreadsGrow
<1> HIDE DEF D, E
<1>3. pending \in Seq(E) /\ detached \subseteq E
  BY <1>1, <1>2, SeqMonotonic
<1>4. CASE UNCHANGED <<pending, detached>>
  BY <1>3, <1>4 DEF E
<1>5. CASE SpawnBatch
  <2>1. pending' = Append(pending, Len(threads) + 1) /\ detached' = detached
    BY <1>5 DEF SpawnBatch, WithHandle, faultVars
  <2>2. Len(threads) + 1 \in E
    <3>1. IsSequence(batch) /\ Spawn(batch) /\ DispatchInv
      BY <1>5, BatchIsSequence DEF SpawnBatch, HandOver, SysInv
    <3>2. Len(threads') = Len(threads) + 1
      BY <3>1, SpawnKeeps
    <3> QED
      BY <3>2, SysFacts, ThreadsGrow DEF E
  <2> QED
    BY <1>3, <2>1, <2>2, AppendProperties DEF E
<1>6. CASE JoinBatch \/ JoinOnDrop
  <2>1. pending # <<>> /\ pending' = Tail(pending) /\ detached' = detached
    BY <1>6 DEF JoinBatch, JoinOnDrop, faultVars
  <2>2. Tail(pending) \in Seq(E)
    BY <1>3, <2>1, HeadTailProperties
  <2> QED
    BY <1>3, <2>1, <2>2 DEF E
<1>7. CASE FlushPanics
  <2>1. /\ pending' = <<>>
        /\ detached' = detached \cup {pending[i] : i \in 2 .. Len(pending)}
    BY <1>7 DEF FlushPanics
  <2>2. \A i \in 2 .. Len(pending) : pending[i] \in E
    <3> TAKE i \in 2 .. Len(pending)
    <3>1. i \in 1 .. Len(pending)
      BY SysFacts
    <3> QED
      BY <1>3, <3>1, ElementOfSeq
  <2> QED
    BY <1>3, <2>1, <2>2 DEF E
<1>8. QuietStep => UNCHANGED <<pending, detached>>
  BY DEF QuietStep, faultVars
<1>9. BusyStep => \/ UNCHANGED <<pending, detached>>
                  \/ SpawnBatch \/ JoinBatch \/ JoinOnDrop \/ FlushPanics
  BY DEF BusyStep, SpawnFails, SkipResult, PostResult, FreeMemory, DispatchThread,
         PanickingThread, callVars, faultVars
<1> QED
  BY <1>4, <1>5, <1>6, <1>7, <1>8, <1>9, QuietOrBusy DEF E

LEMMA CallTypes ==
    ASSUME SysInv, [SysNext]_sysVars
    PROVE  op' \in Calls /\ want' \in Wants \cup {0} /\ freed' \in BOOLEAN
<1>1. op \in Calls /\ want \in Wants \cup {0} /\ freed \in BOOLEAN
  BY DEF SysInv, SysTypeOK
<1>2. CASE UNCHANGED <<op, want, freed>>
  BY <1>1, <1>2
<1>3. ASSUME NEW w \in Wants, CallSubmit(w) \/ \E n \in EnterCounts : CallEnter(n, w)
      PROVE  op' \in Calls /\ want' \in Wants \cup {0} /\ freed' \in BOOLEAN
  BY <1>1, <1>3 DEF CallSubmit, CallEnter, StartSubmit, Calls
<1>4. CASE CallCompletion \/ CallSplit \/ CallDrop
  BY <1>1, <1>4 DEF CallCompletion, CallSplit, CallDrop, StartCall, Calls
<1>5. CASE FinishSubmit \/ Unwound \/ FinishWait \/ FinishCompletion \/ FinishSplit
  BY <1>1, <1>5 DEF FinishSubmit, Unwound, FinishWait, FinishCompletion, FinishSplit, Calls
<1>6. CASE SpawnFails \/ FlushPanics \/ FreeMemory
  BY <1>1, <1>6 DEF SpawnFails, FlushPanics, FreeMemory, Calls
<1>7. CASE EnqueueStep \/ PostStep \/ PushThread \/ ReapThread
  BY <1>2, <1>7 DEF EnqueueStep, PostStep, PushThread, ReapThread, callVars
<1>8. CASE SpawnBatch \/ JoinBatch \/ SkipResult \/ PostResult \/ JoinOnDrop
  BY <1>2, <1>8 DEF SpawnBatch, JoinBatch, SkipResult, PostResult, JoinOnDrop
<1>9. CASE Gone \/ UNCHANGED sysVars
  BY <1>2, <1>9 DEF Gone, sysVars, callVars
<1>10. ASSUME NEW b \in DOMAIN threads, DispatchThread(b) \/ PanickingThread(b)
       PROVE  UNCHANGED <<op, want, freed>>
  BY <1>10 DEF DispatchThread, PanickingThread, callVars
<1> QED
  BY <1>2, <1>3, <1>4, <1>5, <1>6, <1>7, <1>8, <1>9, <1>10 DEF SysNext, CallStep

LEMMA HistoryTypes ==
    ASSUME SysInv, [SysNext]_sysVars
    PROVE  /\ resolved' \in Seq(Cqe)
           /\ lost' \in Seq([after : 0 .. Len(threads'), sqes : Seq(Sqe)])
<1> DEFINE R == [after : 0 .. Len(threads), sqes : Seq(Sqe)]
           Q == [after : 0 .. Len(threads'), sqes : Seq(Sqe)]
<1>1. resolved \in Seq(Cqe) /\ lost \in Seq(R)
  BY DEF SysInv, SysTypeOK
<1>2. R \subseteq Q
  <2>1. Len(threads) \in Nat /\ Len(threads') \in Nat /\ Len(threads) <= Len(threads')
    BY SysFacts, ThreadsGrow
  <2> QED
    BY <2>1
<1>3. Len(threads) \in 0 .. Len(threads')
  BY SysFacts, ThreadsGrow
<1> HIDE DEF R
<1>4. lost \in Seq(Q)
  <2> HIDE DEF Q
  <2> QED BY <1>1, <1>2, SeqMonotonic
<1>5. CASE UNCHANGED <<resolved, lost>>
  BY <1>1, <1>4, <1>5
<1>6. CASE SpawnFails
  <2>1. batch \in Seq(Sqe)
    BY <1>6, BatchIsSequence DEF SpawnFails, HandOver
  <2>2. [after |-> Len(threads), sqes |-> batch] \in Q
    BY <1>3, <2>1
  <2>3. lost' = Append(lost, [after |-> Len(threads), sqes |-> batch]) /\ resolved' = resolved
    BY <1>6 DEF SpawnFails
  <2> HIDE DEF Q
  <2>4. lost' \in Seq(Q)
    BY <1>4, <2>2, <2>3, AppendProperties
  <2> QED
    BY <1>1, <2>3, <2>4 DEF Q
<1>7. CASE PostResult
  <2>1. results # <<>> /\ resolved' = Append(resolved, CqeOf(Head(results))) /\ lost' = lost
    BY <1>7 DEF PostResult, faultVars
  <2>2. CqeOf(Head(results)) \in Cqe
    BY <2>1, HeadOfResults DEF SysInv
  <2>3. resolved' \in Seq(Cqe)
    BY <1>1, <2>1, <2>2, AppendProperties
  <2> QED
    BY <1>4, <2>1, <2>3
<1>8. QuietStep => UNCHANGED <<resolved, lost>>
  BY DEF QuietStep, faultVars
<1>9. BusyStep => UNCHANGED <<resolved, lost>> \/ SpawnFails \/ PostResult
  BY DEF BusyStep, SpawnBatch, JoinBatch, FlushPanics, SkipResult, JoinOnDrop, FreeMemory,
         DispatchThread, PanickingThread, callVars, faultVars
<1> QED
  BY <1>5, <1>6, <1>7, <1>8, <1>9, QuietOrBusy

LEMMA TypesKept == SysInv /\ [SysNext]_sysVars => SysTypeOK'
<1> SUFFICES ASSUME SysInv, [SysNext]_sysVars PROVE SysTypeOK'
  OBVIOUS
<1>1. SqTypeOK' /\ CqTypeOK'
  BY RingsKeepInv DEF SqInv, CqInv
<1> QED
  BY <1>1, ThreadTypes, PendingType, CallTypes, HistoryTypes DEF SysTypeOK

-----------------------------------------------------------------------------
(* Control *)

(* The batch enqueue_sqes has copied consists of SQEs the user pushed. *)
LEMMA CopiedBatch ==
    ASSUME SqInv, k_pc = "read"
    PROVE  batch \in Seq(Sqe)
<1>1. /\ pushed \in Seq(Sqe) /\ Len(taken) \in Nat /\ SqUsed \in 0 .. SqEntries
      /\ Len(taken) + SqUsed <= Len(pushed)
      /\ SqPublished = Window(pushed, Len(taken), SqUsed)
      /\ taken = Window(pushed, 0, Len(taken))
  BY SqMapping
<1>2. /\ batch \in Seq(Sqe \cup {Zeroed}) /\ to_process \in Nat
      /\ Len(batch) <= to_process /\ to_process <= SqUsed
      /\ \A i \in 1 .. Len(batch) : batch[i] = pushed[Len(taken) + i]
  BY SqConstants DEF SqInv, SqTypeOK, SqReading, SqCopied, SqUsed
<1>3. Len(batch) \in Nat /\ batch \in [1 .. Len(batch) -> Sqe \cup {Zeroed}] /\ SqUsed \in Nat
  BY <1>1, <1>2, SqConstants
<1>4. \A i \in 1 .. Len(batch) : batch[i] \in Sqe
  <2> TAKE i \in 1 .. Len(batch)
  <2>1. Len(taken) + i \in 1 .. Len(pushed)
    <3>1. Len(pushed) \in Nat
      BY <1>1
    <3> QED
      BY <1>1, <1>2, <1>3, <3>1
  <2>2. pushed[Len(taken) + i] \in Sqe
    BY <1>1, <2>1, ElementOfSeq
  <2> QED
    BY <1>2, <2>2
<1>5. batch \in [1 .. Len(batch) -> Sqe]
  BY <1>3, <1>4
<1> QED
  BY <1>3, <1>5, FcnIsSeq

LEMMA ControlKept == SysInv /\ [SysNext]_sysVars => SysControl'
<1> SUFFICES ASSUME SysInv, [SysNext]_sysVars PROVE SysControl'
  OBVIOUS
<1>1. /\ k_pc # "idle" => op \in {"submit", "wait"}
      /\ p_pc # "idle" \/ results # <<>> =>
            op \in {"wait", "completion", "split"} /\ k_pc = "idle"
      /\ freed => op = "none" /\ pending = <<>>
      /\ k_pc = "spawn" => batch \in Seq(Sqe)
  BY DEF SysInv, SysControl, Flushing
<1> DEFINE Kernel == UNCHANGED <<k_pc, batch>>
<1>2. UNCHANGED sqVars => Kernel
  BY DEF sqVars, kernelVars
<1>3. UNCHANGED cqVars => p_pc' = p_pc
  BY DEF cqVars, posterVars
<1>4. CASE UNCHANGED <<k_pc, batch, p_pc, results, op, freed, pending>>
  BY <1>1, <1>4 DEF SysControl, Flushing
<1>5. ASSUME NEW w \in Wants, CallSubmit(w) \/ \E n \in EnterCounts : CallEnter(n, w)
      PROVE  SysControl'
  <2>1. /\ op = "none" /\ ~freed /\ op' \in {"submit", "wait"} /\ k_pc' = "load"
        /\ UNCHANGED <<cqVars, results, freed>>
    BY <1>5 DEF CallSubmit, CallEnter, StartSubmit, Submit, Enter, StartEnqueue
  <2> QED
    BY <1>1, <1>3, <2>1 DEF SysControl, Flushing
<1>6. CASE EnqueueStep
  <2>1. /\ k_pc # "idle" /\ UNCHANGED <<cqVars, results, op, freed, pending>>
        /\ k_pc' = "spawn" => k_pc = "read" /\ batch' = batch
    BY <1>6 DEF EnqueueStep, LoadIndices, ReadSqe, StoreHead, callVars
  <2>2. k_pc' = "spawn" => batch' \in Seq(Sqe)
    BY <2>1, CopiedBatch DEF SysInv
  <2> QED
    BY <1>1, <1>3, <2>1, <2>2 DEF SysControl, Flushing
<1>7. CASE SpawnBatch \/ SpawnFails
  <2>1. k_pc = "spawn" /\ k_pc' = "idle" /\ UNCHANGED <<cqVars, results, freed>>
    BY <1>7 DEF SpawnBatch, SpawnFails, HandOver
  <2> QED
    BY <1>1, <1>3, <2>1 DEF SysControl, Flushing
<1>8. CASE FinishSubmit \/ Unwound
  <2>1. /\ op \in {"submit", "unwind"} /\ op' = "none" /\ (op = "submit" => k_pc = "idle")
        /\ UNCHANGED <<sqVars, cqVars, results, freed>>
    BY <1>8 DEF FinishSubmit, Unwound
  <2> QED
    BY <1>1, <1>2, <1>3, <2>1 DEF SysControl, Flushing
<1>9. CASE CallCompletion \/ CallSplit \/ CallDrop
  <2>1. op = "none" /\ ~freed /\ UNCHANGED <<sqVars, cqVars, results, freed>>
    BY <1>9 DEF CallCompletion, CallSplit, CallDrop, StartCall
  <2> QED
    BY <1>1, <1>2, <1>3, <2>1 DEF SysControl, Flushing
<1>10. CASE JoinBatch \/ SkipResult
  <2>1. AtFlushLoop /\ UNCHANGED <<sqVars, cqVars, op, freed>>
    BY <1>10 DEF JoinBatch, SkipResult
  <2> QED
    BY <1>1, <1>2, <1>3, <2>1 DEF SysControl, AtFlushLoop, Flushing
<1>11. CASE PostResult
  <2>1. AtFlushLoop /\ UNCHANGED <<sqVars, op, freed>>
    BY <1>11 DEF PostResult
  <2> QED
    BY <1>1, <1>2, <2>1 DEF SysControl, AtFlushLoop, Flushing
<1>12. CASE PostStep
  <2>1. p_pc # "idle" /\ UNCHANGED <<sqVars, results, op, freed, pending>>
    BY <1>12 DEF PostStep, CqPostStep, LoadCq, CountOverflow, SetOverflowFlag, WriteCqe,
                 StoreTail, callVars
  <2> QED
    BY <1>1, <1>2, <2>1 DEF SysControl, Flushing
<1>13. CASE FlushPanics
  <2>1. AtFlushLoop /\ results = <<>> /\ UNCHANGED <<sqVars, cqVars, results, freed>>
    BY <1>13 DEF FlushPanics
  <2> QED
    BY <1>1, <1>2, <1>3, <2>1 DEF SysControl, AtFlushLoop, Flushing
<1>14. CASE FinishWait
  <2>1. FlushDone /\ op' = "none" /\ UNCHANGED <<sqVars, cqVars, pending, results, freed>>
    BY <1>14 DEF FinishWait
  <2> QED
    BY <1>1, <1>2, <1>3, <2>1 DEF SysControl, FlushDone, AtFlushLoop, Flushing
<1>15. CASE FinishCompletion \/ FinishSplit
  <2>1. /\ FlushDone /\ op' = "none"
        /\ UNCHANGED <<k_pc, batch, p_pc, pending, results, freed>>
    BY <1>2, <1>15 DEF FinishCompletion, FinishSplit, SqBorrow, CqBorrow, kernelVars, posterVars
  <2> QED
    BY <1>1, <2>1 DEF SysControl, FlushDone, AtFlushLoop, Flushing
<1>16. CASE JoinOnDrop \/ FreeMemory
  <2>1. op = "drop" /\ (freed' => (op' = "none" /\ pending' = <<>>) \/ freed)
        /\ UNCHANGED <<sqVars, cqVars, results>>
    BY <1>16 DEF JoinOnDrop, FreeMemory
  <2> QED
    BY <1>1, <1>2, <1>3, <2>1 DEF SysControl, Flushing
<1>17. CASE PushThread
  <2>1. UNCHANGED <<k_pc, batch>>
    BY <1>17 DEF PushThread, SqBorrow, SqHandle, Push, PushMultiple, StartPush, PushUnchecked,
                 SqSyncStore, SqSyncLoad, SqDrop, kernelVars
  <2>2. UNCHANGED <<cqVars, results, op, freed, pending>>
    BY <1>17 DEF PushThread, callVars
  <2> QED
    BY <1>3, <1>4, <2>1, <2>2
<1>18. CASE ReapThread
  <2>1. p_pc' = p_pc
    BY <1>18 DEF ReapThread, CqHandle, NextCqe, Fill, StartPop, Pop, CqSyncStore, CqSyncLoad,
                 CqDrop, posterVars
  <2>2. UNCHANGED <<sqVars, results, op, freed, pending>>
    BY <1>18 DEF ReapThread, callVars
  <2> QED
    BY <1>2, <1>4, <2>1, <2>2
<1>19. ASSUME NEW b \in DOMAIN threads, DispatchThread(b) \/ PanickingThread(b)
       PROVE  SysControl'
  <2>1. UNCHANGED <<sqVars, cqVars, results, op, freed, pending>>
    BY <1>19 DEF DispatchThread, PanickingThread, callVars
  <2> QED
    BY <1>2, <1>3, <1>4, <2>1
<1>20. CASE Gone \/ UNCHANGED sysVars
  <2>1. UNCHANGED <<sqVars, cqVars, results, op, freed, pending>>
    BY <1>20 DEF Gone, sysVars, callVars
  <2> QED
    BY <1>2, <1>3, <1>4, <2>1
<1> QED
  BY <1>5, <1>6, <1>7, <1>8, <1>9, <1>10, <1>11, <1>12, <1>13, <1>14, <1>15, <1>16, <1>17,
     <1>18, <1>19, <1>20 DEF SysNext, CallStep

-----------------------------------------------------------------------------
(* The list of handles *)

(* The handle at the front is that of the first thread not yet joined. *)
LEMMA FrontHandle ==
    ASSUME SysInv, pending # <<>>
    PROVE  /\ Len(pending) \in Nat \ {0}
           /\ Head(pending) = Joined + 1 /\ Joined + 1 \in DOMAIN threads
           /\ Tail(pending) \in Seq(DOMAIN threads)
           /\ Len(Tail(pending)) = Len(pending) - 1
           /\ \A i \in 1 .. Len(pending) - 1 : Tail(pending)[i] = Joined + 1 + i
<1>1. pending \in Seq(DOMAIN threads) /\ Len(pending) \in Nat
  BY SysFacts
<1>2. Len(pending) # 0
  BY <1>1
<1>3. /\ Head(pending) = pending[1] /\ Tail(pending) \in Seq(DOMAIN threads)
      /\ Len(Tail(pending)) = Len(pending) - 1
      /\ \A i \in 1 .. Len(pending) - 1 : Tail(pending)[i] = pending[i + 1]
  BY <1>1, <1>2
<1>4. pending[1] = Joined + 1 /\ Joined + 1 \in DOMAIN threads
  BY <1>1, <1>2, SysFacts
<1>5. \A i \in 1 .. Len(pending) - 1 : Tail(pending)[i] = Joined + 1 + i
  <2> TAKE i \in 1 .. Len(pending) - 1
  <2>1. i + 1 \in 1 .. Len(pending)
    BY <1>1
  <2>2. pending[i + 1] = Joined + (i + 1)
    BY <2>1, SysFacts
  <2>3. Joined + (i + 1) = Joined + 1 + i
    BY SysFacts
  <2> QED
    BY <1>3, <2>2, <2>3
<1> QED
  BY <1>1, <1>2, <1>3, <1>4, <1>5

(* Steps that leave the handles alone. *)
LEMMA HandlesUntouched ==
    ASSUME SysInv, [SysNext]_sysVars, UNCHANGED <<pending, detached>>,
           Len(threads') = Len(threads)
    PROVE  SysHandles'
<1>1. Joined' = Joined /\ SysHandles
  BY DEF Joined, SysInv
<1>2. \A b \in 1 .. Joined : b \in DOMAIN threads
  BY SysFacts
<1>3. \A b \in 1 .. Joined : Ended(threads'[b]) \/ b \in detached
  <2> TAKE b \in 1 .. Joined
  <2>1. b \in DOMAIN threads /\ (Ended(threads[b]) \/ b \in detached)
    BY <1>1, <1>2 DEF SysHandles
  <2> QED
    BY <2>1, ThreadsGrow
<1>4. \A b \in detached : b <= Joined /\ \E c \in 1 .. b - 1 : threads'[c].panicked
  <2> TAKE b \in detached
  <2>1. b <= Joined /\ b \in DOMAIN threads
    BY <1>1 DEF SysHandles, SysInv, SysTypeOK
  <2>2. PICK c \in 1 .. b - 1 : threads[c].panicked
    BY <1>1 DEF SysHandles
  <2>3. c \in DOMAIN threads
    BY <2>1, SysFacts
  <2> QED
    BY <2>1, <2>2, <2>3, ThreadsGrow
<1> QED
  BY <1>1, <1>3, <1>4 DEF SysHandles

(* Joining the thread at the front, whose end join has waited for. *)
LEMMA HandlesJoined ==
    ASSUME SysInv, [SysNext]_sysVars, pending # <<>>, Ended(threads[Head(pending)]),
           pending' = Tail(pending), UNCHANGED <<threads, detached>>
    PROVE  SysHandles' /\ Joined' = Joined + 1
<1> DEFINE f == Joined
<1>1. /\ Len(pending) \in Nat \ {0}
      /\ Head(pending) = f + 1 /\ f + 1 \in DOMAIN threads
      /\ Tail(pending) \in Seq(DOMAIN threads)
      /\ Len(Tail(pending)) = Len(pending) - 1
      /\ \A i \in 1 .. Len(pending) - 1 : Tail(pending)[i] = f + 1 + i
  BY FrontHandle
<1>2. Len(threads) \in Nat /\ f \in Nat /\ Len(pending) <= Len(threads)
  BY SysFacts
<1>3. Joined' = f + 1
  BY <1>1, <1>2 DEF Joined
<1>4. DOMAIN Tail(pending) = 1 .. Len(pending) - 1
  BY <1>1
<1>5. \A b \in 1 .. f + 1 : Ended(threads[b]) \/ b \in detached
  <2> TAKE b \in 1 .. f + 1
  <2>1. CASE b = f + 1
    BY <1>1, <2>1
  <2>2. CASE b # f + 1
    BY <1>2, <2>2 DEF SysInv, SysHandles
  <2> QED
    BY <2>1, <2>2
<1>6. \A b \in detached : b <= f + 1 /\ \E c \in 1 .. b - 1 : threads[c].panicked
  <2> TAKE b \in detached
  <2>1. b <= f /\ \E c \in 1 .. b - 1 : threads[c].panicked
    BY DEF SysInv, SysHandles
  <2>2. b \in Nat
    BY SysFacts DEF SysInv, SysTypeOK
  <2> QED
    BY <1>2, <2>1, <2>2
<1> HIDE DEF f
<1>7. SysHandles'
  <2>1. Len(pending') <= Len(threads')
    BY <1>1, <1>2
  <2>2. \A i \in DOMAIN pending' : pending'[i] = f + 1 + i
    BY <1>1, <1>4
  <2> QED
    BY <1>3, <1>5, <1>6, <2>1, <2>2 DEF SysHandles
<1> QED
  BY <1>3, <1>7 DEF f

LEMMA HandlesSpawned ==
    ASSUME SysInv, [SysNext]_sysVars, SpawnBatch
    PROVE  SysHandles' /\ Joined' = Joined /\ Len(threads') = Len(threads) + 1
<1> DEFINE L == Len(threads)
           P == Len(pending)
           f == Joined
<1>1. IsSequence(batch) /\ Spawn(batch) /\ DispatchInv
  BY BatchIsSequence DEF SpawnBatch, HandOver, SysInv
<1>2. Len(threads') = L + 1 /\ \A b \in DOMAIN threads : threads'[b] = threads[b]
  BY <1>1, SpawnKeeps
<1>3. /\ L \in Nat /\ P \in Nat /\ f \in Nat /\ f + P = L /\ DOMAIN threads = 1 .. L
      /\ pending \in Seq(DOMAIN threads)
      /\ \A i \in 1 .. P : pending[i] = f + i
  BY SysFacts
<1>4. pending' = Append(pending, L + 1) /\ detached' = detached
  BY DEF SpawnBatch, WithHandle, faultVars
<1>5. /\ Len(pending') = P + 1 /\ DOMAIN pending' = 1 .. P + 1
      /\ \A i \in 1 .. P : pending'[i] = pending[i]
      /\ pending'[P + 1] = L + 1
  BY <1>3, <1>4, AppendAny
<1>6. Joined' = f
  <2>1. Joined' = (L + 1) - (P + 1)
    BY <1>2, <1>5 DEF Joined
  <2> QED
    BY <1>3, <2>1
<1>7. \A i \in DOMAIN pending' : pending'[i] = f + i
  <2> HIDE DEF L, P, f
  <2> QED BY <1>3, <1>5
<1>8. \A b \in 1 .. f : Ended(threads'[b]) \/ b \in detached
  <2>1. \A b \in 1 .. f : Ended(threads[b]) \/ b \in detached
    BY DEF SysInv, SysHandles
  <2>2. \A b \in 1 .. f : threads'[b] = threads[b]
    <3> HIDE DEF L, f
    <3> QED BY <1>2, <1>3
  <2> QED
    BY <2>1, <2>2
<1>9. \A b \in detached : b <= f /\ \E c \in 1 .. b - 1 : threads'[c].panicked
  <2> TAKE b \in detached
  <2>1. b <= f /\ b \in DOMAIN threads
    BY DEF SysHandles, SysInv, SysTypeOK
  <2>2. PICK c \in 1 .. b - 1 : threads[c].panicked
    BY DEF SysInv, SysHandles
  <2>3. c \in DOMAIN threads
    BY <1>3, <2>1
  <2> QED
    BY <1>2, <2>1, <2>2, <2>3
<1> HIDE DEF L, P, f
<1>10. Len(pending') <= Len(threads')
  BY <1>2, <1>3, <1>5
<1>11. SysHandles'
  BY <1>4, <1>6, <1>7, <1>8, <1>9, <1>10 DEF SysHandles
<1> QED
  BY <1>2, <1>6, <1>11 DEF L, f

(* A panic lets go of all of them. *)
LEMMA HandlesPanicked ==
    ASSUME SysInv, [SysNext]_sysVars, FlushPanics
    PROVE  /\ SysHandles'
           /\ Joined' = Len(threads)
           /\ threads[Joined + 1].panicked
           /\ \A b \in Joined + 2 .. Len(threads) : b \in detached'
           /\ \A b \in 1 .. Joined : b \in detached' <=> b \in detached
<1> DEFINE L == Len(threads)
           P == Len(pending)
           f == Joined
<1>1. /\ pending # <<>> /\ threads[Head(pending)].panicked /\ pending' = <<>>
      /\ detached' = detached \cup {pending[i] : i \in 2 .. P}
      /\ threads' = threads
  BY DEF FlushPanics
<1>2. P \in Nat \ {0} /\ Head(pending) = f + 1 /\ f + 1 \in DOMAIN threads
  BY <1>1, FrontHandle
<1>3. /\ L \in Nat /\ f \in Nat /\ f + P = L /\ DOMAIN threads = 1 .. L
      /\ \A i \in 1 .. P : pending[i] = f + i
  BY SysFacts
<1>4. /\ \A b \in 1 .. f : Ended(threads[b]) \/ b \in detached
      /\ \A b \in detached : b <= f /\ \E c \in 1 .. b - 1 : threads[c].panicked
      /\ detached \subseteq DOMAIN threads
  BY DEF SysInv, SysHandles, SysTypeOK
<1>5. threads[f + 1].panicked /\ Ended(threads[f + 1])
  BY <1>1, <1>2 DEF Ended
<1>6. Joined' = L
  BY <1>1, <1>3 DEF Joined
<1> HIDE DEF L, P, f
<1>7. {pending[i] : i \in 2 .. P} = f + 2 .. L
  <2>1. \A i \in 2 .. P : pending[i] = f + i
    BY <1>2, <1>3
  <2>2. \A b \in f + 2 .. L : b - f \in 2 .. P /\ pending[b - f] = b
    BY <1>2, <1>3, <2>1
  <2> QED
    BY <1>2, <1>3, <2>1, <2>2
<1>8. \A b \in 1 .. L : Ended(threads[b]) \/ b \in detached'
  <2> TAKE b \in 1 .. L
  <2>1. CASE b <= f
    <3>1. b \in 1 .. f
      BY <1>3, <2>1
    <3>2. Ended(threads[b]) \/ b \in detached
      BY <1>4, <3>1
    <3> QED
      BY <1>1, <3>2
  <2>2. CASE b = f + 1
    BY <1>5, <2>2
  <2>3. CASE b > f + 1
    <3>1. b \in f + 2 .. L
      BY <1>3, <2>3
    <3> QED
      BY <1>1, <1>7, <3>1
  <2> QED
    BY <1>3, <2>1, <2>2, <2>3
<1>9. \A b \in detached' : b <= L /\ \E c \in 1 .. b - 1 : threads[c].panicked
  <2> TAKE b \in detached'
  <2>1. CASE b \in detached
    BY <1>3, <1>4, <2>1
  <2>2. CASE b \in f + 2 .. L
    <3>1. f + 1 \in 1 .. b - 1 /\ b <= L
      BY <1>3, <2>2
    <3> QED
      BY <1>5, <3>1
  <2> QED
    BY <1>1, <1>7, <2>1, <2>2
<1>10. SysHandles'
  BY <1>1, <1>3, <1>6, <1>8, <1>9 DEF SysHandles, L
<1>11. \A b \in 1 .. f : b \in detached' <=> b \in detached
  BY <1>1, <1>3, <1>7
<1>12. \A b \in f + 2 .. L : b \in detached'
  BY <1>1, <1>7
<1> QED
  BY <1>5, <1>6, <1>10, <1>11, <1>12 DEF L, f

(* The number of threads changes with a spawn only. *)
LEMMA ThreadsCounted ==
    ASSUME SysInv, [SysNext]_sysVars, ~SpawnBatch
    PROVE  Len(threads') = Len(threads)
<1>1. ASSUME NEW b \in DOMAIN threads, DispatchThread(b) \/ PanickingThread(b)
      PROVE  Len(threads') = Len(threads)
  <2>1. DispatchInv /\ (DispatchStep(b) \/ ThreadPanics(b))
    BY <1>1 DEF DispatchThread, PanickingThread, SysInv
  <2> QED
    BY <2>1, StepKeeps
<1>2. QuietStep => threads' = threads
  BY DEF QuietStep
<1>3. BusyStep => \/ threads' = threads
                  \/ \E b \in DOMAIN threads : DispatchThread(b) \/ PanickingThread(b)
  BY DEF BusyStep, SpawnFails, JoinBatch, FlushPanics, SkipResult, PostResult, JoinOnDrop,
         FreeMemory
<1> QED
  BY <1>1, <1>2, <1>3, QuietOrBusy

LEMMA HandlesKept == SysInv /\ [SysNext]_sysVars => SysHandles'
<1> SUFFICES ASSUME SysInv, [SysNext]_sysVars PROVE SysHandles'
  OBVIOUS
<1>1. CASE SpawnBatch
  BY <1>1, HandlesSpawned
<1>2. CASE JoinBatch \/ JoinOnDrop
  <2>1. /\ pending # <<>> /\ Ended(threads[Head(pending)]) /\ pending' = Tail(pending)
        /\ UNCHANGED <<threads, detached>>
    BY <1>2 DEF JoinBatch, JoinOnDrop, Ended, faultVars
  <2> QED
    BY <2>1, HandlesJoined
<1>3. CASE FlushPanics
  BY <1>3, HandlesPanicked
<1>4. ASSUME ~SpawnBatch, UNCHANGED <<pending, detached>> PROVE SysHandles'
  BY <1>4, ThreadsCounted, HandlesUntouched
<1>5. QuietStep => UNCHANGED <<pending, detached>>
  BY DEF QuietStep, faultVars
<1>6. BusyStep => \/ UNCHANGED <<pending, detached>>
                  \/ SpawnBatch \/ JoinBatch \/ JoinOnDrop \/ FlushPanics
  BY DEF BusyStep, SpawnFails, SkipResult, PostResult, FreeMemory, DispatchThread,
         PanickingThread, callVars, faultVars
<1> QED
  BY <1>1, <1>2, <1>3, <1>4, <1>5, <1>6, QuietOrBusy

-----------------------------------------------------------------------------
(* Completions: what a batch owes is what flush_pending posts of the       *)
(* results its thread ends with.                                           *)

LEMMA ChainCqe ==
    ASSUME NEW b, b \in Seq(Sqe), NEW i \in 1 .. Len(b)
    PROVE  [user_data |-> b[i].user_data, res |-> ChainResult(b, i)] \in Cqe
<1>1. b[i] \in Sqe
  BY ElementOfSeq
<1>2. ChainResult(b, i) \in {DispatchOp(b[i]), ECANCELED}
  BY DEF ChainResult
<1> QED
  BY <1>1, <1>2, CompletionAssumption

LEMMA BatchCompletionsType ==
    ASSUME NEW b, b \in Seq(Sqe)
    PROVE  BatchCompletions(b) \in Seq(Cqe)
<1> DEFINE e(i) == OnlyIf(~(b[i].skip /\ ChainResult(b, i) >= 0),
                          [user_data |-> b[i].user_data, res |-> ChainResult(b, i)])
           s == [i \in DOMAIN b |-> e(i)]
<1>1. Len(b) \in Nat /\ DOMAIN b = 1 .. Len(b)
  OBVIOUS
<1>2. \A i \in 1 .. Len(b) : e(i) \in Seq(Cqe)
  BY ChainCqe, OnlyIfType
<1> HIDE DEF e
<1>3. \A i \in 1 .. Len(b) : s[i] \in Seq(Cqe)
  BY <1>1, <1>2
<1> HIDE DEF s
<1>4. Concat(s, Len(b)) \in Seq(Cqe)
  BY <1>1, <1>3, ConcatType
<1> QED
  BY <1>4 DEF BatchCompletions, s, e

(* One result more at the front is one completion more, or none. *)
LEMMA ToPostHead ==
    ASSUME NEW rs, IsSequence(rs), rs # <<>>, \A i \in DOMAIN rs : CqeOf(rs[i]) \in Cqe
    PROVE  /\ ToPost(rs) = OnlyIf(Posts(Head(rs)), CqeOf(Head(rs))) \o ToPost(Tail(rs))
           /\ CqeOf(Head(rs)) \in Cqe
           /\ IsSequence(Tail(rs))
           /\ \A i \in DOMAIN Tail(rs) : CqeOf(Tail(rs)[i]) \in Cqe
           /\ ToPost(Tail(rs)) \in Seq(Cqe)
<1> DEFINE S == {rs[i] : i \in DOMAIN rs}
           e(cd) == OnlyIf(Posts(cd), CqeOf(cd))
           q == Tail(rs)
           k == Len(rs) - 1
           s == [i \in DOMAIN rs |-> e(rs[i])]
           t == [i \in DOMAIN q |-> e(q[i])]
<1>1. rs \in Seq(S)
  BY DEF IsSequence
<1> HIDE DEF S
<1>2. Len(rs) \in Nat /\ Len(rs) # 0 /\ DOMAIN rs = 1 .. Len(rs)
  BY <1>1
<1>3. /\ q \in Seq(S) /\ Len(q) = k /\ DOMAIN q = 1 .. k
      /\ Head(rs) = rs[1] /\ \A i \in 1 .. k : q[i] = rs[i + 1]
  BY <1>1, <1>2
<1>4. k \in Nat /\ k + 1 = Len(rs)
  BY <1>2
<1>5. IsSequence(q)
  <2>1. q \in Seq(S)
    BY <1>3
  <2> HIDE DEF q
  <2> QED
    BY <2>1, SeqIsSequence
<1>6. CqeOf(Head(rs)) \in Cqe /\ \A i \in DOMAIN q : CqeOf(q[i]) \in Cqe
  <2> HIDE DEF k, q
  <2> QED BY <1>2, <1>3, <1>4
<1>7. \A i \in 1 .. k + 1 : s[i] \in Seq(Cqe)
  <2>1. \A i \in DOMAIN rs : e(rs[i]) \in Seq(Cqe)
    BY OnlyIfType
  <2> HIDE DEF e, k
  <2> QED BY <1>2, <1>4, <2>1
<1>8. \A i \in 1 .. k : t[i] = s[i + 1]
  <2> HIDE DEF e, k, q
  <2> QED BY <1>2, <1>3, <1>4
<1>9. s[1] = e(Head(rs))
  <2> HIDE DEF e
  <2> QED BY <1>2, <1>3
<1>10. ToPost(rs) = Concat(s, k + 1) /\ ToPost(q) = Concat(t, k)
  BY <1>3, <1>4 DEF ToPost
<1> HIDE DEF s, t, k, q
<1>11. Concat(s, k + 1) = s[1] \o Concat(t, k) /\ Concat(t, k) \in Seq(Cqe)
  BY <1>4, <1>7, <1>8, ConcatCons
<1> QED
  BY <1>5, <1>6, <1>9, <1>10, <1>11 DEF q

LEMMA ToPostOfThread ==
    ASSUME NEW t, ThreadInv(t), Finished(t), t.sqes \in Seq(Sqe)
    PROVE  /\ ToPost(t.results) = BatchCompletions(t.sqes)
           /\ IsSequence(t.results)
           /\ \A i \in DOMAIN t.results : CqeOf(t.results[i]) \in Cqe
           /\ ~t.panicked
<1> DEFINE n == Len(t.sqes)
           b == t.sqes
           rs == t.results
           s == [i \in DOMAIN rs |-> OnlyIf(Posts(rs[i]), CqeOf(rs[i]))]
           u == [i \in DOMAIN b |->
                    OnlyIf(~(b[i].skip /\ ChainResult(b, i) >= 0),
                           [user_data |-> b[i].user_data, res |-> ChainResult(b, i)])]
<1>1. /\ n \in Nat /\ DOMAIN b = 1 .. n /\ DOMAIN rs = 1 .. n /\ Len(rs) = n
      /\ ThreadAt(t, n)
  BY ThreadProgress DEF Finished
<1>2. rs = ChainResults(b, n) /\ ~t.panicked
  BY <1>1 DEF ThreadAt
<1>3. IsSequence(rs)
  BY <1>1, <1>2, ChainResultsLen DEF IsSequence
<1>4. \A i \in 1 .. n : rs[i] = [user_data |-> b[i].user_data, result |-> ChainResult(b, i),
                                 skip_success |-> b[i].skip]
  <2> HIDE DEF n, b, rs
  <2> QED BY <1>1, <1>2 DEF ChainResults
<1>5. \A i \in 1 .. n : /\ CqeOf(rs[i]) = [user_data |-> b[i].user_data, res |-> ChainResult(b, i)]
                        /\ Posts(rs[i]) <=> ~(b[i].skip /\ ChainResult(b, i) >= 0)
  <2> HIDE DEF n, b, rs
  <2> TAKE i \in 1 .. n
  <2> DEFINE x == b[i].user_data
             y == ChainResult(b, i)
             z == b[i].skip
  <2>1. rs[i].user_data = x /\ rs[i].result = y /\ rs[i].skip_success = z
    <3>1. rs[i] = [user_data |-> x, result |-> y, skip_success |-> z]
      BY <1>4
    <3> HIDE DEF x, y, z
    <3> QED BY <3>1
  <2> QED
    BY <2>1 DEF CqeOf, Posts
<1>6. \A i \in DOMAIN rs : CqeOf(rs[i]) \in Cqe
  BY <1>1, <1>5, ChainCqe
<1>7. \A i \in 1 .. n : s[i] = u[i]
  <2> HIDE DEF n, b, rs
  <2> TAKE i \in 1 .. n
  <2>1. s[i] = OnlyIf(Posts(rs[i]), CqeOf(rs[i]))
    BY <1>1
  <2>2. u[i] = OnlyIf(~(b[i].skip /\ ChainResult(b, i) >= 0),
                      [user_data |-> b[i].user_data, res |-> ChainResult(b, i)])
    BY <1>1
  <2> QED
    BY <1>5, <2>1, <2>2 DEF OnlyIf
<1>8. ToPost(rs) = Concat(s, n) /\ BatchCompletions(b) = Concat(u, n)
  BY <1>1 DEF ToPost, BatchCompletions
<1> HIDE DEF s, u
<1>9. Concat(s, n) = Concat(u, n)
  BY <1>1, <1>7, ConcatSame
<1> QED
  BY <1>2, <1>3, <1>6, <1>8, <1>9

-----------------------------------------------------------------------------
(* The account: what was handed to post_cqe, and what the threads owe. *)

LEMMA OwedByType ==
    ASSUME SysInv
    PROVE  \A b \in 1 .. Len(threads) : OwedBy[b] \in Seq(Cqe)
<1> TAKE b \in 1 .. Len(threads)
<1>1. b \in DOMAIN threads
  BY SysFacts
<1>2. threads[b].sqes \in Seq(Sqe)
  BY <1>1 DEF SysInv, SysTypeOK
<1>3. BatchCompletions(threads[b].sqes) \in Seq(Cqe)
  BY <1>2, BatchCompletionsType
<1>4. <<>> \in Seq(Cqe)
  OBVIOUS
<1> QED
  BY <1>1, <1>3, <1>4 DEF OwedBy

(* What the joined threads owe no longer changes. *)
LEMMA OwedStable ==
    ASSUME SysInv, [SysNext]_sysVars
    PROVE  \A b \in 1 .. Joined : OwedBy'[b] = OwedBy[b]
<1>1. \A b \in 1 .. Joined : b \in detached' <=> b \in detached
  <2>1. CASE FlushPanics
    BY <2>1, HandlesPanicked
  <2>2. CASE detached' = detached
    BY <2>2
  <2>3. QuietStep => detached' = detached
    BY DEF QuietStep, faultVars
  <2>4. BusyStep => detached' = detached \/ FlushPanics
    BY DEF BusyStep, SpawnBatch, SpawnFails, JoinBatch, JoinOnDrop, SkipResult, PostResult,
           FreeMemory, DispatchThread, PanickingThread, callVars, faultVars
  <2> QED
    BY <2>1, <2>2, <2>3, <2>4, QuietOrBusy
<1> TAKE b \in 1 .. Joined
<1>2. b \in DOMAIN threads /\ b \in DOMAIN threads'
  BY SysFacts, ThreadsGrow
<1>3. Ended(threads[b]) \/ b \in detached
  BY DEF SysInv, SysHandles
<1>4. CASE b \in detached
  BY <1>1, <1>2, <1>4 DEF OwedBy
<1>5. CASE Ended(threads[b])
  <2>1. threads'[b] = threads[b]
    BY <1>2, <1>5, ThreadsGrow
  <2> QED
    BY <1>1, <1>2, <2>1 DEF OwedBy
<1> QED
  BY <1>3, <1>4, <1>5

(* The account as a fact about one number of threads. *)
AccountAt(n) ==
    /\ resolved \o ToPost(results) = Concat(OwedBy, n)
    /\ op # "drop" /\ ~freed => n = Joined

LEMMA AccountParts ==
    ASSUME SysInv
    PROVE  /\ IsSequence(results) /\ \A i \in DOMAIN results : CqeOf(results[i]) \in Cqe
           /\ resolved \in Seq(Cqe)
           /\ \E n \in 0 .. Joined : AccountAt(n)
  BY DEF SysInv, SysTypeOK, SysAccount, AccountAt

LEMMA ConcatStable ==
    ASSUME SysInv, [SysNext]_sysVars, NEW n \in 0 .. Joined
    PROVE  Concat(OwedBy', n) = Concat(OwedBy, n)
<1> DEFINE s == OwedBy
           t == OwedBy'
<1>1. n \in Nat /\ \A i \in 1 .. n : t[i] = s[i]
  BY OwedStable, SysFacts
<1> HIDE DEF s, t
<1>2. Concat(t, n) = Concat(s, n)
  BY <1>1, ConcatSame
<1> QED
  BY <1>2 DEF s, t

(* Steps that post nothing and join nothing. *)
LEMMA AccountUntouched ==
    ASSUME SysInv, [SysNext]_sysVars, UNCHANGED <<results, resolved>>, Joined' >= Joined,
           Joined' \in Nat,
           op' # "drop" /\ ~freed' => op # "drop" /\ ~freed /\ Joined' = Joined
    PROVE  SysAccount'
<1>1. PICK n \in 0 .. Joined : AccountAt(n)
  BY AccountParts
<1>2. Concat(OwedBy', n) = Concat(OwedBy, n)
  BY ConcatStable
<1>3. n \in 0 .. Joined'
  BY SysFacts
<1>4. /\ resolved' \o ToPost(results') = Concat(OwedBy', n)
      /\ op' # "drop" /\ ~freed' => n = Joined'
  BY <1>1, <1>2 DEF AccountAt
<1>5. IsSequence(results') /\ \A i \in DOMAIN results' : CqeOf(results'[i]) \in Cqe
  BY AccountParts
<1> QED
  BY <1>3, <1>4, <1>5 DEF SysAccount

(* In a flush all joined threads are accounted for. *)
LEMMA FlushAccount ==
    ASSUME SysInv, Flushing
    PROVE  AccountAt(Joined) /\ ~freed
<1>1. op \in {"wait", "completion", "split"} /\ ~freed
  BY DEF Flushing, SysInv, SysControl
<1>2. PICK n \in 0 .. Joined : AccountAt(n)
  BY AccountParts
<1>3. n = Joined
  BY <1>1, <1>2 DEF AccountAt
<1> QED
  BY <1>1, <1>2, <1>3

LEMMA EmptyToPost == ToPost(<<>>) = <<>>
<1> DEFINE s == [i \in DOMAIN <<>> |-> OnlyIf(Posts(<<>>[i]), CqeOf(<<>>[i]))]
<1>1. ToPost(<<>>) = Concat(s, Len(<<>>)) /\ Len(<<>>) = 0
  BY DEF ToPost
<1> HIDE DEF s
<1> QED
  BY <1>1, ConcatStep

LEMMA AccountJoin ==
    ASSUME SysInv, [SysNext]_sysVars, JoinBatch
    PROVE  SysAccount'
<1> DEFINE f == Joined
           t == threads[f + 1]
<1>1. /\ Flushing /\ results = <<>> /\ pending # <<>> /\ Finished(threads[Head(pending)])
      /\ results' = threads[Head(pending)].results /\ pending' = Tail(pending)
      /\ UNCHANGED <<threads, op, freed, resolved, detached>>
  BY DEF JoinBatch, AtFlushLoop, faultVars
<1>2. Head(pending) = f + 1 /\ f + 1 \in DOMAIN threads
  BY <1>1, FrontHandle
<1>3. Joined' = f + 1
  BY <1>1, HandlesJoined DEF Ended
<1>4. ThreadInv(t) /\ Finished(t) /\ t.sqes \in Seq(Sqe)
  BY <1>1, <1>2 DEF SysInv, SysTypeOK, DispatchInv
<1>5. /\ ToPost(t.results) = BatchCompletions(t.sqes) /\ IsSequence(t.results)
      /\ \A i \in DOMAIN t.results : CqeOf(t.results[i]) \in Cqe
      /\ ~t.panicked
  BY <1>4, ToPostOfThread
<1>6. f + 1 \notin detached
  <2>1. f \in Nat /\ \A b \in detached : b <= f
    BY SysFacts DEF SysInv, SysHandles
  <2> HIDE DEF f
  <2> QED BY <2>1
<1>7. OwedBy[f + 1] = BatchCompletions(t.sqes)
  BY <1>2, <1>5, <1>6 DEF OwedBy
<1>8. resolved = Concat(OwedBy, f)
  <2>1. AccountAt(f)
    BY <1>1, FlushAccount
  <2>2. resolved \o ToPost(<<>>) = Concat(OwedBy, f)
    BY <1>1, <2>1 DEF AccountAt
  <2>3. resolved \in Seq(Cqe)
    BY AccountParts
  <2>4. resolved \o <<>> = resolved
    BY <2>3, ConcatEmptySeq
  <2> QED
    BY <2>2, <2>4, EmptyToPost
<1>9. f \in Nat /\ Concat(OwedBy, f + 1) = Concat(OwedBy, f) \o OwedBy[f + 1]
  BY SysFacts, ConcatStep
<1>10. OwedBy' = OwedBy
  BY <1>1 DEF OwedBy
<1>11. results' = t.results /\ resolved' = resolved
  BY <1>1, <1>2
<1>12. resolved' \o ToPost(results') = Concat(OwedBy', f + 1)
  BY <1>5, <1>7, <1>8, <1>9, <1>10, <1>11
<1>13. f + 1 \in 0 .. Joined'
  BY <1>3, <1>9
<1> HIDE DEF f, t
<1> QED
  BY <1>3, <1>5, <1>11, <1>12, <1>13 DEF SysAccount

LEMMA AccountPanic ==
    ASSUME SysInv, [SysNext]_sysVars, FlushPanics
    PROVE  SysAccount'
<1> DEFINE f == Joined
           L == Len(threads)
           s == OwedBy'
<1>1. /\ Flushing /\ results = <<>> /\ UNCHANGED <<threads, results, resolved, freed>>
      /\ pending # <<>>
  BY DEF FlushPanics, AtFlushLoop
<1>2. AccountAt(f) /\ ~freed
  BY <1>1, FlushAccount
<1>3. /\ Joined' = L /\ threads[f + 1].panicked
      /\ \A b \in f + 2 .. L : b \in detached'
  BY HandlesPanicked
<1>4. L \in Nat /\ f \in Nat /\ f <= L /\ DOMAIN threads = 1 .. L
  BY SysFacts
<1>5. \A i \in f + 1 .. L : s[i] = <<>>
  <2> TAKE i \in f + 1 .. L
  <2>1. i \in DOMAIN threads'
    BY <1>1, <1>4
  <2>2. threads'[i].panicked \/ i \in detached'
    <3>1. i = f + 1 \/ i \in f + 2 .. L
      BY <1>4
    <3> QED
      BY <1>1, <1>3, <3>1
  <2> QED
    BY <2>1, <2>2 DEF OwedBy
<1>6. \A i \in 1 .. f : s[i] \in Seq(Cqe)
  <2>1. \A i \in 1 .. f : s[i] = OwedBy[i]
    BY OwedStable
  <2>2. \A i \in 1 .. f : OwedBy[i] \in Seq(Cqe)
    BY <1>4, OwedByType
  <2> QED
    BY <2>1, <2>2
<1>7. Concat(s, f) = Concat(OwedBy, f)
  BY <1>4, ConcatStable
<1> HIDE DEF s, f, L
<1>8. Concat(s, L) = Concat(s, f) /\ Concat(s, f) \in Seq(Cqe)
  BY <1>4, <1>5, <1>6, ConcatEmptyTail
<1>9. resolved' \o ToPost(results') = Concat(OwedBy', L)
  BY <1>1, <1>2, <1>7, <1>8 DEF AccountAt, s
<1>10. IsSequence(results') /\ \A i \in DOMAIN results' : CqeOf(results'[i]) \in Cqe
  BY <1>1, AccountParts
<1>11. L \in 0 .. Joined'
  BY <1>3, <1>4
<1> QED
  BY <1>3, <1>9, <1>10, <1>11 DEF SysAccount

(* flush_pending takes the result at the front, and posts it or not. *)
LEMMA AccountFlush ==
    ASSUME SysInv, [SysNext]_sysVars, SkipResult \/ PostResult
    PROVE  SysAccount'
<1> DEFINE f == Joined
           x == CqeOf(Head(results))
           q == ToPost(Tail(results))
           r == resolved
<1>1. /\ Flushing /\ results # <<>> /\ results' = Tail(results)
      /\ UNCHANGED <<threads, pending, op, freed, detached>>
      /\ \/ ~Posts(Head(results)) /\ resolved' = resolved
         \/ Posts(Head(results)) /\ resolved' = Append(resolved, CqeOf(Head(results)))
  BY DEF SkipResult, PostResult, AfterSkip, AtFlushLoop, faultVars
<1>2. AccountAt(f) /\ ~freed
  BY <1>1, FlushAccount
<1>3. IsSequence(results) /\ \A i \in DOMAIN results : CqeOf(results[i]) \in Cqe
  BY AccountParts
<1>4. /\ ToPost(results) = OnlyIf(Posts(Head(results)), x) \o q
      /\ x \in Cqe /\ IsSequence(Tail(results))
      /\ \A i \in DOMAIN Tail(results) : CqeOf(Tail(results)[i]) \in Cqe
      /\ q \in Seq(Cqe)
  BY <1>1, <1>3, ToPostHead
<1>5. r \in Seq(Cqe) /\ r \o ToPost(results) = Concat(OwedBy, f)
  BY <1>2, AccountParts DEF AccountAt
<1>6. OwedBy' = OwedBy /\ Joined' = f
  BY <1>1 DEF OwedBy, Joined
<1>7. resolved' \o ToPost(results') = r \o ToPost(results)
  <2> HIDE DEF x, q, r
  <2>1. CASE ~Posts(Head(results))
    <3>1. <<>> \o q = q
      BY <1>4, ConcatEmptySeq
    <3>2. OnlyIf(Posts(Head(results)), x) = <<>>
      BY <2>1 DEF OnlyIf
    <3>3. resolved' \o ToPost(results') = r \o q
      BY <1>1, <2>1 DEF q, r
    <3> QED
      BY <1>4, <3>1, <3>2, <3>3
  <2>2. CASE Posts(Head(results))
    <3> DEFINE y == <<x>>
    <3>1. OnlyIf(Posts(Head(results)), x) = y
      BY <2>2 DEF OnlyIf
    <3>2. y \in Seq(Cqe)
      BY <1>4
    <3>3. Append(r, x) = r \o y
      BY <1>4, <1>5, AppendIsConcat
    <3>4. resolved' \o ToPost(results') = Append(r, x) \o q
      BY <1>1, <2>2 DEF q, r, x
    <3> HIDE DEF y
    <3>5. (r \o y) \o q = r \o (y \o q)
      BY <1>4, <1>5, <3>2, ConcatAssociative
    <3> QED
      BY <1>4, <3>1, <3>3, <3>4, <3>5
  <2> QED
    BY <2>1, <2>2
<1>8. f \in 0 .. Joined'
  BY <1>6, SysFacts
<1>9. resolved' \o ToPost(results') = Concat(OwedBy', f)
  BY <1>5, <1>6, <1>7
<1>10. IsSequence(results') /\ \A i \in DOMAIN results' : CqeOf(results'[i]) \in Cqe
  BY <1>1, <1>4
<1> HIDE DEF f, x, q, r
<1> QED
  BY <1>6, <1>8, <1>9, <1>10 DEF SysAccount

LEMMA AccountKept == SysInv /\ [SysNext]_sysVars => SysAccount'
<1> SUFFICES ASSUME SysInv, [SysNext]_sysVars PROVE SysAccount'
  OBVIOUS
<1>1. Joined \in Nat /\ Joined >= Joined
  BY SysFacts
<1>2. freed => op # "drop"
  BY DEF SysInv, SysControl
<1>3. CASE JoinBatch
  BY <1>3, AccountJoin
<1>4. CASE FlushPanics
  BY <1>4, AccountPanic
<1>5. CASE SkipResult \/ PostResult
  BY <1>5, AccountFlush
<1>6. CASE SpawnBatch
  <2>1. Joined' = Joined /\ UNCHANGED <<results, resolved, op, freed>>
    BY <1>6, HandlesSpawned DEF SpawnBatch
  <2> QED
    BY <1>1, <2>1, AccountUntouched
<1>7. CASE JoinOnDrop
  <2>1. /\ pending # <<>> /\ Ended(threads[Head(pending)]) /\ pending' = Tail(pending)
        /\ op = "drop" /\ UNCHANGED <<threads, detached, results, resolved, op, freed>>
    BY <1>7 DEF JoinOnDrop, faultVars
  <2>2. Joined' = Joined + 1
    BY <2>1, HandlesJoined
  <2>3. Joined' >= Joined /\ Joined' \in Nat
    BY <1>1, <2>2
  <2> QED
    BY <2>1, <2>3, AccountUntouched
<1>8. CASE FreeMemory
  <2>1. freed' /\ UNCHANGED <<threads, pending, results, resolved>>
    BY <1>8 DEF FreeMemory
  <2>2. Joined' = Joined
    BY <2>1 DEF Joined
  <2> QED
    BY <1>1, <2>1, <2>2, AccountUntouched
<1>9. CASE SpawnFails
  <2>1. /\ UNCHANGED <<threads, pending, results, resolved, freed>> /\ op' = "unwind"
        /\ k_pc = "spawn"
    BY <1>9 DEF SpawnFails, HandOver
  <2>2. Joined' = Joined
    BY <2>1 DEF Joined
  <2>3. op # "drop"
    BY <2>1 DEF SysInv, SysControl
  <2> QED
    BY <1>1, <2>1, <2>2, <2>3, AccountUntouched
<1>10. ASSUME NEW b \in DOMAIN threads, DispatchThread(b) \/ PanickingThread(b)
       PROVE  SysAccount'
  <2>1. UNCHANGED <<pending, results, resolved, op, freed>> /\ k_pc' = k_pc
    BY <1>10 DEF DispatchThread, PanickingThread, callVars, sqVars, kernelVars
  <2>2. Len(threads') = Len(threads)
    <3>1. DispatchInv /\ (DispatchStep(b) \/ ThreadPanics(b))
      BY <1>10 DEF DispatchThread, PanickingThread, SysInv
    <3> QED
      BY <3>1, StepKeeps
  <2>3. Joined' = Joined
    BY <2>1, <2>2 DEF Joined
  <2> QED
    BY <1>1, <2>1, <2>3, AccountUntouched
<1>11. CASE QuietStep
  <2>1. UNCHANGED <<threads, pending, results, resolved, freed>> /\ (op = "drop" => op' = "drop")
    BY <1>11 DEF QuietStep
  <2>2. Joined' = Joined
    BY <2>1 DEF Joined
  <2> QED
    BY <1>1, <2>1, <2>2, AccountUntouched
<1> QED
  BY <1>3, <1>4, <1>5, <1>6, <1>7, <1>8, <1>9, <1>10, <1>11, QuietOrBusy DEF BusyStep

-----------------------------------------------------------------------------
(* Where post_cqe has put what it was handed. *)

LEMMA PostedFacts ==
    ASSUME SysInv
    PROVE  /\ resolved \in Seq(Cqe) /\ Len(resolved) \in Nat
           /\ posted \in Seq(Cqe) /\ dropped \in Seq(Cqe)
           /\ Len(posted) \in Nat /\ Len(dropped) \in Nat
           /\ p_pc \in {"idle", "load", "overflow", "flag", "write", "store"}
           /\ p_pc # "idle" => Len(resolved) # 0 /\ p_cqe = resolved[Len(resolved)]
           /\ Len(posted) + Len(dropped) = Settled
           /\ PostedOrDropped
<1>1. /\ resolved \in Seq(Cqe) /\ posted \in Seq(Cqe) /\ dropped \in Seq(Cqe)
      /\ p_pc \in {"idle", "load", "overflow", "flag", "write", "store"}
  BY DEF SysInv, SysTypeOK, CqTypeOK
<1>2. /\ p_pc # "idle" => resolved # <<>> /\ p_cqe = resolved[Len(resolved)]
      /\ Len(posted) + Len(dropped) = Settled
      /\ PostedOrDropped
  BY DEF SysInv, SysPosted
<1>3. Len(resolved) \in Nat /\ (resolved # <<>> => Len(resolved) # 0)
  BY <1>1, EmptySeq
<1> QED
  BY <1>1, <1>2, <1>3

LEMMA PostedUntouched ==
    ASSUME SysInv, UNCHANGED <<p_cqe, posted, dropped, resolved>>,
           p_pc' # "idle" => p_pc # "idle", Settled' = Settled
    PROVE  SysPosted'
  BY DEF SysInv, SysPosted, PostedOrDropped

LEMMA PostedBegins ==
    ASSUME SysInv, PostResult
    PROVE  SysPosted'
<1> DEFINE x == CqeOf(Head(results))
           n == Len(resolved)
           T == 1 .. n
<1>1. /\ results # <<>> /\ p_pc = "idle" /\ p_pc' = "load" /\ p_cqe' = x
      /\ UNCHANGED <<posted, dropped>> /\ resolved' = Append(resolved, x)
  BY DEF PostResult, AtFlushLoop, PostCqe, overflowVars
<1>2. x \in Cqe
  BY <1>1, HeadOfResults DEF SysInv
<1>3. resolved \in Seq(Cqe) /\ n \in Nat /\ Settled = n /\ Len(posted) + Len(dropped) = n
  BY <1>1, PostedFacts DEF Settled
<1> HIDE DEF x, n
<1>4. resolved' \in Seq(Cqe) /\ Len(resolved') = n + 1 /\ resolved'[n + 1] = x
  BY <1>1, <1>2, <1>3, AppendProperties DEF n
<1>5. Settled' = n
  BY <1>1, <1>3, <1>4 DEF Settled
<1>6. PICK S \in SUBSET T : posted = Pick(resolved, S) /\ dropped = Pick(resolved, T \ S)
  BY <1>3, PostedFacts DEF PostedOrDropped
<1>7. S \subseteq 1 .. Len(resolved) /\ T \ S \subseteq 1 .. Len(resolved)
  BY <1>6 DEF n
<1> HIDE DEF T
<1>8. Pick(resolved', S) = Pick(resolved, S) /\ Pick(resolved', T \ S) = Pick(resolved, T \ S)
  BY <1>1, <1>2, <1>3, <1>7, PickAppend
<1>9. PostedOrDropped'
  <2>1. S \in SUBSET T /\ posted' = Pick(resolved', S) /\ dropped' = Pick(resolved', T \ S)
    BY <1>1, <1>6, <1>8
  <2>2. T = 1 .. Settled'
    BY <1>5 DEF T
  <2> QED
    BY <2>1, <2>2 DEF PostedOrDropped
<1>10. resolved' # <<>> /\ p_cqe' = resolved'[Len(resolved')]
  <2>1. Len(resolved') # 0
    BY <1>3, <1>4
  <2> QED
    BY <1>1, <1>4, <2>1
<1>11. Len(posted') + Len(dropped') = Settled'
  BY <1>1, <1>3, <1>5
<1> QED
  BY <1>9, <1>10, <1>11 DEF SysPosted

(* The completion in hand is settled, one way or the other. *)
LEMMA PostedSettles ==
    ASSUME SysInv, p_pc \in {"store", "overflow"}, p_pc' \in {"idle", "flag"},
           UNCHANGED <<p_cqe, resolved>>,
           \/ p_pc = "store" /\ posted' = Append(posted, p_cqe) /\ dropped' = dropped
           \/ dropped' = Append(dropped, p_cqe) /\ posted' = posted
    PROVE  SysPosted'
<1> DEFINE k == Len(resolved) - 1
           T == 1 .. k
           U == 1 .. k + 1
           x == resolved[k + 1]
<1>1. /\ resolved \in Seq(Cqe) /\ k \in Nat /\ Len(resolved) = k + 1
      /\ posted \in Seq(Cqe) /\ dropped \in Seq(Cqe)
      /\ Len(posted) \in Nat /\ Len(dropped) \in Nat
      /\ p_cqe = x /\ Settled = k /\ Len(posted) + Len(dropped) = k
  BY PostedFacts DEF Settled
<1>2. x \in Cqe
  <2>1. k + 1 \in 1 .. Len(resolved)
    BY <1>1
  <2> QED
    BY <1>1, <2>1, ElementOfSeq
<1>3. PICK S \in SUBSET T : posted = Pick(resolved, S) /\ dropped = Pick(resolved, T \ S)
  BY <1>1, PostedFacts DEF PostedOrDropped
<1>4. S \subseteq 1 .. k /\ T \ S \subseteq 1 .. k
  BY <1>3
<1>5. Settled' = k + 1
  BY <1>1 DEF Settled
<1>6. U = T \cup {k + 1} /\ k + 1 \notin T
  BY <1>1
<1> HIDE DEF k, x
<1>7. /\ Pick(resolved, S \cup {k + 1}) = Append(Pick(resolved, S), x)
      /\ Pick(resolved, (T \ S) \cup {k + 1}) = Append(Pick(resolved, T \ S), x)
  <2> HIDE DEF T
  <2> QED BY <1>1, <1>4, PickLast DEF x
<1> HIDE DEF T, U
<1>8. PostedOrDropped'
  <2>1. CASE posted' = Append(posted, p_cqe) /\ dropped' = dropped
    <3> DEFINE R == S \cup {k + 1}
    <3>1. R \in SUBSET U /\ U \ R = T \ S
      BY <1>3, <1>6
    <3> HIDE DEF R
    <3>2. posted' = Pick(resolved', R) /\ dropped' = Pick(resolved', U \ R)
      BY <1>1, <1>3, <1>7, <2>1, <3>1 DEF R
    <3>3. U = 1 .. Settled'
      BY <1>5 DEF U
    <3> QED
      BY <3>1, <3>2, <3>3 DEF PostedOrDropped
  <2>2. CASE dropped' = Append(dropped, p_cqe) /\ posted' = posted
    <3>1. S \in SUBSET U /\ U \ S = (T \ S) \cup {k + 1}
      BY <1>3, <1>6
    <3>2. posted' = Pick(resolved', S) /\ dropped' = Pick(resolved', U \ S)
      BY <1>1, <1>3, <1>7, <2>2, <3>1
    <3>3. U = 1 .. Settled'
      BY <1>5 DEF U
    <3> QED
      BY <3>1, <3>2, <3>3 DEF PostedOrDropped
  <2> QED
    BY <2>1, <2>2
<1>9. Len(posted') + Len(dropped') = k + 1
  <2>1. Len(Append(posted, x)) = Len(posted) + 1 /\ Len(Append(dropped, x)) = Len(dropped) + 1
    BY <1>1, <1>2, AppendProperties
  <2>2. \/ Len(posted') = Len(posted) + 1 /\ Len(dropped') = Len(dropped)
        \/ Len(posted') = Len(posted) /\ Len(dropped') = Len(dropped) + 1
    BY <1>1, <2>1
  <2> QED
    BY <1>1, <2>2
<1>10. resolved' # <<>> /\ p_cqe' = resolved'[Len(resolved')]
  <2>1. Len(resolved) # 0
    BY <1>1
  <2> QED
    BY <1>1, <2>1, EmptySeq DEF x
<1> QED
  BY <1>5, <1>8, <1>9, <1>10 DEF SysPosted

LEMMA PostedStep ==
    ASSUME SysInv, CqPostStep, resolved' = resolved
    PROVE  SysPosted'
<1>1. CASE LoadCq \/ WriteCqe
  <2>1. /\ UNCHANGED <<p_cqe, posted, dropped>>
        /\ p_pc \notin {"idle", "flag"} /\ p_pc' \notin {"idle", "flag"}
    BY <1>1 DEF LoadCq, WriteCqe, overflowVars
  <2>2. Settled' = Settled
    BY <2>1 DEF Settled
  <2> QED
    BY <2>1, <2>2, PostedUntouched
<1>2. CASE SetOverflowFlag
  <2>1. UNCHANGED <<p_cqe, posted, dropped>> /\ p_pc = "flag" /\ p_pc' = "idle"
    BY <1>2 DEF SetOverflowFlag
  <2>2. Settled' = Settled
    BY <2>1 DEF Settled
  <2> QED
    BY <2>1, <2>2, PostedUntouched
<1>3. CASE CountOverflow
  <2>1. /\ p_pc = "overflow" /\ p_pc' \in {"idle", "flag"} /\ p_cqe' = p_cqe
        /\ dropped' = Append(dropped, p_cqe) /\ posted' = posted
    BY <1>3 DEF CountOverflow
  <2> QED
    BY <2>1, PostedSettles
<1>4. CASE StoreTail
  <2>1. /\ p_pc = "store" /\ p_pc' \in {"idle", "flag"} /\ p_cqe' = p_cqe
        /\ posted' = Append(posted, p_cqe) /\ dropped' = dropped
    BY <1>4 DEF StoreTail, overflowVars
  <2> QED
    BY <2>1, PostedSettles
<1> QED
  BY <1>1, <1>2, <1>3, <1>4 DEF CqPostStep

LEMMA PostedKept == SysInv /\ [SysNext]_sysVars => SysPosted'
<1> SUFFICES ASSUME SysInv, [SysNext]_sysVars PROVE SysPosted'
  OBVIOUS
<1>1. CASE PostResult
  BY <1>1, PostedBegins
<1>2. CASE PostStep
  BY <1>2, PostedStep DEF PostStep, callVars
<1>3. CASE UNCHANGED <<p_pc, p_cqe, posted, dropped, resolved>>
  <2>1. Settled' = Settled
    BY <1>3 DEF Settled
  <2> QED
    BY <1>3, <2>1, PostedUntouched
<1>4. ASSUME CqUser \/ UNCHANGED cqVars, resolved' = resolved
      PROVE  UNCHANGED <<p_pc, p_cqe, posted, dropped, resolved>>
  BY <1>4 DEF CqUser, CqHandle, CqBorrow, NextCqe, Fill, StartPop, Pop, CqSyncStore,
              CqSyncLoad, CqDrop, cqVars, posterVars, overflowVars
<1>5. ASSUME NEW w \in Wants, CallSubmit(w) \/ \E n \in EnterCounts : CallEnter(n, w)
      PROVE  UNCHANGED cqVars /\ resolved' = resolved
  BY <1>5 DEF CallSubmit, CallEnter, StartSubmit
<1>6. CASE EnqueueStep \/ SpawnBatch \/ SpawnFails \/ PushThread \/ ReapThread
  BY <1>3, <1>4, <1>6 DEF EnqueueStep, SpawnBatch, SpawnFails, PushThread, ReapThread, CqUser,
                          callVars
<1>7. CASE FinishCompletion \/ FinishSplit
  BY <1>3, <1>4, <1>7 DEF FinishCompletion, FinishSplit, CqUser
<1>8. CASE CallCompletion \/ CallSplit \/ CallDrop
  BY <1>3, <1>4, <1>8 DEF CallCompletion, CallSplit, CallDrop, StartCall
<1>9. CASE FinishSubmit \/ Unwound \/ FinishWait
  BY <1>3, <1>4, <1>9 DEF FinishSubmit, Unwound, FinishWait
<1>10. CASE JoinBatch \/ FlushPanics \/ SkipResult \/ JoinOnDrop \/ FreeMemory
  BY <1>3, <1>4, <1>10 DEF JoinBatch, FlushPanics, SkipResult, JoinOnDrop, FreeMemory
<1>11. ASSUME NEW b \in DOMAIN threads, DispatchThread(b) \/ PanickingThread(b)
       PROVE  UNCHANGED cqVars /\ resolved' = resolved
  BY <1>11 DEF DispatchThread, PanickingThread, callVars
<1>12. CASE Gone \/ UNCHANGED sysVars
  BY <1>3, <1>4, <1>12 DEF Gone, sysVars, callVars
<1> QED
  BY <1>1, <1>2, <1>3, <1>4, <1>5, <1>6, <1>7, <1>8, <1>9, <1>10, <1>11, <1>12
     DEF SysNext, CallStep

-----------------------------------------------------------------------------
(* No SQE falls between the ring and the threads. *)

LEMMA LostFacts ==
    ASSUME SysInv
    PROVE  /\ Len(lost) \in Nat /\ DOMAIN lost = 1 .. Len(lost)
           /\ \A i \in 1 .. Len(lost) :
                 lost[i].after \in 0 .. Len(threads) /\ lost[i].sqes \in Seq(Sqe)
<1> DEFINE R == [after : 0 .. Len(threads), sqes : Seq(Sqe)]
<1>1. lost \in Seq(R)
  BY DEF SysInv, SysTypeOK
<1>2. \A r \in R : r.after \in 0 .. Len(threads) /\ r.sqes \in Seq(Sqe)
  OBVIOUS
<1> HIDE DEF R
<1>3. Len(lost) \in Nat /\ DOMAIN lost = 1 .. Len(lost) /\ \A i \in 1 .. Len(lost) : lost[i] \in R
  BY <1>1, ElementOfSeq
<1> QED
  BY <1>2, <1>3

LEMMA LostType ==
    ASSUME SysInv, NEW n
    PROVE  /\ LostAfter(n) \in Seq(Sqe)
           /\ n \notin 0 .. Len(threads) => LostAfter(n) = <<>>
<1> DEFINE k == Len(lost)
           s == [i \in DOMAIN lost |-> IF lost[i].after = n THEN lost[i].sqes ELSE <<>>]
           z == 0
<1>1. k \in Nat /\ \A i \in 1 .. k : s[i] \in Seq(Sqe)
  <2>1. <<>> \in Seq(Sqe)
    OBVIOUS
  <2> QED
    BY <2>1, LostFacts
<1>2. n \notin 0 .. Len(threads) => \A i \in 1 .. k : s[i] = <<>>
  BY LostFacts
<1>3. LostAfter(n) = Concat(s, k)
  BY DEF LostAfter
<1>4. z \in Nat /\ z <= k /\ z + 1 = 1 /\ (\A i \in 1 .. z : s[i] \in Seq(Sqe))
  BY <1>1
<1>5. Concat(s, z) = <<>>
  BY ConcatStep
<1> HIDE DEF k, s, z
<1>6. Concat(s, k) \in Seq(Sqe)
  BY <1>1, ConcatType
<1>7. CASE \A i \in 1 .. k : s[i] = <<>>
  <2>1. \A i \in z + 1 .. k : s[i] = <<>>
    BY <1>4, <1>7
  <2>2. Concat(s, k) = Concat(s, z)
    BY <1>1, <1>4, <2>1, ConcatEmptyTail
  <2> QED
    BY <1>3, <1>5, <1>6, <2>2
<1> QED
  BY <1>2, <1>3, <1>6, <1>7

LEMMA GivenType ==
    ASSUME SysInv
    PROVE  /\ \A b \in 1 .. Len(threads) : Given[b] \in Seq(Sqe)
           /\ Concat(Given, Len(threads)) \in Seq(Sqe)
<1>1. \A b \in 1 .. Len(threads) : Given[b] \in Seq(Sqe)
  <2> TAKE b \in 1 .. Len(threads)
  <2>1. b \in DOMAIN threads
    BY SysFacts
  <2>2. threads[b].sqes \in Seq(Sqe) /\ LostAfter(b - 1) \in Seq(Sqe)
    BY <2>1, LostType DEF SysInv, SysTypeOK
  <2>3. Given[b] = LostAfter(b - 1) \o threads[b].sqes
    BY <2>1 DEF Given
  <2> QED
    BY <2>2, <2>3, ConcatProperties
<1>2. Len(threads) \in Nat
  BY SysFacts
<1> QED
  BY <1>1, <1>2, ConcatType

(* The threads there are keep their batches. *)
LEMMA GivenStable ==
    ASSUME SysInv, [SysNext]_sysVars,
           \A b \in 1 .. Len(threads) : LostAfter(b - 1)' = LostAfter(b - 1)
    PROVE  /\ \A b \in 1 .. Len(threads) : Given'[b] = Given[b]
           /\ Concat(Given', Len(threads)) = Concat(Given, Len(threads))
<1> DEFINE s == Given
           t == Given'
           L == Len(threads)
<1>1. \A b \in 1 .. L : t[b] = s[b]
  <2> TAKE b \in 1 .. L
  <2>1. b \in DOMAIN threads
    BY SysFacts
  <2>2. b \in DOMAIN threads' /\ threads'[b].sqes = threads[b].sqes
    BY <2>1, ThreadsGrow
  <2>3. t[b] = LostAfter(b - 1)' \o threads'[b].sqes
    BY <2>2 DEF Given
  <2>4. s[b] = LostAfter(b - 1) \o threads[b].sqes
    BY <2>1 DEF Given
  <2> QED
    BY <2>2, <2>3, <2>4
<1>2. L \in Nat
  BY SysFacts
<1>3. Concat(t, L) = Concat(s, L)
  <2> HIDE DEF s, t, L
  <2> QED BY <1>1, <1>2, ConcatSame
<1> QED
  BY <1>1, <1>3

(* The batch in hand. *)
InHand == IF k_pc = "spawn" THEN batch ELSE <<>>

LEMMA NothingLostParts ==
    NothingLost <=> taken = Concat(Given, Len(threads)) \o LostAfter(Len(threads)) \o InHand
  BY DEF NothingLost, InHand

LEMMA LostUntouched ==
    ASSUME SysInv, [SysNext]_sysVars, lost' = lost, Len(threads') = Len(threads),
           \/ UNCHANGED <<taken, InHand>>
           \/ InHand = <<>> /\ taken' = taken \o InHand' /\ InHand' \in Seq(Sqe)
    PROVE  NothingLost'
<1> DEFINE g == Concat(Given, Len(threads))
           a == LostAfter(Len(threads))
           c == g \o a
<1>1. taken = c \o InHand
  BY NothingLostParts DEF SysInv
<1>2. \A n : LostAfter(n)' = LostAfter(n)
  BY DEF LostAfter
<1>3. Concat(Given', Len(threads)) = g
  BY <1>2, GivenStable
<1>4. Concat(Given', Len(threads')) = g /\ LostAfter(Len(threads))' = a
  BY <1>2, <1>3
<1>5. g \in Seq(Sqe) /\ a \in Seq(Sqe)
  BY GivenType, LostType
<1> HIDE DEF g, a
<1>6. c \in Seq(Sqe)
  BY <1>5, ConcatProperties
<1> HIDE DEF c
<1>7. taken' = c \o InHand'
  <2>1. c \o <<>> = c
    BY <1>6, ConcatEmptySeq
  <2> QED
    BY <1>1, <2>1
<1>8. taken' = Concat(Given', Len(threads')) \o LostAfter(Len(threads))' \o InHand'
  BY <1>4, <1>7 DEF c
<1> QED
  BY <1>8 DEF NothingLost, InHand

(* A thread that could not be spawned: its batch joins those lost there. *)
LEMMA LostMore ==
    ASSUME SysInv, SpawnFails, NEW n
    PROVE  LostAfter(n)' = LostAfter(n) \o (IF n = Len(threads) THEN batch ELSE <<>>)
<1> DEFINE k == Len(lost)
           e == [after |-> Len(threads), sqes |-> batch]
           s == [i \in DOMAIN lost |-> IF lost[i].after = n THEN lost[i].sqes ELSE <<>>]
           t == [i \in DOMAIN lost' |-> IF lost'[i].after = n THEN lost'[i].sqes ELSE <<>>]
           R == [after : 0 .. Len(threads), sqes : Seq(Sqe)]
           x == IF n = Len(threads) THEN batch ELSE <<>>
<1>1. lost' = Append(lost, e)
  BY DEF SpawnFails
<1>2. lost \in Seq(R) /\ k \in Nat
  BY LostFacts DEF SysInv, SysTypeOK
<1>3. e.after = Len(threads) /\ e.sqes = batch
  OBVIOUS
<1> HIDE DEF e, R
<1>4. /\ lost' \in Seq(R \cup {e}) /\ Len(lost') = k + 1 /\ lost'[k + 1] = e
      /\ \A i \in 1 .. k : lost'[i] = lost[i]
  BY <1>1, <1>2, AppendAny
<1>5. DOMAIN lost' = 1 .. k + 1 /\ DOMAIN lost = 1 .. k
  BY <1>4, LostFacts
<1>6. (\A i \in 1 .. k : t[i] = s[i]) /\ t[k + 1] = x
  <2>1. k + 1 \in 1 .. k + 1 /\ \A i \in 1 .. k : i \in 1 .. k + 1
    BY <1>2
  <2> QED
    BY <1>3, <1>4, <1>5, <2>1
<1>7. LostAfter(n) = Concat(s, k) /\ LostAfter(n)' = Concat(t, k + 1)
  BY <1>4 DEF LostAfter
<1> HIDE DEF k, s, t, x
<1>8. Concat(t, k + 1) = Concat(t, k) \o t[k + 1] /\ Concat(t, k) = Concat(s, k)
  BY <1>2, <1>6, ConcatStep, ConcatSame
<1> QED
  BY <1>6, <1>7, <1>8 DEF x

LEMMA LostSpawnFails ==
    ASSUME SysInv, [SysNext]_sysVars, SpawnFails
    PROVE  NothingLost'
<1> DEFINE L == Len(threads)
           g == Concat(Given, L)
           a == LostAfter(L)
           c == g \o a
<1>1. /\ k_pc = "spawn" /\ k_pc' = "idle" /\ UNCHANGED <<taken, threads>>
  BY DEF SpawnFails, HandOver
<1>2. batch \in Seq(Sqe) /\ taken = g \o a \o batch
  BY <1>1, BatchIsSequence DEF SysInv, NothingLost
<1>3. g \in Seq(Sqe) /\ a \in Seq(Sqe)
  BY GivenType, LostType
<1>4. \A b \in 1 .. L : LostAfter(b - 1)' = LostAfter(b - 1)
  <2> TAKE b \in 1 .. L
  <2> DEFINE n == b - 1
  <2>1. n # Len(threads)
    BY SysFacts
  <2> HIDE DEF n
  <2>2. LostAfter(n)' = LostAfter(n) \o <<>> /\ LostAfter(n) \in Seq(Sqe)
    BY <2>1, LostMore, LostType
  <2>3. LostAfter(n)' = LostAfter(n)
    BY <2>2, ConcatEmptySeq
  <2> QED
    BY <2>3 DEF n
<1>5. Concat(Given', L) = g
  BY <1>4, GivenStable
<1>6. LostAfter(L)' = a \o batch
  <2>1. \A n : n = L => LostAfter(n)' = LostAfter(n) \o batch
    BY LostMore
  <2>2. \A n : n = L => LostAfter(L)' = LostAfter(n)'
    BY <1>1 DEF LostAfter
  <2> QED
    BY <2>1, <2>2
<1>7. Concat(Given', Len(threads')) = g
  BY <1>1, <1>5
<1> HIDE DEF g, a, L
<1>8. g \o (a \o batch) = (g \o a) \o batch /\ a \o batch \in Seq(Sqe)
  BY <1>2, <1>3, ConcatAssociative, ConcatProperties
<1>9. g \o (a \o batch) \in Seq(Sqe)
  BY <1>3, <1>8, ConcatProperties
<1>10. (g \o (a \o batch)) \o <<>> = g \o (a \o batch)
  BY <1>9, ConcatEmptySeq
<1>11. taken' = g \o (a \o batch) \o <<>>
  BY <1>1, <1>2, <1>8, <1>10
<1> QED
  BY <1>1, <1>6, <1>7, <1>11 DEF NothingLost, L

LEMMA LostSpawn ==
    ASSUME SysInv, [SysNext]_sysVars, SpawnBatch
    PROVE  NothingLost'
<1> DEFINE L == Len(threads)
           g == Concat(Given, L)
           a == LostAfter(L)
           t == Given'
<1>1. /\ k_pc = "spawn" /\ k_pc' = "idle" /\ UNCHANGED <<taken, lost>> /\ Spawn(batch)
  BY DEF SpawnBatch, HandOver, faultVars
<1>2. batch \in Seq(Sqe) /\ IsSequence(batch) /\ taken = g \o a \o batch /\ DispatchInv
  BY <1>1, BatchIsSequence DEF SysInv, NothingLost
<1>3. g \in Seq(Sqe) /\ a \in Seq(Sqe) /\ L \in Nat
  BY GivenType, LostType, SysFacts
<1>4. /\ Len(threads') = L + 1
      /\ threads'[L + 1] = NewThread(batch)
  BY <1>1, <1>2, SpawnKeeps
<1>5. L + 1 \in DOMAIN threads' /\ threads'[L + 1].sqes = batch
  <2>1. NewThread(batch).sqes = batch
    BY DEF NewThread
  <2> QED
    BY <1>3, <1>4, <2>1, ThreadsGrow
<1>6. \A n : LostAfter(n)' = LostAfter(n)
  BY <1>1 DEF LostAfter
<1>7. Concat(t, L) = g
  BY <1>6, GivenStable
<1>8. t[L + 1] = a \o batch
  <2>1. PICK m : m = L + 1
    OBVIOUS
  <2>2. \A b \in DOMAIN threads' : t[b] = LostAfter(b - 1)' \o threads'[b].sqes
    BY DEF Given
  <2>3. m \in DOMAIN threads' /\ threads'[m].sqes = batch /\ m - 1 = L
    BY <1>3, <1>5, <2>1
  <2>4. t[m] = LostAfter(m - 1)' \o batch
    BY <2>2, <2>3
  <2>5. LostAfter(m - 1)' = LostAfter(m - 1) /\ LostAfter(m - 1) = a
    BY <1>6, <2>3
  <2> QED
    BY <2>1, <2>4, <2>5
<1>9. LostAfter(Len(threads))' = <<>>
  <2>1. PICK n : n = L + 1
    OBVIOUS
  <2>2. n \notin 0 .. Len(threads) /\ n = Len(threads')
    BY <1>3, <1>4, <2>1
  <2>3. LostAfter(n)' = <<>>
    BY <1>6, <2>2, LostType
  <2>4. LostAfter(Len(threads))' = LostAfter(n)'
    BY <2>2 DEF LostAfter
  <2> QED
    BY <2>3, <2>4
<1> HIDE DEF g, a, t, L
<1>10. Concat(t, L + 1) = g \o (a \o batch)
  BY <1>3, <1>7, <1>8, ConcatStep
<1>11. g \o (a \o batch) = (g \o a) \o batch /\ a \o batch \in Seq(Sqe)
  BY <1>2, <1>3, ConcatAssociative, ConcatProperties
<1> DEFINE c == g \o (a \o batch)
<1>12. c \in Seq(Sqe)
  BY <1>3, <1>11, ConcatProperties
<1>13. taken' = c /\ Concat(Given', Len(threads')) = c
  BY <1>1, <1>2, <1>4, <1>10, <1>11 DEF t
<1> HIDE DEF c
<1>14. c \o <<>> \o <<>> = c
  BY <1>12, ConcatEmptySeq
<1> QED
  BY <1>1, <1>9, <1>13, <1>14 DEF NothingLost

LEMMA NothingLostKept == SysInv /\ [SysNext]_sysVars => NothingLost'
<1> SUFFICES ASSUME SysInv, [SysNext]_sysVars PROVE NothingLost'
  OBVIOUS
<1>1. CASE SpawnBatch
  BY <1>1, LostSpawn
<1>2. CASE SpawnFails
  BY <1>2, LostSpawnFails
<1>3. CASE /\ lost' = lost /\ Len(threads') = Len(threads)
           /\ \/ UNCHANGED <<taken, InHand>>
              \/ InHand = <<>> /\ taken' = taken \o InHand' /\ InHand' \in Seq(Sqe)
  BY <1>3, LostUntouched
<1>4. ASSUME lost' = lost, threads' = threads, UNCHANGED sqVars
      PROVE  NothingLost'
  <2>1. UNCHANGED <<taken, InHand>>
    BY <1>4 DEF InHand, sqVars, kernelVars
  <2> QED
    BY <1>3, <1>4, <2>1
<1>5. ASSUME NEW w \in Wants, CallSubmit(w) \/ \E n \in EnterCounts : CallEnter(n, w)
      PROVE  NothingLost'
  <2>1. /\ k_pc = "idle" /\ k_pc' = "load" /\ UNCHANGED <<taken, lost, threads>>
    BY <1>5 DEF CallSubmit, CallEnter, StartSubmit, Submit, Enter, StartEnqueue, faultVars
  <2> QED
    BY <1>3, <2>1 DEF InHand
<1>6. CASE EnqueueStep
  <2>1. UNCHANGED <<lost, threads>>
    BY <1>6 DEF EnqueueStep, callVars, faultVars
  <2>2. CASE LoadIndices \/ ReadSqe
    <3>1. taken' = taken /\ k_pc # "spawn" /\ k_pc' # "spawn"
      BY <2>2 DEF LoadIndices, ReadSqe
    <3> QED
      BY <1>3, <2>1, <3>1 DEF InHand
  <2>3. CASE StoreHead
    <3>1. k_pc = "read" /\ k_pc' = "spawn" /\ taken' = taken \o batch /\ batch' = batch
      BY <2>3 DEF StoreHead
    <3>2. batch \in Seq(Sqe)
      BY <3>1, CopiedBatch DEF SysInv
    <3> QED
      BY <1>3, <2>1, <3>1, <3>2 DEF InHand
  <2> QED
    BY <1>6, <2>2, <2>3 DEF EnqueueStep
<1>7. ASSUME lost' = lost, threads' = threads, SqUser
      PROVE  NothingLost'
  <2>1. UNCHANGED <<taken, k_pc, batch>>
    BY <1>7 DEF SqUser, SqHandle, SqBorrow, Push, PushMultiple, StartPush, PushUnchecked,
                SqSyncStore, SqSyncLoad, SqDrop, kernelVars
  <2> QED
    BY <1>3, <1>7, <2>1 DEF InHand
<1>8. CASE PushThread \/ FinishSplit
  BY <1>7, <1>8 DEF PushThread, FinishSplit, SqUser, callVars, faultVars
<1>9. CASE CallCompletion \/ CallSplit \/ CallDrop
  BY <1>4, <1>9 DEF CallCompletion, CallSplit, CallDrop, StartCall, faultVars
<1>10. CASE FinishSubmit \/ Unwound \/ FinishWait \/ FinishCompletion
  BY <1>4, <1>10 DEF FinishSubmit, Unwound, FinishWait, FinishCompletion, faultVars
<1>11. CASE JoinBatch \/ FlushPanics \/ SkipResult \/ PostResult \/ PostStep
  BY <1>4, <1>11 DEF JoinBatch, FlushPanics, SkipResult, PostResult, PostStep, callVars, faultVars
<1>12. CASE JoinOnDrop \/ FreeMemory \/ ReapThread
  BY <1>4, <1>12 DEF JoinOnDrop, FreeMemory, ReapThread, callVars, faultVars
<1>13. ASSUME NEW b \in DOMAIN threads, DispatchThread(b) \/ PanickingThread(b)
       PROVE  NothingLost'
  <2>1. DispatchInv /\ (DispatchStep(b) \/ ThreadPanics(b)) /\ UNCHANGED sqVars /\ lost' = lost
    BY <1>13 DEF DispatchThread, PanickingThread, SysInv, callVars, faultVars
  <2>2. Len(threads') = Len(threads)
    BY <2>1, StepKeeps
  <2>3. UNCHANGED <<taken, InHand>>
    BY <2>1 DEF InHand, sqVars, kernelVars
  <2> QED
    BY <1>3, <2>1, <2>2, <2>3
<1>14. CASE Gone \/ UNCHANGED sysVars
  BY <1>4, <1>14 DEF Gone, sysVars, callVars, faultVars
<1> QED
  BY <1>1, <1>2, <1>5, <1>6, <1>8, <1>9, <1>10, <1>11, <1>12, <1>13, <1>14
     DEF SysNext, CallStep
-----------------------------------------------------------------------------
(* The invariant *)

LEMMA SysInitially == SysInit => SysInv
<1> SUFFICES ASSUME SysInit PROVE SysInv
  OBVIOUS
<1>1. SqInv /\ CqInv
  BY SqInvInit, CqInvInit DEF SysInit
<1>2. /\ threads = <<>> /\ pending = <<>> /\ op = "none" /\ want = 0 /\ results = <<>>
      /\ freed = FALSE /\ detached = {} /\ resolved = <<>> /\ lost = <<>>
      /\ k_pc = "idle" /\ taken = <<>> /\ p_pc = "idle" /\ posted = <<>> /\ dropped = <<>>
  BY DEF SysInit, DispatchInit, SqInit, CqInit
<1>3. Len(<<>>) = 0 /\ DOMAIN <<>> = {} /\ \A S : <<>> \in Seq(S)
  OBVIOUS
<1>4. \A s : Concat(s, 0) = <<>>
  BY ConcatStep
<1>5. <<>> \o <<>> = <<>>
  OBVIOUS
<1>6. DispatchInv
  BY <1>2, <1>3 DEF DispatchInv, IsSequence
<1>7. SysTypeOK
  BY <1>1, <1>2, <1>3 DEF SysTypeOK, SqInv, CqInv, Calls
<1>8. SysControl
  BY <1>2 DEF SysControl
<1>9. SysHandles
  BY <1>2, <1>3 DEF SysHandles, Joined
<1>10. SysAccount
  <2>1. Joined = 0 /\ 0 \in 0 .. Joined
    BY <1>2, <1>3 DEF Joined
  <2>2. resolved \o ToPost(results) = Concat(OwedBy, 0)
    BY <1>2, <1>4, <1>5, EmptyToPost
  <2>3. IsSequence(results) /\ \A i \in DOMAIN results : CqeOf(results[i]) \in Cqe
    BY <1>2, <1>3 DEF IsSequence
  <2> QED
    BY <2>1, <2>2, <2>3 DEF SysAccount
<1>11. SysPosted
  <2>1. Settled = 0
    BY <1>2, <1>3 DEF Settled
  <2>2. \A S : Pick(<<>>, S) = <<>>
    BY <1>3, <1>4 DEF Pick
  <2>3. {} \in SUBSET (1 .. Settled)
    OBVIOUS
  <2>4. posted = Pick(resolved, {}) /\ dropped = Pick(resolved, (1 .. Settled) \ {})
    BY <1>2, <2>2
  <2>5. PostedOrDropped
    BY <2>3, <2>4 DEF PostedOrDropped
  <2> QED
    BY <1>2, <1>3, <2>1, <2>5 DEF SysPosted
<1>12. NothingLost
  <2>1. LostAfter(Len(threads)) = <<>> /\ Concat(Given, Len(threads)) = <<>>
    BY <1>2, <1>3, <1>4 DEF LostAfter
  <2> QED
    BY <1>2, <1>5, <2>1 DEF NothingLost
<1> QED
  BY <1>1, <1>6, <1>7, <1>8, <1>9, <1>10, <1>11, <1>12 DEF SysInv

LEMMA SysInvStep == SysInv /\ [SysNext]_sysVars => SysInv'
<1> SUFFICES ASSUME SysInv, [SysNext]_sysVars PROVE SysInv'
  OBVIOUS
<1>1. SqInv' /\ CqInv' /\ DispatchInv'
  BY RingsKeepInv, ThreadsGrow
<1> QED
  BY <1>1, TypesKept, ControlKept, HandlesKept, AccountKept, PostedKept, NothingLostKept
     DEF SysInv

(* The inductive invariant of the whole ring: who may be where in a call,  *)
(* which handles are pending, what has been posted of what the threads     *)
(* owe, and where each SQE that was consumed is.                           *)
THEOREM SysInvariance == SysSpec => []SysInv
  BY SysInitially, SysInvStep, PTL DEF SysSpec

(* Type correctness of the composed state. *)
THEOREM SysTypeCorrect == SysSpec => []SysTypeOK
<1>1. SysInv => SysTypeOK
  BY DEF SysInv
<1> QED
  BY <1>1, SysInvariance, PTL

(* Every SQE enqueue_sqes took from the ring went to exactly one dispatch  *)
(* thread, in order, or is in hand, or was lost when thread::spawn failed. *)
THEOREM NoSqeLost == SysSpec => []NothingLost
<1>1. SysInv => NothingLost
  BY DEF SysInv
<1> QED
  BY <1>1, SysInvariance, PTL

(* A thread that still runs is in RingState.pending, where flush_pending   *)
(* and the drop wait for it, or has been detached by a flush that met the  *)
(* panic of one before it.                                                 *)
THEOREM ThreadsWaitedFor == SysSpec => []RunningIsPending
<1>1. SysInv => RunningIsPending
  <2> SUFFICES ASSUME SysInv, NEW b \in DOMAIN threads, ~Ended(threads[b])
               PROVE  \/ ~freed /\ \E i \in DOMAIN pending : pending[i] = b
                      \/ b \in detached /\ \E c \in 1 .. b - 1 : threads[c].panicked
    BY DEF RunningIsPending
  <2> DEFINE f == Joined
             i == b - f
  <2>1. /\ DOMAIN threads = 1 .. Len(threads) /\ Len(threads) \in Nat
        /\ Len(pending) \in Nat /\ DOMAIN pending = 1 .. Len(pending)
        /\ f \in Nat /\ f + Len(pending) = Len(threads)
        /\ \A j \in 1 .. Len(pending) : pending[j] = f + j
    BY SysFacts
  <2>2. /\ \A c \in 1 .. f : Ended(threads[c]) \/ c \in detached
        /\ \A c \in detached : \E d \in 1 .. c - 1 : threads[d].panicked
    BY DEF SysInv, SysHandles
  <2> HIDE DEF f
  <2>3. CASE b <= f
    BY <2>1, <2>2, <2>3
  <2>4. CASE ~(b <= f)
    <3>1. i \in 1 .. Len(pending) /\ f + i = b
      BY <2>1, <2>4
    <3>2. pending[i] = b /\ i \in DOMAIN pending
      BY <2>1, <3>1
    <3>3. ~freed
      BY <2>1, <3>1 DEF SysInv, SysControl
    <3> QED
      BY <3>2, <3>3
  <2> QED
    BY <2>3, <2>4
<1> QED
  BY <1>1, SysInvariance, PTL

-----------------------------------------------------------------------------
(* End to end *)

LEMMA ToPostType ==
    ASSUME NEW rs, IsSequence(rs), \A i \in DOMAIN rs : CqeOf(rs[i]) \in Cqe
    PROVE  ToPost(rs) \in Seq(Cqe)
<1>1. CASE rs = <<>>
  <2>1. <<>> \in Seq(Cqe)
    OBVIOUS
  <2> QED
    BY <1>1, <2>1, EmptyToPost
<1>2. CASE rs # <<>>
  <2> DEFINE x == OnlyIf(Posts(Head(rs)), CqeOf(Head(rs)))
             q == ToPost(Tail(rs))
  <2>1. ToPost(rs) = x \o q /\ CqeOf(Head(rs)) \in Cqe /\ q \in Seq(Cqe)
    BY <1>2, ToPostHead
  <2>2. x \in Seq(Cqe)
    BY <2>1, OnlyIfType
  <2> HIDE DEF x, q
  <2> QED
    BY <2>1, <2>2, ConcatProperties
<1> QED
  BY <1>1, <1>2

(* A sequence is a prefix of its concatenation with another. *)
LEMMA ConcatPrefix ==
    ASSUME NEW S, NEW r \in Seq(S), NEW v \in Seq(S), NEW o, o = r \o v
    PROVE  /\ Len(r) <= Len(o)
           /\ \A i \in 1 .. Len(r) : r[i] = o[i]
           /\ o \in Seq(S)
  BY ConcatProperties

(* What has been handed to post_cqe is a prefix of what is owed. *)
LEMMA ResolvedIsOwed ==
    ASSUME SysInv
    PROVE  /\ Len(resolved) <= Len(Owed)
           /\ \A i \in 1 .. Len(resolved) : resolved[i] = Owed[i]
<1> DEFINE L == Len(threads)
           q == ToPost(results)
           s == OwedBy
<1>1. PICK n \in 0 .. Joined : AccountAt(n)
  BY AccountParts
<1>2. n \in Nat /\ L \in Nat /\ n <= L
  BY <1>1, SysFacts
<1> DEFINE k == L - n
           t == [i \in 1 .. k |-> s[n + i]]
<1>3. k \in Nat /\ n + k = L
  BY <1>2
<1>4. \A i \in 1 .. n + k : s[i] \in Seq(Cqe)
  BY <1>3, OwedByType
<1>5. resolved \in Seq(Cqe) /\ q \in Seq(Cqe)
  BY AccountParts, ToPostType
<1>6. resolved \o q = Concat(s, n)
  BY <1>1 DEF AccountAt
<1>7. Owed = Concat(s, L)
  BY DEF Owed
<1> HIDE DEF s, k, q
<1>8. \A i \in 1 .. k : t[i] = s[n + i]
  OBVIOUS
<1> HIDE DEF t, L
<1>9. SplitsAt(s, t, n, k) /\ Concat(t, k) \in Seq(Cqe)
  BY <1>2, <1>3, <1>4, <1>8, ConcatSplit
<1> DEFINE v == Concat(t, k)
           w == q \o v
<1>10. Owed = (resolved \o q) \o v
  BY <1>3, <1>6, <1>7, <1>9 DEF SplitsAt
<1>11. v \in Seq(Cqe)
  BY <1>9
<1> HIDE DEF v
<1>12. w \in Seq(Cqe) /\ (resolved \o q) \o v = resolved \o w
  BY <1>5, <1>11, ConcatProperties, ConcatAssociative
<1> HIDE DEF w
<1>13. Owed = resolved \o w
  BY <1>10, <1>12
<1> QED
  BY <1>5, <1>12, <1>13, ConcatPrefix

(* The completions handed to post_cqe are those the submitted operations   *)
(* owe, in submission order although the batches run concurrently; each is *)
(* in the ring or counted as dropped, and the user reaps the former in     *)
(* order.                                                                  *)
THEOREM CompletedOnce == SysSpec => []CompletesOnce
<1>1. SysInv => CompletesOnce
  <2> SUFFICES ASSUME SysInv PROVE CompletesOnce
    OBVIOUS
  <2>1. DOMAIN resolved = 1 .. Len(resolved)
    BY PostedFacts
  <2>2. \A i \in DOMAIN reaped : reaped[i] = posted[i]
    <3>1. reaped \in Seq(Cqe) /\ CqReaped
      BY DEF SysInv, CqInv, CqTypeOK
    <3> QED
      BY <3>1 DEF CqReaped
  <2> QED
    BY <2>1, <2>2, ResolvedIsOwed, PostedFacts DEF CompletesOnce
<1> QED
  BY <1>1, SysInvariance, PTL

(* The step that ends a flush. *)
LEMMA FlushEnds ==
    ASSUME SysInv, [SysNext]_sysVars, op \in {"wait", "completion", "split"}, op' = "none"
    PROVE  /\ FlushDone
           /\ UNCHANGED <<threads, detached, resolved, posted, dropped, reaped>>
           /\ op # "wait" => ~c_open /\ c_tail' = cq_tail /\ c_head' = cq_head
<1>1. CASE FinishWait
  BY <1>1 DEF FinishWait, faultVars, cqVars, overflowVars
<1>2. CASE FinishCompletion \/ FinishSplit
  BY <1>2 DEF FinishCompletion, FinishSplit, CqBorrow, faultVars, overflowVars
<1>3. ASSUME NEW w \in Wants, CallSubmit(w) \/ \E n \in EnterCounts : CallEnter(n, w)
      PROVE  FALSE
  BY <1>3 DEF CallSubmit, CallEnter, StartSubmit
<1>4. ~(CallCompletion \/ CallSplit \/ CallDrop)
  BY DEF CallCompletion, CallSplit, CallDrop, StartCall
<1>5. ~(EnqueueStep \/ PostStep \/ PushThread \/ ReapThread)
  BY DEF EnqueueStep, PostStep, PushThread, ReapThread, callVars
<1>6. ~(FinishSubmit \/ Unwound \/ JoinOnDrop \/ FreeMemory)
  BY DEF FinishSubmit, Unwound, JoinOnDrop, FreeMemory
<1>7. ~(SpawnBatch \/ SpawnFails \/ JoinBatch \/ FlushPanics \/ SkipResult \/ PostResult)
  BY DEF SpawnBatch, SpawnFails, JoinBatch, FlushPanics, SkipResult, PostResult
<1>8. ASSUME NEW b \in DOMAIN threads, DispatchThread(b) \/ PanickingThread(b) PROVE FALSE
  BY <1>8 DEF DispatchThread, PanickingThread, callVars
<1>9. ~(Gone \/ UNCHANGED sysVars)
  BY DEF Gone, sysVars, callVars
<1> QED
  BY <1>1, <1>2, <1>3, <1>4, <1>5, <1>6, <1>7, <1>8, <1>9 DEF SysNext, CallStep

(* What completion(), split() and submit_and_wait(n > 0) have achieved     *)
(* when they return: all that was consumed is completed, and a             *)
(* CompletionQueue they hand out sees every completion in the ring.        *)
THEOREM FlushCompletes == SysSpec => FlushIsComplete
<1>1. ASSUME SysInv, [SysNext]_sysVars, op \in {"wait", "completion", "split"}, op' = "none"
      PROVE  /\ resolved' = Owed'
             /\ Len(resolved') = Len(posted') + Len(dropped')
             /\ op # "wait" => Len(reaped') + WrappingSub(c_tail', c_head') = Len(posted')
  <2>1. /\ FlushDone
        /\ UNCHANGED <<threads, detached, resolved, posted, dropped, reaped>>
        /\ op # "wait" => ~c_open /\ c_tail' = cq_tail /\ c_head' = cq_head
    BY <1>1, FlushEnds
  <2>2. Flushing /\ p_pc = "idle" /\ results = <<>> /\ pending = <<>>
    BY <2>1 DEF FlushDone, AtFlushLoop
  <2>3. AccountAt(Joined) /\ Joined = Len(threads)
    <3>1. Len(pending) = 0
      BY <2>2
    <3> QED
      BY <1>1, <2>2, <3>1, FlushAccount, SysFacts
  <2>4. resolved = Owed
    <3>1. resolved \o ToPost(<<>>) = Owed
      BY <2>2, <2>3 DEF AccountAt, Owed
    <3>2. resolved \o <<>> = resolved
      BY <1>1, AccountParts, ConcatEmptySeq
    <3> QED
      BY <3>1, <3>2, EmptyToPost
  <2>5. resolved' = Owed'
    BY <2>1, <2>4 DEF Owed, OwedBy
  <2>6. Len(resolved') = Len(posted') + Len(dropped')
    BY <1>1, <2>1, <2>2, PostedFacts DEF Settled
  <2>7. ASSUME op # "wait"
        PROVE  Len(reaped') + WrappingSub(c_tail', c_head') = Len(posted')
    <3>1. reaped \in Seq(Cqe) /\ cq_tail \in U32 /\ cq_head \in U32 /\ CqContents
      BY <1>1 DEF SysInv, CqInv, CqTypeOK
    <3>2. Unreleased = 0
      BY <2>1, <2>7 DEF Unreleased
    <3>3. Len(reaped) \in Nat
      BY <3>1
    <3>4. Len(posted) = Len(reaped) + WrappingSub(cq_tail, cq_head)
      BY <3>1, <3>2, <3>3 DEF CqContents
    <3> QED
      BY <2>1, <2>7, <3>4
  <2> QED
    BY <2>5, <2>6, <2>7
<1>2. SysInv /\ [SysNext]_sysVars =>
         [(op \in {"wait", "completion", "split"} /\ op' = "none") =>
             /\ resolved' = Owed'
             /\ Len(resolved') = Len(posted') + Len(dropped')
             /\ op # "wait" => Len(reaped') + WrappingSub(c_tail', c_head') = Len(posted')
         ]_sysVars
  BY <1>1
<1> QED
  BY <1>2, SysInvariance, PTL DEF SysSpec, FlushIsComplete

-----------------------------------------------------------------------------
(* The ring as an executor: what the pending threads will complete with,   *)
(* behind what the flush under way has still to post.                      *)

PendingOwes ==
    [i \in DOMAIN pending |-> BatchCompletions(threads[pending[i]].sqes)]

StillOwed == ToPost(results) \o Concat(PendingOwes, Len(pending))

LEMMA OutstandingIs ==
    /\ Outstanding = IF op = "drop" \/ freed THEN <<>> ELSE StillOwed
    /\ Outstanding' = IF op' = "drop" \/ freed' THEN <<>> ELSE StillOwed'
  BY DEF Outstanding, StillOwed, PendingOwes

LEMMA PendingOwesType ==
    ASSUME SysInv
    PROVE  /\ \A i \in 1 .. Len(pending) : PendingOwes[i] \in Seq(Cqe)
           /\ Len(pending) \in Nat
           /\ Concat(PendingOwes, Len(pending)) \in Seq(Cqe)
           /\ ToPost(results) \in Seq(Cqe)
<1>1. \A i \in 1 .. Len(pending) : PendingOwes[i] \in Seq(Cqe)
  <2> TAKE i \in 1 .. Len(pending)
  <2>1. i \in DOMAIN pending /\ pending[i] \in DOMAIN threads
    BY SysFacts, ElementOfSeq
  <2>2. threads[pending[i]].sqes \in Seq(Sqe)
    BY <2>1 DEF SysInv, SysTypeOK
  <2>3. PendingOwes[i] = BatchCompletions(threads[pending[i]].sqes)
    BY <2>1 DEF PendingOwes
  <2> QED
    BY <2>2, <2>3, BatchCompletionsType
<1>2. Len(pending) \in Nat
  BY SysFacts
<1> QED
  BY <1>1, <1>2, ConcatType, AccountParts, ToPostType

(* Threads keep their batches, so what they will complete with is settled  *)
(* when they are spawned.                                                  *)
LEMMA StillOwedStable ==
    ASSUME SysInv, [SysNext]_sysVars, UNCHANGED <<pending, results>>
    PROVE  StillOwed' = StillOwed
<1> DEFINE s == PendingOwes
           t == PendingOwes'
           n == Len(pending)
<1>1. n \in Nat /\ DOMAIN pending = 1 .. n
  BY SysFacts
<1>2. \A i \in 1 .. n : t[i] = s[i]
  <2> TAKE i \in 1 .. n
  <2>1. i \in DOMAIN pending /\ pending[i] \in DOMAIN threads
    BY SysFacts, ElementOfSeq
  <2>2. threads'[pending[i]].sqes = threads[pending[i]].sqes
    BY <2>1, ThreadsGrow
  <2>3. s[i] = BatchCompletions(threads[pending[i]].sqes)
    BY <2>1 DEF PendingOwes
  <2>4. t[i] = BatchCompletions(threads'[pending[i]].sqes)
    BY <2>1 DEF PendingOwes
  <2> QED
    BY <2>2, <2>3, <2>4
<1> HIDE DEF s, t
<1>3. Concat(t, n) = Concat(s, n)
  BY <1>1, <1>2, ConcatSame
<1> QED
  BY <1>3 DEF StillOwed, s, t

(* The first pending thread is joined: its completions pass from the       *)
(* pending ones to the ones at hand.                                       *)
LEMMA StillOwedJoin ==
    ASSUME SysInv, [SysNext]_sysVars, JoinBatch
    PROVE  StillOwed' = StillOwed
<1> DEFINE s == PendingOwes
           t == PendingOwes'
           k == Len(pending) - 1
           h == threads[Head(pending)]
           x == ToPost(h.results)
<1>1. /\ results = <<>> /\ pending # <<>> /\ Finished(h) /\ results' = h.results
      /\ pending' = Tail(pending) /\ threads' = threads
  BY DEF JoinBatch
<1>2. /\ Len(pending) = k + 1 /\ k \in Nat /\ DOMAIN pending = 1 .. k + 1
      /\ Head(pending) \in DOMAIN threads /\ Head(pending) = pending[1]
      /\ Len(pending') = k /\ DOMAIN pending' = 1 .. k
      /\ \A i \in 1 .. k : pending'[i] = pending[i + 1]
  BY <1>1, FrontHandle, SysFacts
<1>3. x = BatchCompletions(h.sqes)
  <2>1. ThreadInv(h) /\ h.sqes \in Seq(Sqe)
    BY <1>2 DEF SysInv, SysTypeOK, DispatchInv
  <2> QED
    BY <1>1, <2>1, ToPostOfThread
<1> HIDE DEF k, x
<1>4. s[1] = x
  <2>1. 1 \in DOMAIN pending
    BY <1>2
  <2> QED
    BY <1>2, <1>3, <2>1 DEF PendingOwes
<1>5. \A i \in 1 .. k : t[i] = s[i + 1]
  <2> TAKE i \in 1 .. k
  <2>1. i \in DOMAIN pending' /\ i + 1 \in DOMAIN pending
    BY <1>2
  <2>2. t[i] = BatchCompletions(threads'[pending'[i]].sqes)
    BY <2>1 DEF PendingOwes
  <2>3. s[i + 1] = BatchCompletions(threads[pending[i + 1]].sqes)
    BY <2>1 DEF PendingOwes
  <2> QED
    BY <1>1, <1>2, <2>2, <2>3
<1>6. \A i \in 1 .. k + 1 : s[i] \in Seq(Cqe)
  BY <1>2, PendingOwesType
<1>7. StillOwed = <<>> \o Concat(s, k + 1) /\ StillOwed' = x \o Concat(t, k)
  BY <1>1, <1>2, EmptyToPost DEF StillOwed, x
<1> HIDE DEF s, t
<1>8. Concat(s, k + 1) = s[1] \o Concat(t, k) /\ Concat(s, k + 1) \in Seq(Cqe)
  <2>1. k \in Nat /\ k + 1 \in Nat
    BY <1>2
  <2>2. Concat(s, k + 1) \in Seq(Cqe)
    BY <1>6, <2>1, ConcatType
  <2>3. Concat(s, k + 1) = s[1] \o Concat(t, k) /\ Concat(t, k) \in Seq(Cqe)
    BY <1>5, <1>6, <2>1, ConcatCons
  <2> QED
    BY <2>2, <2>3
<1>9. <<>> \o Concat(s, k + 1) = Concat(s, k + 1)
  BY <1>8, ConcatEmptySeq
<1> QED
  BY <1>4, <1>7, <1>8, <1>9

(* The result at the front is posted, or passed over. *)
LEMMA StillOwedFlush ==
    ASSUME SysInv, [SysNext]_sysVars, SkipResult \/ PostResult
    PROVE  /\ StillOwed' \in Seq(Cqe) /\ CqeOf(Head(results)) \in Cqe
           /\ SkipResult => StillOwed' = StillOwed
           /\ PostResult => StillOwed = <<CqeOf(Head(results))>> \o StillOwed'
<1> DEFINE x == CqeOf(Head(results))
           q == ToPost(Tail(results))
           c == Concat(PendingOwes, Len(pending))
           y == OnlyIf(Posts(Head(results)), x)
<1>1. /\ results # <<>> /\ results' = Tail(results) /\ UNCHANGED <<threads, pending>>
      /\ SkipResult => ~Posts(Head(results))
      /\ PostResult => Posts(Head(results))
  BY DEF SkipResult, PostResult, AfterSkip
<1>2. ToPost(results) = y \o q /\ x \in Cqe /\ q \in Seq(Cqe)
  BY <1>1, AccountParts, ToPostHead
<1>3. c \in Seq(Cqe) /\ y \in Seq(Cqe)
  BY <1>2, PendingOwesType, OnlyIfType
<1>4. StillOwed = (y \o q) \o c /\ StillOwed' = q \o c
  BY <1>1, <1>2 DEF StillOwed, PendingOwes
<1>5. (SkipResult => y = <<>>) /\ (PostResult => y = <<x>>)
  BY <1>1 DEF OnlyIf
<1> HIDE DEF x, q, c, y
<1>6. (y \o q) \o c = y \o (q \o c) /\ q \o c \in Seq(Cqe) /\ <<>> \o (q \o c) = q \o c
  BY <1>2, <1>3, ConcatAssociative, ConcatProperties, ConcatEmptySeq
<1>7. SkipResult => StillOwed' = StillOwed
  BY <1>4, <1>5, <1>6
<1>8. PostResult => StillOwed = <<x>> \o StillOwed'
  BY <1>4, <1>5, <1>6
<1> QED
  BY <1>2, <1>4, <1>6, <1>7, <1>8 DEF x

(* A new thread's completions go behind the others. *)
LEMMA StillOwedSpawn ==
    ASSUME SysInv, [SysNext]_sysVars, SpawnBatch
    PROVE  /\ StillOwed \in Seq(Cqe) /\ BatchCompletions(batch) \in Seq(Cqe)
           /\ StillOwed' = StillOwed \o BatchCompletions(batch)
<1> DEFINE s == PendingOwes
           t == PendingOwes'
           n == Len(pending)
           L == Len(threads)
           u == ToPost(results)
           x == BatchCompletions(batch)
<1>1. /\ pending' = Append(pending, L + 1) /\ results' = results /\ Spawn(batch)
      /\ batch \in Seq(Sqe) /\ IsSequence(batch) /\ DispatchInv
  BY BatchIsSequence DEF SpawnBatch, WithHandle, HandOver, SysInv
<1>2. /\ \A b \in DOMAIN threads : threads'[b] = threads[b]
      /\ threads'[L + 1] = NewThread(batch)
  BY <1>1, SpawnKeeps
<1>3. threads'[L + 1].sqes = batch
  <2>1. NewThread(batch).sqes = batch
    BY DEF NewThread
  <2> QED
    BY <1>2, <2>1
<1>4. /\ pending \in Seq(DOMAIN threads) /\ n \in Nat /\ DOMAIN pending = 1 .. n
  BY SysFacts
<1>5. /\ Len(pending') = n + 1 /\ DOMAIN pending' = 1 .. n + 1 /\ pending'[n + 1] = L + 1
      /\ \A i \in 1 .. n : pending'[i] = pending[i]
  <2> DEFINE e == L + 1
             D == DOMAIN threads
  <2> HIDE DEF e, D
  <2>1. /\ Append(pending, e) \in Seq(D \cup {e}) /\ Len(Append(pending, e)) = Len(pending) + 1
        /\ \A i \in 1 .. Len(pending) : Append(pending, e)[i] = pending[i]
        /\ Append(pending, e)[Len(pending) + 1] = e
    BY <1>4, AppendAny DEF D
  <2> QED
    BY <1>1, <2>1 DEF e
<1>6. \A i \in 1 .. n : t[i] = s[i]
  <2> TAKE i \in 1 .. n
  <2>1. i \in DOMAIN pending /\ pending[i] \in DOMAIN threads /\ i \in DOMAIN pending'
    BY <1>4, <1>5, ElementOfSeq
  <2>2. s[i] = BatchCompletions(threads[pending[i]].sqes)
    BY <2>1 DEF PendingOwes
  <2>3. t[i] = BatchCompletions(threads'[pending'[i]].sqes)
    BY <2>1 DEF PendingOwes
  <2> QED
    BY <1>2, <1>5, <2>1, <2>2, <2>3
<1>7. t[n + 1] = x
  <2>1. n + 1 \in DOMAIN pending'
    BY <1>4, <1>5
  <2>2. t[n + 1] = BatchCompletions(threads'[pending'[n + 1]].sqes)
    BY <2>1 DEF PendingOwes
  <2> QED
    BY <1>3, <1>5, <2>2
<1>8. x \in Seq(Cqe) /\ u \in Seq(Cqe) /\ Concat(s, n) \in Seq(Cqe)
  BY <1>1, BatchCompletionsType, PendingOwesType
<1>9. StillOwed = u \o Concat(s, n) /\ StillOwed' = u \o Concat(t, n + 1)
  BY <1>1, <1>5 DEF StillOwed
<1> HIDE DEF s, t, n, u, x
<1>10. Concat(t, n + 1) = Concat(s, n) \o x
  <2>1. Concat(t, n) = Concat(s, n)
    BY <1>4, <1>6, ConcatSame
  <2> QED
    BY <1>4, <1>7, <2>1, ConcatStep
<1> DEFINE c == Concat(s, n)
<1>11. c \in Seq(Cqe)
  BY <1>8
<1>12. StillOwed = u \o c /\ StillOwed' = u \o (c \o x)
  BY <1>9, <1>10
<1> HIDE DEF c
<1>13. u \in Seq(Cqe) /\ c \in Seq(Cqe) /\ x \in Seq(Cqe)
  BY <1>8, <1>11
<1>14. (u \o c) \o x = u \o (c \o x)
  BY <1>13, ConcatAssociative
<1>15. u \o c \in Seq(Cqe)
  BY <1>13, ConcatProperties
<1> QED
  BY <1>8, <1>12, <1>14, <1>15 DEF x

LEMMA FrontOfCons ==
    ASSUME NEW S, NEW x \in S, NEW v \in Seq(S), NEW o, o = <<x>> \o v
    PROVE  o # <<>> /\ Head(o) = x /\ Tail(o) = v
<1> DEFINE y == <<x>>
<1>1. y \in Seq(S) /\ Len(y) = 1 /\ y[1] = x
  OBVIOUS
<1>2. o = y \o v
  OBVIOUS
<1> HIDE DEF y
<1>3. /\ o \in Seq(S) /\ Len(o) = Len(y) + Len(v) /\ Len(v) \in Nat
      /\ \A i \in 1 .. Len(o) : o[i] = IF i <= Len(y) THEN y[i] ELSE v[i - Len(y)]
  BY <1>1, <1>2, ConcatProperties
<1>4. Len(o) = Len(v) + 1 /\ o[1] = x /\ \A i \in 1 .. Len(v) : o[i + 1] = v[i]
  BY <1>1, <1>3
<1>5. o # <<>>
  BY <1>3, <1>4
<1>6. /\ Head(o) = o[1] /\ Tail(o) \in Seq(S) /\ Len(Tail(o)) = Len(o) - 1
      /\ \A i \in 1 .. Len(Tail(o)) : Tail(o)[i] = o[i + 1]
  BY <1>3, <1>5, HeadTailProperties
<1>7. Tail(o) = v
  <2> DEFINE q == Tail(o)
  <2>1. q \in Seq(S) /\ Len(q) = Len(v) /\ \A i \in 1 .. Len(q) : q[i] = v[i]
    BY <1>3, <1>4, <1>6
  <2> HIDE DEF q
  <2>2. q = v
    BY <2>1, SeqEqual
  <2> QED
    BY <2>2 DEF q
<1> QED
  BY <1>4, <1>5, <1>6, <1>7

LEMMA ExecAccepts ==
    ASSUME SysInv, [SysNext]_sysVars, SpawnBatch
    PROVE  [Exec!Next]_<<Outstanding, resolved>>
<1> DEFINE o == StillOwed
           v == StillOwed'
           x == BatchCompletions(batch)
           z == 0
<1>1. k_pc = "spawn" /\ UNCHANGED <<op, freed, resolved>>
  BY DEF SpawnBatch, HandOver
<1>2. op # "drop" /\ ~freed
  BY <1>1 DEF SysInv, SysControl
<1>3. Outstanding = o /\ Outstanding' = v
  BY <1>1, <1>2, OutstandingIs
<1>4. o \in Seq(Cqe) /\ x \in Seq(Cqe) /\ v = o \o x
  BY StillOwedSpawn
<1> HIDE DEF o, v, x, z
<1>5. CASE x = <<>>
  <2>1. v = o
    BY <1>4, <1>5, ConcatEmptySeq
  <2> QED
    BY <1>1, <1>3, <2>1
<1>6. CASE x # <<>>
  <2>1. Len(o) \in Nat /\ Len(x) \in Nat /\ Len(x) # 0
    BY <1>4, <1>6, EmptySeq
  <2>2. v \in Seq(Cqe) /\ Len(v) = Len(o) + Len(x)
    BY <1>4, ConcatProperties
  <2>3. \A i \in 1 .. Len(o) : o[i] = v[i]
    BY <1>4, ConcatPrefix
  <2>4. o = Window(v, z, Len(o))
    <3>1. z \in Nat /\ z + Len(o) <= Len(v) /\ \A i \in 1 .. Len(o) : o[i] = v[z + i]
      BY <2>1, <2>2, <2>3 DEF z
    <3> QED
      BY <1>4, <2>1, <2>2, <3>1, IsWindow
  <2>5. o = SubSeq(v, 1, Len(o))
    <3>1. z + 1 = 1 /\ z + Len(o) = Len(o)
      BY <2>1 DEF z
    <3> QED
      BY <2>4, <3>1 DEF Window
  <2>6. Len(v) > Len(o)
    BY <2>1, <2>2
  <2>7. Exec!Accept
    BY <1>1, <1>3, <2>2, <2>5, <2>6 DEF Exec!Accept
  <2> QED
    BY <2>7 DEF Exec!Next
<1> QED
  BY <1>5, <1>6

LEMMA ExecDelivers ==
    ASSUME SysInv, [SysNext]_sysVars, PostResult
    PROVE  Exec!Deliver
<1> DEFINE o == StillOwed
           v == StillOwed'
           x == CqeOf(Head(results))
<1>1. Flushing /\ UNCHANGED <<op, freed>> /\ resolved' = Append(resolved, x)
  BY DEF PostResult, AtFlushLoop
<1>2. op # "drop" /\ ~freed
  BY <1>1, FlushAccount DEF Flushing
<1>3. Outstanding = o /\ Outstanding' = v
  BY <1>1, <1>2, OutstandingIs
<1>4. v \in Seq(Cqe) /\ x \in Cqe /\ o = <<x>> \o v
  BY StillOwedFlush
<1> HIDE DEF o, v, x
<1>5. o # <<>> /\ Head(o) = x /\ Tail(o) = v
  BY <1>4, FrontOfCons
<1> QED
  BY <1>1, <1>3, <1>5 DEF Exec!Deliver

LEMMA ExecStep == SysInv /\ [SysNext]_sysVars => [Exec!Next]_<<Outstanding, resolved>>
<1> SUFFICES ASSUME SysInv, [SysNext]_sysVars
             PROVE  [Exec!Next]_<<Outstanding, resolved>>
  OBVIOUS
<1>1. ASSUME Outstanding' = <<>>, resolved' = resolved
      PROVE  [Exec!Next]_<<Outstanding, resolved>>
  BY <1>1 DEF Exec!Next, Exec!GiveUp
<1>2. ASSUME op' = "drop" \/ freed', resolved' = resolved
      PROVE  [Exec!Next]_<<Outstanding, resolved>>
  <2>1. Outstanding' = <<>>
    BY <1>2 DEF Outstanding
  <2> QED
    BY <1>1, <1>2, <2>1
<1>3. ASSUME StillOwed' = StillOwed, resolved' = resolved, freed' = freed,
             op = "drop" => op' = "drop"
      PROVE  [Exec!Next]_<<Outstanding, resolved>>
  <2>1. CASE op' = "drop" \/ freed'
    BY <1>2, <1>3, <2>1
  <2>2. CASE ~(op' = "drop" \/ freed')
    <3>1. Outstanding = StillOwed
      BY <1>3, <2>2, OutstandingIs
    <3>2. Outstanding' = StillOwed'
      BY <2>2, OutstandingIs
    <3> QED
      BY <1>3, <3>1, <3>2
  <2> QED
    BY <2>1, <2>2
<1>4. CASE SpawnBatch
  BY <1>4, ExecAccepts
<1>5. CASE PostResult
  BY <1>5, ExecDelivers DEF Exec!Next
<1>6. CASE JoinBatch
  <2>1. UNCHANGED <<resolved, freed, op>>
    BY <1>6 DEF JoinBatch
  <2> QED
    BY <1>3, <1>6, <2>1, StillOwedJoin
<1>7. CASE SkipResult
  <2>1. UNCHANGED <<resolved, freed, op>>
    BY <1>7 DEF SkipResult
  <2> QED
    BY <1>3, <1>7, <2>1, StillOwedFlush
<1>8. CASE FlushPanics
  <2>1. results' = <<>> /\ pending' = <<>> /\ resolved' = resolved
    BY <1>8 DEF FlushPanics
  <2>2. StillOwed' = <<>>
    <3>1. ToPost(results') = <<>> /\ Len(pending') = 0
      BY <2>1, EmptyToPost
    <3>2. Concat(PendingOwes', 0) = <<>> /\ <<>> \o <<>> = <<>>
      BY ConcatStep
    <3> QED
      BY <3>1, <3>2 DEF StillOwed
  <2>3. Outstanding' = <<>>
    BY <2>2, OutstandingIs
  <2> QED
    BY <1>1, <2>1, <2>3
<1>9. CASE JoinOnDrop \/ FreeMemory
  <2>1. (op' = "drop" \/ freed') /\ resolved' = resolved
    BY <1>9 DEF JoinOnDrop, FreeMemory
  <2> QED
    BY <1>2, <2>1
<1>10. CASE SpawnFails
  <2>1. UNCHANGED <<pending, results, resolved, freed>> /\ k_pc = "spawn"
    BY <1>10 DEF SpawnFails, HandOver
  <2>2. op # "drop"
    BY <2>1 DEF SysInv, SysControl
  <2> QED
    BY <1>3, <2>1, <2>2, StillOwedStable
<1>11. ASSUME NEW b \in DOMAIN threads, DispatchThread(b) \/ PanickingThread(b)
       PROVE  [Exec!Next]_<<Outstanding, resolved>>
  <2>1. UNCHANGED <<pending, results, resolved, freed, op>>
    BY <1>11 DEF DispatchThread, PanickingThread, callVars
  <2> QED
    BY <1>3, <2>1, StillOwedStable
<1>12. CASE QuietStep
  <2>1. UNCHANGED <<pending, results, resolved, freed>> /\ (op = "drop" => op' = "drop")
    BY <1>12 DEF QuietStep
  <2> QED
    BY <1>3, <2>1, StillOwedStable
<1> QED
  BY <1>4, <1>5, <1>6, <1>7, <1>8, <1>9, <1>10, <1>11, <1>12, QuietOrBusy DEF BusyStep

LEMMA ExecInitially == SysInit => Exec!Init
<1> SUFFICES ASSUME SysInit PROVE Exec!Init
  OBVIOUS
<1>1. results = <<>> /\ pending = <<>> /\ resolved = <<>>
  BY DEF SysInit
<1>2. ToPost(results) = <<>> /\ Len(pending) = 0 /\ Concat(PendingOwes, 0) = <<>>
  BY <1>1, EmptyToPost, ConcatStep
<1>3. <<>> \o <<>> = <<>>
  OBVIOUS
<1>4. Outstanding = <<>>
  BY <1>2, <1>3, OutstandingIs DEF StillOwed
<1> QED
  BY <1>1, <1>4 DEF Exec!Init

(* The ring implements the abstract executor: batches are accepted and     *)
(* their completions delivered one by one in submission order, whatever    *)
(* the rings, the threads and the calls do in between; a drop or the panic *)
(* of a thread gives up all that is outstanding at once.                   *)
THEOREM RingIsExecutor == SysSpec => SysIsExecutor
  BY ExecInitially, ExecStep, SysInvariance, PTL DEF SysSpec, SysIsExecutor, Exec!Spec

-----------------------------------------------------------------------------
(* The composition.  In the whole system each ring takes only steps of its *)
(* own specification, so what is proved of a ring alone holds of it here,  *)
(* with the real calls and dispatch threads in place of its environment.   *)

LEMMA SysInitOfRings == SysInit => SqInit /\ CqInit
  BY DEF SysInit

LEMMA SysImplementsSq == SysSpec => SqSpec
  BY SysInitOfRings, SysStepOfSq, PTL DEF SysSpec, SqSpec

LEMMA SysAccounts == SysInv => SysAccount
  BY DEF SysInv

LEMMA SysImplementsCq == SysSpec => CqSpec
  BY SysInitOfRings, SysStepOfCq, SysAccounts, SysInvariance, PTL DEF SysSpec, CqSpec

(* Between the caller's pushes and the dispatch threads the submission     *)
(* ring is a bounded FIFO channel in the whole system too: whatever calls  *)
(* are made, enqueue_sqes takes entries in the order push published them.  *)
THEOREM SubmissionsAreChannel == SysSpec => SqIsChannel
  BY SysImplementsSq, SqRefinesChannel, PTL

(* Between flush_pending and CompletionQueue::next the completion ring is  *)
(* a bounded FIFO channel in the whole system too: a reader of any number  *)
(* of calls later gets the completions in the order post_cqe wrote them.   *)
THEOREM CompletionsAreChannel == SysSpec => CqIsChannel
  BY SysImplementsCq, CqRefinesChannel, PTL

(* The guarantees of the two rings hold in the whole system: no slot is    *)
(* written while the other side may read it, both sides move entries in    *)
(* order and once, and the overflow counter and flag tell how many         *)
(* completions flush_pending could not post.                               *)
THEOREM RingsKeepGuarantees ==
    SysSpec => [](SqNoRace /\ SqFifo /\ CqNoRace /\ CqFifo /\ CqOverflowReported)
  BY SysImplementsSq, SysImplementsCq, SqRaceFree, SqInOrder, CqRaceFree, CqInOrder,
     CqOverflowExact, PTL

LEMMA SysDispatches == SysInv => ChainSemantics /\ CancelledUntouched
  BY DispatchInvImplies DEF SysInv

(* So do those of the dispatch threads, for the batches enqueue_sqes took  *)
(* from the ring, also when flush_pending has detached a thread or the     *)
(* IoUring is gone: results follow the link chains, and the memory of a    *)
(* cancelled operation is left alone.                                      *)
THEOREM ChainsKeepGuarantees == SysSpec => [](ChainSemantics /\ CancelledUntouched)
  BY SysInvariance, SysDispatches, PTL
===============================================================================
