---------------------------- MODULE DispatchProofs ----------------------------
(***************************************************************************)
(* A thread's loop computes the meaning of the link chains, for every      *)
(* batch and every dispatch_op.  The lemmas are about one thread and about *)
(* the list of threads, so that whatever spawns the threads can use them;  *)
(* the theorems are about the threads on their own.                        *)
(***************************************************************************)
EXTENDS DispatchThreads, SequenceLemmas

LEMMA SeqIsSequence == \A S : \A s \in Seq(S) : IsSequence(s)
  BY SeqOfElements DEF IsSequence

(* The loop's rule for the running flag, in terms of what a chain means:   *)
(* an operation is cancelled iff the one before links to it and either     *)
(* was cancelled itself or is a soft link that failed.                     *)
LEMMA CancelledStep ==
    ASSUME NEW sqes, NEW i \in Nat \ {0}
    PROVE  Cancelled(sqes, i + 1) <=>
              /\ LinksToNext(sqes[i])
              /\ Cancelled(sqes, i) \/ (~sqes[i].hardlink /\ DispatchOp(sqes[i]) < 0)
<1> DEFINE Links(k) == LinksToNext(sqes[k])
           Soft(j) == ~sqes[j].hardlink /\ DispatchOp(sqes[j]) < 0
<1>1. Cancelled(sqes, i) <=> \E j \in 1 .. i - 1 : (\A k \in j .. i - 1 : Links(k)) /\ Soft(j)
  BY Zenon DEF Cancelled
<1>2. Cancelled(sqes, i + 1) <=>
         \E j \in 1 .. (i + 1) - 1 : (\A k \in j .. (i + 1) - 1 : Links(k)) /\ Soft(j)
  BY Zenon DEF Cancelled
<1>3. LinksToNext(sqes[i]) <=> Links(i)
  OBVIOUS
<1>4. (~sqes[i].hardlink /\ DispatchOp(sqes[i]) < 0) <=> Soft(i)
  OBVIOUS
<1> HIDE DEF Links, Soft
<1>5. (i + 1) - 1 = i
  OBVIOUS
<1>6. ASSUME Cancelled(sqes, i + 1)
      PROVE  Links(i) /\ (Cancelled(sqes, i) \/ Soft(i))
  <2>1. PICK j \in 1 .. i : (\A k \in j .. i : Links(k)) /\ Soft(j)
    BY <1>2, <1>5, <1>6
  <2>2. Links(i)
    BY <2>1
  <2>3. CASE j = i
    BY <2>1, <2>2, <2>3
  <2>4. CASE j < i
    BY <1>1, <2>1, <2>2, <2>4
  <2> QED
    BY <2>3, <2>4
<1>7. ASSUME Links(i), Soft(i)
      PROVE  Cancelled(sqes, i + 1)
  <2>1. i \in 1 .. i /\ \A k \in i .. i : Links(k)
    BY <1>7
  <2> QED
    BY <1>2, <1>5, <1>7, <2>1
<1>8. ASSUME Links(i), Cancelled(sqes, i)
      PROVE  Cancelled(sqes, i + 1)
  <2>1. PICK j \in 1 .. i - 1 : (\A k \in j .. i - 1 : Links(k)) /\ Soft(j)
    BY <1>1, <1>8
  <2>2. j \in 1 .. i /\ \A k \in j .. i : Links(k)
    BY <1>8, <2>1
  <2> QED
    BY <1>2, <1>5, <2>1, <2>2
<1> QED
  BY <1>3, <1>4, <1>6, <1>7, <1>8

(* The first operation of a batch is not cancelled. *)
LEMMA FirstNotCancelled == \A sqes : ~Cancelled(sqes, 1)
  BY DEF Cancelled

LEMMA ChainResultsLen ==
    ASSUME NEW sqes, NEW n \in Nat
    PROVE  /\ ChainResults(sqes, n) \in Seq({ChainResults(sqes, n)[i] : i \in 1 .. n})
           /\ Len(ChainResults(sqes, n)) = n
           /\ DOMAIN ChainResults(sqes, n) = 1 .. n
<1> DEFINE f == ChainResults(sqes, n)
<1>1. DOMAIN f = 1 .. n
  BY DEF ChainResults
<1>2. f = [i \in 1 .. n |-> f[i]]
  BY DEF ChainResults
<1> HIDE DEF f
<1>3. f \in [1 .. n -> {f[i] : i \in 1 .. n}]
  BY <1>1, <1>2
<1>4. f \in Seq({f[i] : i \in 1 .. n})
  BY <1>3
<1>5. Len(f) = n
  BY <1>1, <1>4
<1> QED
  BY <1>1, <1>4, <1>5 DEF f

(* A new thread. *)
LEMMA NewThreadInv ==
    ASSUME NEW sqes, IsSequence(sqes)
    PROVE  ThreadInv(NewThread(sqes)) /\ NewThread(sqes).sqes = sqes
<1> DEFINE t == NewThread(sqes)
<1>1. /\ t.sqes = sqes /\ t.results = <<>> /\ t.cancel_chain = FALSE
      /\ t.touched = {} /\ t.panicked = FALSE
  BY DEF NewThread
<1> HIDE DEF t
<1>2. Len(sqes) \in Nat
  BY DEF IsSequence
<1>3. ChainResults(sqes, 0) = <<>>
  BY DEF ChainResults
<1>4. ~Cancelled(sqes, 0 + 1)
  BY FirstNotCancelled
<1>5. {i \in 1 .. 0 : ~Cancelled(sqes, i)} = {}
  OBVIOUS
<1>6. ThreadAt(t, 0)
  BY <1>1, <1>3, <1>4, <1>5 DEF ThreadAt
<1>7. ThreadInv(t)
  BY <1>1, <1>2, <1>6 DEF ThreadInv
<1> QED
  BY <1>1, <1>7 DEF t

(* How far a thread has got is the number of its results. *)
LEMMA ThreadProgress ==
    ASSUME NEW t, ThreadInv(t)
    PROVE  /\ IsSequence(t.sqes)
           /\ Len(t.sqes) \in Nat /\ DOMAIN t.sqes = 1 .. Len(t.sqes)
           /\ Len(t.results) \in 0 .. Len(t.sqes)
           /\ DOMAIN t.results = 1 .. Len(t.results)
           /\ ThreadAt(t, Len(t.results))
<1>1. IsSequence(t.sqes)
  BY DEF ThreadInv
<1>2. Len(t.sqes) \in Nat /\ DOMAIN t.sqes = 1 .. Len(t.sqes)
  BY <1>1 DEF IsSequence
<1>3. PICK n \in 0 .. Len(t.sqes) : ThreadAt(t, n)
  BY DEF ThreadInv
<1>4. n \in Nat /\ t.results = ChainResults(t.sqes, n)
  BY <1>2, <1>3 DEF ThreadAt
<1>5. Len(t.results) = n /\ DOMAIN t.results = 1 .. n
  BY <1>4, ChainResultsLen
<1> QED
  BY <1>1, <1>2, <1>3, <1>5

(* One round of the loop produces the next result the chains ask for. *)
LEMMA ChainResultsNext ==
    ASSUME NEW sqes, NEW n \in Nat
    PROVE  ChainResults(sqes, n + 1) =
              Append(ChainResults(sqes, n),
                     [user_data |-> sqes[n + 1].user_data,
                      result |-> ChainResult(sqes, n + 1),
                      skip_success |-> sqes[n + 1].skip])
<1> DEFINE cd(i) == [user_data |-> sqes[i].user_data, result |-> ChainResult(sqes, i),
                     skip_success |-> sqes[i].skip]
           f == ChainResults(sqes, n)
           g == ChainResults(sqes, n + 1)
           e == cd(n + 1)
<1>1. f = [i \in 1 .. n |-> cd(i)] /\ g = [i \in 1 .. n + 1 |-> cd(i)]
  BY DEF ChainResults
<1>2. f \in Seq({f[i] : i \in 1 .. n}) /\ Len(f) = n
  BY ChainResultsLen
<1>3. e = cd(n + 1)
  OBVIOUS
<1> HIDE DEF cd, f, g, e
<1> DEFINE S == {cd(i) : i \in 1 .. n + 1}
           h == Append(f, e)
<1>4. g \in Seq(S) /\ Len(g) = n + 1
  <2>1. g \in [1 .. n + 1 -> S] /\ n + 1 \in Nat
    BY <1>1
  <2> QED
    BY <2>1, FcnIsSeq
<1>5. f \in Seq(S) /\ e \in S
  <2>1. f \in [1 .. n -> S]
    BY <1>1
  <2> QED
    BY <1>3, <2>1, FcnIsSeq
<1>6. /\ h \in Seq(S) /\ Len(h) = n + 1
      /\ \A i \in 1 .. n : h[i] = f[i]
      /\ h[n + 1] = e
  BY <1>2, <1>5, AppendProperties
<1>7. \A i \in 1 .. n + 1 : g[i] = h[i]
  BY <1>1, <1>3, <1>6
<1> HIDE DEF S, h
<1>8. g = h
  BY <1>4, <1>6, <1>7, SeqEqual
<1> QED
  BY <1>8 DEF f, g, e, cd, h

LEMMA DispatchSqeInv ==
    ASSUME NEW t, ThreadInv(t), ~Ended(t)
    PROVE  /\ ThreadInv(DispatchSqe(t))
           /\ DispatchSqe(t).sqes = t.sqes
           /\ ~DispatchSqe(t).panicked
<1> DEFINE u == DispatchSqe(t)
           n == Len(t.results)
           m == n + 1
           sqe == t.sqes[m]
           result == IF t.cancel_chain THEN ECANCELED ELSE DispatchOp(sqe)
<1>1. /\ Len(t.sqes) \in Nat /\ n \in 0 .. Len(t.sqes) /\ ThreadAt(t, n)
      /\ IsSequence(t.sqes)
  BY ThreadProgress
<1>2. n < Len(t.sqes) /\ ~t.panicked
  BY <1>1 DEF Ended, Finished
<1>3. /\ u.sqes = t.sqes
      /\ u.results = Append(t.results, [user_data |-> sqe.user_data, result |-> result,
                                        skip_success |-> sqe.skip])
      /\ u.cancel_chain = CancelNext(sqe, result, t.cancel_chain)
      /\ u.touched = Touched(t, m)
      /\ u.panicked = FALSE
  BY DEF DispatchSqe
<1>4. n \in Nat /\ m \in Nat \ {0} /\ m \in 0 .. Len(t.sqes)
  BY <1>1, <1>2
<1>5. /\ t.results = ChainResults(t.sqes, n)
      /\ t.cancel_chain \in BOOLEAN
      /\ t.cancel_chain <=> Cancelled(t.sqes, m)
      /\ t.touched = {i \in 1 .. n : ~Cancelled(t.sqes, i)}
  BY <1>1, <1>2 DEF ThreadAt
<1>6. result = ChainResult(t.sqes, m)
  BY <1>5 DEF ChainResult
<1>7. u.results = ChainResults(t.sqes, m)
  BY <1>3, <1>4, <1>5, <1>6, ChainResultsNext
<1>8. u.cancel_chain \in BOOLEAN /\ (u.cancel_chain <=> Cancelled(t.sqes, m + 1))
  <2>1. Cancelled(t.sqes, m + 1) <=>
           /\ LinksToNext(sqe)
           /\ Cancelled(t.sqes, m) \/ (~sqe.hardlink /\ DispatchOp(sqe) < 0)
    BY <1>4, CancelledStep
  <2>2. CASE t.cancel_chain
    BY <1>3, <1>5, <2>1, <2>2 DEF CancelNext
  <2>3. CASE ~t.cancel_chain
    <3>1. result = DispatchOp(sqe)
      BY <2>3
    <3> QED
      BY <1>3, <1>5, <2>1, <2>3, <3>1 DEF CancelNext
  <2> QED
    BY <2>2, <2>3
<1>9. u.touched = {i \in 1 .. m : ~Cancelled(t.sqes, i)}
  BY <1>3, <1>4, <1>5 DEF Touched
<1>10. ThreadAt(u, m)
  BY <1>3, <1>7, <1>8, <1>9 DEF ThreadAt
<1>11. ThreadInv(u)
  BY <1>1, <1>3, <1>4, <1>10 DEF ThreadInv
<1> QED
  BY <1>3, <1>11

LEMMA PanickedInv ==
    ASSUME NEW t, ThreadInv(t), ~Ended(t), ~t.cancel_chain
    PROVE  ThreadInv(Panicked(t)) /\ Panicked(t).sqes = t.sqes /\ Panicked(t).panicked
<1> DEFINE u == Panicked(t)
           n == Len(t.results)
<1>1. /\ Len(t.sqes) \in Nat /\ n \in 0 .. Len(t.sqes) /\ ThreadAt(t, n)
      /\ IsSequence(t.sqes)
  BY ThreadProgress
<1>2. n < Len(t.sqes) /\ ~t.panicked /\ n \in Nat
  BY <1>1 DEF Ended, Finished
<1>3. /\ u.sqes = t.sqes /\ u.results = t.results /\ u.cancel_chain = t.cancel_chain
      /\ u.touched = t.touched \cup {n + 1} /\ u.panicked = TRUE
  BY DEF Panicked
<1>4. /\ t.results = ChainResults(t.sqes, n)
      /\ ~Cancelled(t.sqes, n + 1)
      /\ t.touched = {i \in 1 .. n : ~Cancelled(t.sqes, i)}
  BY <1>1, <1>2 DEF ThreadAt
<1>5. u.touched = {i \in 1 .. n + 1 : ~Cancelled(t.sqes, i)}
  BY <1>2, <1>3, <1>4
<1>6. ThreadAt(u, n)
  BY <1>1, <1>2, <1>3, <1>4, <1>5 DEF ThreadAt
<1>7. ThreadInv(u)
  BY <1>1, <1>3, <1>6 DEF ThreadInv
<1> QED
  BY <1>3, <1>7

-----------------------------------------------------------------------------
(* The list of threads.  Each action of a thread leaves the others, and    *)
(* the batch of its own, as they are.                                      *)

LEMMA SpawnKeeps ==
    ASSUME NEW sqes, IsSequence(sqes), DispatchInv, Spawn(sqes)
    PROVE  /\ DispatchInv'
           /\ Len(threads') = Len(threads) + 1
           /\ \A b \in DOMAIN threads : threads'[b] = threads[b]
           /\ threads'[Len(threads) + 1] = NewThread(sqes)
<1> DEFINE e == NewThread(sqes)
           S == {threads[i] : i \in DOMAIN threads}
<1>1. threads \in Seq(S) /\ threads' = Append(threads, e)
  BY DEF DispatchInv, IsSequence, Spawn
<1>2. Len(threads) \in Nat /\ DOMAIN threads = 1 .. Len(threads)
  BY <1>1
<1>3. ThreadInv(e)
  BY NewThreadInv
<1> HIDE DEF e, S
<1>4. /\ threads' \in Seq(S \cup {e}) /\ Len(threads') = Len(threads) + 1
      /\ \A i \in 1 .. Len(threads) : threads'[i] = threads[i]
      /\ threads'[Len(threads) + 1] = e
  BY <1>1, AppendAny
<1>5. DOMAIN threads' = 1 .. Len(threads) + 1
  BY <1>4
<1>6. IsSequence(threads')
  BY <1>4, SeqOfElements DEF IsSequence
<1>7. \A b \in DOMAIN threads' : ThreadInv(threads'[b])
  <2> TAKE b \in DOMAIN threads'
  <2>1. CASE b = Len(threads) + 1
    BY <1>3, <1>4, <2>1
  <2>2. CASE b # Len(threads) + 1
    <3>1. b \in DOMAIN threads /\ threads'[b] = threads[b]
      BY <1>2, <1>4, <1>5, <2>2
    <3> QED
      BY <3>1 DEF DispatchInv
  <2> QED
    BY <2>1, <2>2
<1> QED
  BY <1>2, <1>4, <1>6, <1>7 DEF DispatchInv, e

LEMMA StepKeeps ==
    ASSUME NEW b \in DOMAIN threads, DispatchInv, DispatchStep(b) \/ ThreadPanics(b)
    PROVE  /\ DispatchInv'
           /\ Len(threads') = Len(threads) /\ DOMAIN threads' = DOMAIN threads
           /\ \A c \in DOMAIN threads : threads'[c].sqes = threads[c].sqes
           /\ \A c \in DOMAIN threads :
                 Ended(threads[c]) \/ c # b => threads'[c] = threads[c]
           /\ threads[b].panicked => threads'[b].panicked
<1> DEFINE t == threads[b]
           u == IF DispatchStep(b) THEN DispatchSqe(t) ELSE Panicked(t)
           S == {threads[i] : i \in DOMAIN threads}
<1>1. threads \in Seq(S) /\ ThreadInv(t)
  BY DEF DispatchInv, IsSequence
<1>2. ~Ended(t) /\ (DispatchStep(b) \/ ~t.cancel_chain)
  BY DEF DispatchStep, ThreadPanics
<1>3. threads' = [threads EXCEPT ![b] = u]
  BY DEF DispatchStep, ThreadPanics
<1>4. ThreadInv(u) /\ u.sqes = t.sqes
  BY <1>1, <1>2, DispatchSqeInv, PanickedInv
<1>5. ~t.panicked
  BY <1>2 DEF Ended
<1> HIDE DEF u, S
<1>6. Len(threads) \in Nat /\ DOMAIN threads = 1 .. Len(threads) /\ threads \in Seq(S \cup {u})
  BY <1>1, SeqMonotonic
<1>7. /\ threads' \in Seq(S \cup {u}) /\ Len(threads') = Len(threads)
      /\ \A c \in 1 .. Len(threads) : threads'[c] = IF c = b THEN u ELSE threads[c]
  <2>1. u \in S \cup {u} /\ b \in 1 .. Len(threads)
    BY <1>6
  <2> QED
    BY <1>3, <1>6, <2>1, ExceptSeq
<1>8. DOMAIN threads' = DOMAIN threads
  BY <1>6, <1>7
<1>9. IsSequence(threads')
  BY <1>7, SeqOfElements DEF IsSequence
<1>10. \A c \in DOMAIN threads' : ThreadInv(threads'[c])
  <2> TAKE c \in DOMAIN threads'
  <2>1. CASE c = b
    BY <1>4, <1>6, <1>7, <2>1
  <2>2. CASE c # b
    <3>1. c \in DOMAIN threads /\ threads'[c] = threads[c]
      BY <1>6, <1>7, <1>8, <2>2
    <3> QED
      BY <3>1 DEF DispatchInv
  <2> QED
    BY <2>1, <2>2
<1>11. DispatchInv'
  BY <1>9, <1>10 DEF DispatchInv
<1>12. \A c \in DOMAIN threads : threads'[c].sqes = threads[c].sqes
  BY <1>4, <1>6, <1>7
<1>13. \A c \in DOMAIN threads : Ended(threads[c]) \/ c # b => threads'[c] = threads[c]
  BY <1>2, <1>6, <1>7
<1> QED
  BY <1>5, <1>7, <1>8, <1>11, <1>12, <1>13

(* What the two properties of the threads say follows. *)
LEMMA DispatchInvImplies == DispatchInv => ChainSemantics /\ CancelledUntouched
<1> SUFFICES ASSUME DispatchInv PROVE ChainSemantics /\ CancelledUntouched
  OBVIOUS
<1>1. \A b \in DOMAIN threads :
         LET t == threads[b]
             n == Len(t.results)
         IN  n \in Nat /\ DOMAIN t.results = 1 .. n /\ ThreadAt(t, n)
  BY ThreadProgress DEF DispatchInv
<1>2. ChainSemantics
  <2> SUFFICES ASSUME NEW b \in DOMAIN threads, NEW i \in DOMAIN threads[b].results
               PROVE  threads[b].results[i].result = ChainResult(threads[b].sqes, i)
    BY DEF ChainSemantics
  <2> DEFINE t == threads[b]
             n == Len(t.results)
  <2>1. n \in Nat /\ i \in 1 .. n /\ t.results = ChainResults(t.sqes, n)
    BY <1>1 DEF ThreadAt
  <2>2. t.results[i] = [user_data |-> t.sqes[i].user_data, result |-> ChainResult(t.sqes, i),
                        skip_success |-> t.sqes[i].skip]
    <3> HIDE DEF t, n
    <3> QED BY <2>1 DEF ChainResults
  <2>3. t.results[i].result = ChainResult(t.sqes, i)
    BY <2>2
  <2> QED
    BY <2>3
<1>3. CancelledUntouched
  <2> SUFFICES ASSUME NEW b \in DOMAIN threads
               PROVE  LET t == threads[b]
                          reached == Len(t.results) + (IF t.panicked THEN 1 ELSE 0)
                      IN  t.touched = {i \in 1 .. reached : ~Cancelled(t.sqes, i)}
    BY DEF CancelledUntouched
  <2> DEFINE t == threads[b]
             n == Len(t.results)
  <2>1. ThreadAt(t, n) /\ n \in Nat
    BY <1>1
  <2>2. t.touched = {i \in 1 .. (IF t.panicked THEN n + 1 ELSE n) : ~Cancelled(t.sqes, i)}
    BY <2>1 DEF ThreadAt
  <2>3. (IF t.panicked THEN n + 1 ELSE n) = n + (IF t.panicked THEN 1 ELSE 0)
    <3> HIDE DEF t, n
    <3> QED BY <2>1
  <2> QED
    BY <2>2, <2>3, Zenon
<1> QED
  BY <1>2, <1>3

-----------------------------------------------------------------------------
(* The threads on their own: every set of batches, any number of threads. *)

LEMMA DispatchInitially == DispatchInit => DispatchInv
  BY DEF DispatchInit, DispatchInv, IsSequence

LEMMA DispatchNextKeeps == DispatchInv /\ [DispatchNext]_threads => DispatchInv'
<1> SUFFICES ASSUME DispatchInv, [DispatchNext]_threads PROVE DispatchInv'
  OBVIOUS
<1>1. ASSUME NEW sqes \in BatchInputs, Spawn(sqes) PROVE DispatchInv'
  BY <1>1, BatchAssumption, SpawnKeeps
<1>2. ASSUME NEW b \in DOMAIN threads, DispatchStep(b) PROVE DispatchInv'
  BY <1>2, StepKeeps
<1>3. ASSUME NEW b \in DOMAIN threads, ThreadPanics(b) PROVE DispatchInv'
  BY <1>3, StepKeeps
<1>4. CASE UNCHANGED threads
  BY <1>4 DEF DispatchInv
<1> QED
  BY <1>1, <1>2, <1>3, <1>4 DEF DispatchNext

(* DispatchInv is inductive: however the threads are scheduled and         *)
(* wherever one panics, a thread's state is the one its batch and its      *)
(* progress determine.                                                     *)
THEOREM DispatchInvariance == DispatchSpec => []DispatchInv
  BY DispatchInitially, DispatchNextKeeps, PTL DEF DispatchSpec

(* The loop of enqueue_sqes' closure, with its one running flag            *)
(* cancel_chain, gives each operation the result that ChainResult states   *)
(* without it.  (Through a hard link of a chain that is already cancelled, *)
(* the cancellation goes on.)                                              *)
THEOREM ChainsComputed == DispatchSpec => []ChainSemantics
  BY DispatchInvariance, DispatchInvImplies, PTL

(* A thread has touched the user's memory for exactly the operations it    *)
(* reached and did not cancel.                                             *)
THEOREM CancelledLeftAlone == DispatchSpec => []CancelledUntouched
  BY DispatchInvariance, DispatchInvImplies, PTL
==============================================================================
