# miring in TLA+

miring is an io_uring emulator in pure Rust: the rings, the submit calls and the
completions of io_uring 0.7, with threads of the program in the place of the kernel. This
directory holds TLA+ modules of its protocol, TLC configurations that check them on small
instances, and TLAPS proofs of what holds for every instance. `PROJECT.json` lists every run,
property, mutant, theorem, hazard and finding, and maps each definition to the lines it models.

## The system

| Part | Source | State | Operations | Talks to |
|---|---|---|---|---|
| Submission queue | `squeue.rs`, `enqueue_sqes` in `submit.rs` | shared `sq_head`, `sq_tail`, SQE array; per handle a cached `head`, `tail` | borrow, `push`, `push_multiple`, `sync`, drop; snapshot of a batch by the submitter | the submitter, through two atomics and the array |
| Completion queue | `cqueue.rs`, `post_cqe` in `submit.rs` | shared `cq_head`, `cq_tail`, CQE array, `cq_overflow`, the overflow bit of `sq_flags`; per handle a cached `head`, `tail` | borrow, `next`, `fill`, `sync`, drop; `post_cqe` | the submitter, likewise |
| Dispatch threads | closure in `enqueue_sqes` | the batch, the results so far, `cancel_chain` | execute or cancel one SQE | user buffers; the joiner, through the thread's result |
| Submitter and IoUring | `submit.rs`, `lib.rs` | `pending`: the join handles, which a panic may drop | `submit`, `submit_and_wait`, `submit_with_args`, `enter`, `completion`, `completion_shared`, `split`, `submission`, drop | all of the above |
| Operation handlers | `dispatch_op` and below in `submit.rs` | none | 63 opcodes: which user memory is read or written, and the result | the opcode builders, through the SQE's fields |
| Opcode builders | `opcode.rs` | none | 74 builders that fill an SQE | the handlers |
| Builder, Parameters | `lib.rs` | `params`: flags and sizes; ring sizes and masks, features | 12 setup calls, `build`, the queries of `Parameters` | everyone, through the sizes |
| Types | `types.rs` | none | encoding of file slots, parser of a multishot receive buffer | the builders; the user |
| Registration, ABI constants | `register.rs`, `sys.rs`, `register_*` in `submit.rs` | none | the probe table, no-op registrations | the handlers, through the table |
| Shims | `loom.rs`, `util.rs` | none | re-exports, unsynchronised loads | |

There is no kernel. `submit` copies the published SQEs out of the ring, releases their slots and
spawns one thread per batch; that thread touches the user's buffers and computes the results.
Nothing is posted until somebody *flushes*: `submit_and_wait(n > 0)`, `completion()` and
`split()` join the pending threads in order and post their completions. Dropping the ring joins
them too and discards the results.

**What is hard.** The handles are `Send`, so the thread that pushes, the thread that submits and
the thread that reaps are different ones, each with cached copies of indices the others move; the
arrays are accessed with plain reads and writes, so the indices alone exclude data races. Indices
are free-running `u32` counters whose wrap no test reaches. Dispatch threads of several batches
run at once and finish in any order. A completion queue that is full loses completions and has to
say so. A link chain is decided by one flag carried along the batch. Teardown meets threads that
still hold pointers into the user's memory. The system may refuse a thread after the ring has let
go of the batch, and a dispatch thread may panic: its joiner then panics in the middle of draining
the list of handles. Sizes, slot numbers and lengths are `u32`, `i32` and `usize` at their limits.

**What makes the parts correct.** Rings: FIFO, no loss or duplication, no slot written while the
other side may read it, consumed entries eventually. Dispatch: the flag computes the meaning of
chains, cancelled operations touch nothing. The whole: each consumed operation completes once and
in submission order, flushing calls return, and return only when all is posted, and no thread
outlives the ring; a failure costs the operations it hits and no others. Handlers and builders: a
handler dereferences exactly what the builder stored as a pointer. Ring builder: every ring that is
built has the sizes the rings' arithmetic needs.

## Modules

- **RingIndex** - `u32` positions with wrapping arithmetic, and the slot of a position. `Modulus`
  stands for 2^32 and `RingSize` for "a power of two below it": what is used of it is that it
  divides the modulus and is smaller.
- **Channel** - the abstract specification of a ring: a bounded FIFO with all-or-nothing
  publication and no indices.
- **SubmissionQueue** - one action per atomic access or slot access. The handle: `SqBorrow`,
  `Push`/`PushMultiple` (room test), `PushUnchecked` (once per entry), `SqSyncStore`,
  `SqSyncLoad`, `SqDrop`. The submitter: `Submit`/`Enter` (the count, computed from an earlier
  load of the tail), `LoadIndices`, `ReadSqe` (once per entry), `StoreHead`, `HandOver`.
  A failed push changes nothing and is a stutter.
- **CompletionQueue** - `CqBorrow`, `NextCqe`/`Fill`, `Pop`, `CqSyncStore`, `CqSyncLoad`, `CqDrop`
  for the reaper; `PostCqe`, `LoadCq`, `CountOverflow`, `SetOverflowFlag`, `WriteCqe`, `StoreTail`
  for `post_cqe`. The completion's `flags` word is always 0 in the code and is left out.
- **Dispatch** - the threads: state and steps, as a component. `DispatchSqe` is one round of the closure's loop; what an operation
  returns is the parameter `DispatchOp`. `ThreadPanics` is an operation that panics instead.
  `Cancelled` and `ChainResult` give what the code makes of a chain without the flag. **DispatchThreads** is
  the specification of the threads on their own: any batch may be spawned at any time.
- **Concatenation** - the sequences the account of the whole ring is kept in: what several batches
  hold, one after the other.
- **IoUring** - extends both rings and `Dispatch`, and adds the calls: `op` is the call
  in progress, `pending` the list of handles. Four kinds of threads interleave: pusher, reaper,
  caller, dispatchers. `Submitter` is not `Send` and its methods share one thread here. Faults:
  `SpawnFails` (the snapshot is lost, the call unwinds) and `PanickingThread`, met later by
  `FlushPanics` (the handles behind it are `detached`) or ignored by `JoinOnDrop`; `Unwound` is the
  panic leaving the library, after which the user may go on or drop the ring.
- **Executor** - the abstract specification of the whole: batches are accepted, completions
  delivered one by one in that order, or all that is outstanding is given up at once. `IoUring` maps
  to it with what the pending threads *will* have computed, so that running, joining and skipping
  are stutters.
- **ConcurrentSubmit** - `SubmissionQueue` with several threads in `submit`: each has its own
  locals, and a step that switches between them may come anywhere.
- **RingBuilder** - the setup calls, `build` with its three outcomes (a ring, an error, a panic where
  overflow checks are on), and the queries. **RingMasks** states of the rings it builds that `&` with
  the mask is the remainder `RingIndex` takes for the slot; its `&` is a recursive function, `BitAnd`,
  which the run compares with the library's operator.
- **Types** - `DestinationSlot` and the four ways a slot gets into an SQE; `RecvMsgOut::parse`. Pure
  operators, exercised through `Operations`.
- **Opcodes** - the builders, one record each: operation code, what goes into `fd`, the flags, and
  for every SQE word a handler may look at whether it is a number or a pointer, and to how much
  memory, lent for reading or writing; how it encodes a file slot; the operation codes' numbers.
- **Operations** - `dispatch_op` and its handlers as operators from an SQE (whose words are plain
  numbers, as in the code) and what lies behind its pointers to the memory touched (an access says from
  where and how many bytes: `ProvideBuffers` touches two of a whole range) and the result;
  `HandledOpcodes`, and `Supported`, the table `register_probe` makes of it. `Build` makes any SQE a
  builder can make from small arguments (`BuildPanics` is the one that cannot), `DispatchBuilt`
  dispatches it; `ParseOut` is a call of the parser.
- **RingIndexProofs**, **SequenceLemmas** - lemmas. **SubmissionQueueProofs**,
  **CompletionQueueProofs**, **DispatchProofs**, **IoUringProofs**, **RingBuilderProofs**,
  **OperationsProofs** - theorems, each about the module it is named after. The **MC** modules hold
  the values the configurations use.

Variables keep the names of the fields and locals they stand for, with the prefixes `h_` (the
SubmissionQueue handle), `k_` (locals of `enqueue_sqes`), `c_` (the CompletionQueue handle) and
`p_` (locals of `post_cqe`). `pushed`, `taken`, `posted`, `dropped`, `reaped`, `resolved`, `lost`,
`detached`, `calls` and a thread's `touched` are history: no guard of the code reads them (the bounds do).

## Runs

| Run | Shows |
|---|---|
| `submission_ring` | A pusher and a submitter on a ring of 2 with indices mod 4: no slot is overwritten while queued or being copied (`SqNoRace`), the submitter consumes what was pushed, in order and once (`SqFifo`), the inductive invariant `SqInv` holds, the ring implements `Channel` (`SqIsChannel`), and if `submit` is called again and again, everything published is consumed (`SqDrains`). |
| `completion_ring` | A poster and a reaper, likewise, with overflow: `CqNoRace`, `CqFifo`, `CqIsChannel`, the inductive invariant `CqInv`, and a drop is always visible in the counter and the flag (`CqOverflowReported`). A user that keeps calling `sync` and `next` reaps everything that went into the ring (`CqReaps`). |
| `dispatch_chains` | Every batch of up to 4 SQEs with every combination of link flags and outcomes, and a panic anywhere: the flag carried along amounts to a closed rule, an SQE is cancelled iff a failed soft link comes before it with links, soft or hard, all the way between (`ChainSemantics`), and exactly the operations that were not cancelled touched their buffers (`CancelledUntouched`). What becomes of a hard link in a chain that is already cancelled is what the code does; its comments disagree, see `dispatch_hardlinks`. |
| `system_safety` | All threads together, with one fault: completions are those owed, in submission order, once each (`CompletesOnce`); what leaves the ring is what the threads are given, but for a batch that could not be spawned (`NothingLost`); flushing calls return with everything posted (`FlushIsComplete`); a running thread is joinable and does not outlive the ring, unless a flush that met a panic has detached it (`RunningIsPending`). |
| `system_liveness` | With one fault: every call returns or unwinds (`CallsReturn`), with repeated flushing calls every consumed operation completes unless a panic took it (`Completes`), and the ring implements `Executor` (`SysIsExecutor`). The inductive invariant of the whole ring, `SysInv`, holds. |
| `operations_handlers` | Every builder with every combination of null and valid pointers, lengths and iovecs: a handler touches only memory lent to it, in the lent direction and extent (`Confined`), and walks it, but for four pointers behind which it touches nothing: every byte of the data, the fields of a `msghdr`, `iovec` or `futex_waitv`, of provided buffers both ends (`WalksPointers`). It fails for three causes only: it is a `Nop` told to report that result, it is a timeout, or a pointer it needs is null or its length zero, which it finds before it touches anything (`FailsCleanly`); results are the bytes moved, up to the range of an `i32` (`ResultIsBytes`); the probe table is exact, by number (`ProbeAccurate`). A file slot survives its encoding over the whole range of `u32` (`SlotEncoding`), and `parse` accepts exactly the buffers its fields fit into and stays inside them (`ParseInBounds`). |
| `ring_builder` | Setup calls in any order and `build`: sizes divide 2^32, masks are theirs (`BuiltSizes`) and select the slots (`MaskSelectsSlot`); a request is granted with less than twice its size, or refused for the documented reasons (`Granted`); no setup call undoes another (`SetupKept`); the inductive invariant is `BuilderInv`. |
| `cq_nodrop` | *Violation.* The ring reports `IORING_FEAT_NODROP`, documented as "never dropping completion events", and drops one when the queue is full. |
| `system_drop_joins` | *Violation.* "Join any pending dispatch threads before freeing ring memory": not those behind a thread whose panic a flush has met. |
| `concurrent_submit` | *Violation.* `RingMemory` is `Sync` because "access is synchronized through AtomicU32 operations in the ring protocol": two threads in `submit` consume the same SQE. |
| `dispatch_hardlinks` | *Violation.* "Hardlinked SQEs always dispatch regardless of predecessor result", and a hard link means "my successor should still run even if I fail": behind a soft link that failed, an SQE with hard links on both sides is cancelled (`HardlinkedDispatch`). |
| `operations_fixed` | *Violation.* `ReadMulti::build` overwrites the flag that tells a `Fixed` descriptor from an `Fd`, and `MsgRingSendFd` sets it for an `Fd`. |

**Bounds.** `Modulus = 4` stands for 2^32: with rings of 1 or 2 slots it is large enough to tell a
full ring from an empty one, as 2^32 is, and small enough that `MaxPushed = 6` and `MaxPosts = 6`
carry every index round the wrap with a full ring on either side of it. `Batches` holds a slice
that fits and one that never does, `EnterCounts` a partial submit and a count beyond anything
queued, `FillSizes` a slice shorter and one longer than the queue. In `system_*` the completion
ring has one slot, so that overflow happens with the second completion; the two SQEs are a failing
soft link and a success that asks for silence, so that cancellation, suppression and both of them
together occur; three operations make up to three concurrent batches. `BatchLen = 4` contains
every pattern of a failure, a soft or a hard link across it, and a chain end; the flag depends
only on its last value; `dispatch_hardlinks` needs three SQEs, one failing soft link and two hard
ones. `system_liveness` uses fewer values, as progress does not depend on them.
In `operations_*` `I32Half = 64` stands for 2^31. `Scalars` holds 0, a small value and two beyond it:
as results, 90 reads -ENOSYS and 114 -EFAULT; 3 is also a set of flags with the lowest bit and the
others sets without it. `Counts` has no iovec, two and three, and `BufLens` 0 and 57, of which two
make 114. Addresses are far from these numbers, so that a number taken for a pointer is recognised.
All 128 values of a `u32` of that size are tried as slot numbers. `UsizeModulus = 64` stands for
2^64: the parser's 16-byte header and its fields fit below it, or exceed it so
that a wrapped sum would pass the length test.
`ring_builder` scales 2^32, 2^16 and 2^15 to 64, 16 and 8 and takes sizes on both sides of each power
of two and each limit; two setup calls (`MaxSetup`) contain every order of two and every repetition,
and a call's effect depends only on the flags so far. `MaxFaults = 1`: a second fault of a behaviour
meets the state that the first has left, with an empty list of handles, or with other threads
pending as without it. `concurrent_submit` has two threads
and two pushes.
`dispatch_*`, `operations_*` and `ring_builder` turn deadlock checking off, because every thread
finishes, a built operation is dispatched once and a ring built once; elsewhere it is on.

**Fairness.** Weak fairness of what a thread does *inside* a library call, and of each dispatch
thread: that the operating system schedules runnable threads. Nothing has to fail: the faults have no
fairness. A call whose thread panicked unwinds, which `CallsReturn` counts as a return. What the user calls is left open; the
liveness properties that need calls say so in their premise (`SqDrains`: submit infinitely often;
`CqReaps`: sync infinitely often and next whenever it can; `Completes`: flushing calls infinitely
often).

## Proofs

Every theorem holds for every value of the constants that meets the assumptions named in the modules,
and the bounds of the runs are constants, too: any number of pushes, posts, calls, threads and faults.
The assumptions are `ModulusAssumption` (positive), `RingSize` per ring (it divides the modulus and is
smaller; `SizesFit` shows that `build` makes no others), types of the arguments (`SqAssumption`,
`CqAssumption`, `WantsAssumption`, `BatchAssumption`, `OperationsAssumption`, `TypesAssumption`), that
`Cqe` contains what operations may complete with (`CompletionAssumption`), and that 2^32 has no odd
divisor (`BuilderAssumption`).

`RingIndexProofs` has the arithmetic: distances and positions add up over the wrap, and two
positions less than a ring apart have different slots (`SlotDistinct`), because the ring size
divides the modulus. `SequenceLemmas` has windows of sequences and concatenations of several. What a
recursive function computes is there proved by a least counterexample: `SetInduction` is induction for
a *set* of numbers, taken from `WFMin`, since the library's induction theorems, whose parameter is an
operator, cannot be instantiated by the provers.

**The rings.** Neither `SqNoRace` nor `SqFifo` is inductive: a push is safe because of what the *stale*
head the handle holds says about the shared one. `SqInv` orders the indices as the user sees them:
counted from the cached head, shared head <= shared tail <= the handle's tail, and the entries a push
call still has to write fit below the ring size (`SqOrder`). With that, the slots from the shared head
to the handle's tail are distinct and hold the pushed entries in order (`SqContents`), what is being
copied lies among them (`SqReading`), and what has been copied is the next of what was pushed
(`SqCopied`). `CqInv` is its mirror image, counted from the head the poster sees: what the reaper has
popped and not released, and what it is still to pop, lie in its window, the window in the ring's and
that below the ring size (`CqOrder`). The poster's free slot stays free although the reaper moves
between its load and its store (`CqPosting`), and the counter and the flag lag behind a drop by at most
the step in progress (`CqCounted`). `SqRefinesChannel` and `CqRefinesChannel` show step by step that the
slots between the shared indices are the queue of `Channel`: a publication appends what was written
since the last, a release removes what was copied or popped.

**Dispatch.** `DispatchInv`, the inductive invariant (`DispatchInvariance`): a thread that has done n of its SQEs has the results `ChainResult` gives
for these, its flag says whether the chain semantics cancel the next, and it has touched what was not
cancelled, the operation it panicked in included. The step is `CancelledStep`, which unfolds the
meaning of a chain by one SQE.

**The whole ring.** `SysInv` joins the three invariants with what ties the components together:
which locals are live in which call (`SysControl`); the handles are those of the threads after the
joined ones, in order, and a thread without a handle has ended or was detached behind one that panicked
(`SysHandles`); what has been handed to `post_cqe` and what is left of the results in hand are together
what the first joined threads owe, all of them unless the ring is being dropped (`SysAccount`); each of
these is in the ring, counted as dropped, or the one being posted (`SysPosted`); every SQE taken went to
a thread, in order, or is in hand, or was lost in a spawn that failed (`NothingLost`). Without
`SysHandles` a flush could post the results of batches in another order, and without `SysAccount` the
premise of a poster's step, that what it posts is a completion, would have no ground. A step of the
whole is a step or a stutter of each ring (`SysStepOfSq`, `SysStepOfCq`), so the rings' lemmas carry
over without a proof of their own. From `SysInv`: `SysTypeCorrect`, `NoSqeLost`, `ThreadsWaitedFor`,
`CompletedOnce`, the action property `FlushCompletes`, and `RingIsExecutor`, where what is outstanding
is what the pending threads will owe: running one is a stutter, joining one moves its share into the
results in hand, a posted completion is delivered, and a flush that panics gives up the rest.

The same two lemmas show that the whole implements each ring's specification (`SysImplementsSq`; for the
completion ring, whose poster may only post completions, `SysImplementsCq` also needs `SysAccount`). So
the environments the rings were proved in were general enough, and their theorems hold with the real
calls, threads and faults: `SubmissionsAreChannel`, `CompletionsAreChannel`, `RingsKeepGuarantees`, and
`ChainsKeepGuarantees` for the threads.

**The builder.** `BuilderInv`: the flags are exactly those of the calls made, each value is the last one
given (`ParamsKept`), and the ring, if there is one, is what `build` makes of them (`Outcome`).
`next_power_of_two` is the least divisor of 2^32 that is large enough; that such a number is less than
twice the request follows from halving it. `MasksSelectSlots`: `BitAnd` exists as a function, by
induction over how many masks it is defined for (`AndExists`), and for a size that divides 2^32 it is the
remainder (`BitAndIsMod`), since halving an even size halves mask, position and remainder alike, and only
the size 1 is odd.

**Operations.** What is dispatched is what a builder made (`OpInv`); the rest is in the tables. There is
a lemma for each group of builders that says what its words hold (`...Row`), and one for each handler
(`...Correct`): it walks what was lent through the words it looks at, in the way `Walk` says, and
nothing else, or some memory it needs is missing (`MissesMemory`) and it reports a fault and touches
nothing. That a walk stays inside what was lent is `WalkInside`. `HandlersConfined`, `HandlersWalk`, `FailuresAreClean` and `ProbeMatches` follow for
all 74 builders. The last two hold for lengths below 2^31 (`LengthsFit`); the result injected into a
`Nop` is no length, and is one of the causes `FailsCleanly` names. `SlotsSurvive` computes the
casts: a word is the slot plus one, or that less 2^32. `ParsesInBounds` shows that no sum in `parse`
wraps once the checked ones have passed. `BytesAreReported` compares two sums, one over the entries of an
iovec array, which the handler computes, and one over the set of buffers it touched. The library's sum
folds over a set by taking out a chosen element at a time; it is shown to exist for every finite set
(`SumExists`) and not to depend on the order (`SumExchange`, from which `SumAdd`), and then entry by
entry to grow as the set of buffers does (`BuffersAddUp`). Entries that are null or empty are in neither.

**Only model-checked.** Liveness (`SqDrains`, `CqReaps`, `CallsReturn`, `Completes`) is out of the
prover's reach, and so is the absence of deadlock, which is about ENABLED. The violations are
counterexamples that TLC finds. Every other property of a run is a theorem.

## Not modelled

Memory orderings: a step is an atomic access in a sequentially consistent interleaving. The code's
acquire loads and release stores of the indices order the plain accesses to the slots, which is the
interleaving the models assume; the counters read with `Relaxed` are only reported. The
flag queries (`need_wakeup`, `taskrun`, `cq_overflow`, `overflow`, `eventfd`) read state. 128-byte
SQEs and 32-byte CQEs change strides, not the protocol. The setup flags other than `CQSIZE`, and the
SQE flags `IO_DRAIN` and `ASYNC`, are stored and ignored by the code, and `RingBuilder` shows no more
than that the former are kept. `register_*` calls other than the probe return constants. Of
`types.rs`, the descriptors, time specifications, cancellation criteria and the like are data that no
handler looks into; the SQE fields no handler reads are left out of `Opcodes`. `loom.rs` and `util.rs`
are re-exports and unsynchronised loads (of variables only the reader writes), `sys.rs` beyond the
operation codes constants and layouts. `Operations` is not composed with `Dispatch`: a handler's
result depends on its SQE alone and enters a chain only by its sign, and `dispatch_chains` has every
combination of signs; which operations may fail is `FailsCleanly`. Two threads in `flush_pending` at once race on a `Vec` without synchronisation,
which is undefined behaviour before any step the models have; `concurrent_submit` stops at the
first consequence, which is in the atomics.
The number of unjoined threads has no limit in the code and `MaxPushed` in the models.

Met while reading, and not the subject of a run: `README.md` says `Read` fills the buffer with `0xAA`,
`dispatch_buf_fill` fills it with 0; it counts 75 builders, `opcode.rs` has 74; it lists the CQE flags
of buffer selection as emulated, every CQE is posted with flags 0; `ProvideBuffers` reads the ends of
memory that was lent to be written, although its comment says "validate entire range is writable". The
README's "a background thread that joins on the next `submit()` call": `submit` joins nothing. Its
"each dispatch handler walks the same user-memory pointers the kernel would": the destination address
of `Send` and `SendZc`, the timespec of `TimeoutUpdate` and the value of `SetSockOpt` are never looked
at, as `WalksPointers` states. `submit_and_wait` will "wait for at least `want` completions"
(`submit.rs:157`): it only tests `want > 0` and joins what is pending, so that `submit_and_wait(1)` on an
empty ring returns with no completion; what a flushing call does guarantee is `FlushIsComplete`. A CQ size above 2^31 gives a ring whose queue has no entries where overflow checks are
off: every completion overflows. The raw `file_index` 2^32 - 2 is encoded as "any slot" and 2^32 - 1 as
"no slot"; `DestinationSlot` refuses them. Results are lengths cast to `i32`: reading 2^31 bytes or more
reports a negative result, and one of 2^32 - 14 bytes reads as -EFAULT and cancels the chain behind it.

## What is open

1. A specification of what `ConcurrentSubmit` would need (a lock around `enqueue_sqes`), should the code
   get one, and the proof that the rings' theorems then carry over to several submitting threads.
2. A limit for the threads and handles that `submit` accumulates without a flush: the code has none to
   state a property of.
3. Liveness for every instance. What a proof would rest on is there: `SysInv` says which step each call
   waits for, and `Outstanding` shrinks with every completion delivered.
