----------------------------- MODULE Operations -----------------------------
(***************************************************************************)
(* dispatch_op and its handlers: for an SQE, which user memory is read and *)
(* written, how many bytes of it, and the result of the operation.         *)
(*                                                                         *)
(* SQE words are numbers, as in the code: a handler that takes a word for  *)
(* a pointer dereferences whatever number is there.  What lies behind the  *)
(* pointers is mem: an iovec array, a msghdr, the u32 addrlen points to.   *)
(***************************************************************************)
EXTENDS Opcodes, Types, Sequences, FiniteSetsExt

CONSTANTS Scalars,      \* values of numeric fields
          Counts,       \* lengths of iovec arrays (len, msg_iovlen)
          BufLens,      \* values of iov_len, msg_namelen, addrlen, ...
          Parses        \* calls of RecvMsgOut::parse: their arguments

ASSUME OperationsAssumption ==
    /\ Scalars \cup Counts \cup BufLens \subseteq Nat
    /\ Parses \subseteq
          [len : Usizes, name_len : Usizes, control_len : Usizes,
           header : [namelen : Usizes, controllen : Usizes, payloadlen : Usizes]]

VARIABLES call,         \* what was built (builder, target, slot, sqe, mem), and how far it is
          out,          \* what dispatching it did
          parsed        \* what RecvMsgOut::parse returned

EFAULT == -14
ENOSYS == -38
ETIME == -62
FakeFd == 42
IovecSize == 16
MsgHdrSize == 56

(* Some bytes of what a pointer points to are touched.  Data is read or    *)
(* written byte by byte; the mode "fields" is that of a msghdr and of the  *)
(* entries of an iovec array, which are read through a reference, field by *)
(* field and as far as needed: padding, msg_flags and the length of an     *)
(* entry without base are not read.                                        *)
Part(mode, base, at, bytes) == [mode |-> mode, base |-> base, at |-> at, bytes |-> bytes]
Access(mode, base, bytes) == Part(mode, base, 0, bytes)
Ret(accesses, result) == [accesses |-> accesses, result |-> result]

(* A slice is formed and walked if the pointer is not null and the length  *)
(* not 0.                                                                  *)
Slice(mode, base, bytes) ==
    IF base = 0 \/ bytes = 0 THEN {} ELSE {Access(mode, base, bytes)}

(* The first and the last byte of a range. *)
Ends(mode, base, bytes) == {Part(mode, base, 0, 1), Part(mode, base, bytes - 1, 1)}

(* val, uaddr and flags of n entries futex_waitv, without __reserved. *)
FutexWaitVSize == 24
Entries(mode, base, n) == {Part(mode, base, FutexWaitVSize * i, 20) : i \in 0 .. n - 1}

WalkCstr(p) == {Access("read", p, CStr.size)}
WalkOptional(p) == IF p = 0 THEN {} ELSE WalkCstr(p)

-----------------------------------------------------------------------------
(* The handlers. *)

(* IORING_NOP_INJECT_RESULT is the lowest bit. *)
DispatchNop(sqe) == Ret({}, IF sqe.op_flags % 2 = 1 THEN I32(sqe.len) ELSE 0)

DispatchBufFill(sqe) ==
    LET buf == Slice("write", sqe.addr, sqe.len)
    IN  Ret(buf, IF buf = {} THEN 0 ELSE I32(sqe.len))

DispatchBufSink(sqe) ==
    LET buf == Slice("read", sqe.addr, sqe.len)
    IN  Ret(buf, IF buf = {} THEN 0 ELSE I32(sqe.len))

(* The walk over an iovec array of n entries. *)
IovWalk(mode, p, n, iovs) ==
    IF p = 0 \/ n = 0 THEN {}
    ELSE {Access("fields", p, n * IovecSize)}
            \cup UNION {Slice(mode, iovs[i].iov_base, iovs[i].iov_len) : i \in 1 .. n}

(* Mutant: iovecs with a null base are counted. *)
IovTotal_WithNull(p, n, iovs) ==
    IF p = 0 THEN 0 ELSE SumFunction([i \in 1 .. n |-> iovs[i].iov_len])
IovTotal(p, n, iovs) ==
    IF p = 0 THEN 0
    ELSE SumFunction([i \in {j \in 1 .. n : iovs[j].iov_base # 0} |-> iovs[i].iov_len])

DispatchReadv(sqe, mem) ==
    Ret(IovWalk("write", sqe.addr, sqe.len, mem.iovs),
        I32(IovTotal(sqe.addr, sqe.len, mem.iovs)))

DispatchWritev(sqe, mem) ==
    Ret(IovWalk("read", sqe.addr, sqe.len, mem.iovs),
        I32(IovTotal(sqe.addr, sqe.len, mem.iovs)))

MsgWalk(mode, sqe, mem) ==
    {Access("fields", sqe.addr, MsgHdrSize)}
        \cup Slice(mode, mem.hdr.name, mem.hdr.namelen)
        \cup Slice(mode, mem.hdr.control, mem.hdr.controllen)
        \cup IovWalk(mode, mem.hdr.iov, Len(mem.iovs), mem.iovs)

DispatchRecvMsg(sqe, mem) ==
    IF sqe.addr = 0 THEN Ret({}, EFAULT)
    ELSE Ret(MsgWalk("write", sqe, mem), I32(IovTotal(mem.hdr.iov, Len(mem.iovs), mem.iovs)))

DispatchSendMsg(sqe, mem) ==
    IF sqe.addr = 0 THEN Ret({}, EFAULT)
    ELSE Ret(MsgWalk("read", sqe, mem), I32(IovTotal(mem.hdr.iov, Len(mem.iovs), mem.iovs)))

DispatchTimeout(sqe) ==
    IF sqe.addr = 0 THEN Ret({}, EFAULT) ELSE Ret({Access("read", sqe.addr, 16)}, ETIME)

DispatchConnect(sqe) ==
    IF sqe.addr = 0 \/ sqe.off = 0 THEN Ret({}, EFAULT)
    ELSE Ret({Access("read", sqe.addr, sqe.off)}, 0)

(* Mutant: off holds the length itself, as it does for connect. *)
DispatchAccept_LenInOff(sqe, mem) == Ret(Slice("write", sqe.addr, sqe.off), FakeFd)
DispatchAccept(sqe, mem) ==
    Ret(IF sqe.addr = 0 \/ sqe.off = 0 THEN {}
        ELSE {Access("read", sqe.off, 4), Access("write", sqe.off, 4)}
                \cup Slice("write", sqe.addr, mem.addrlen),
        FakeFd)

DispatchOpenAt(sqe) ==
    IF sqe.addr = 0 THEN Ret({}, EFAULT) ELSE Ret(WalkCstr(sqe.addr), FakeFd)

DispatchOpenAt2(sqe) ==
    IF sqe.addr = 0 THEN Ret({}, EFAULT)
    ELSE Ret(WalkCstr(sqe.addr) \cup Slice("read", sqe.off, 24), FakeFd)

DispatchStatx(sqe) ==
    Ret(WalkOptional(sqe.addr) \cup Slice("write", sqe.off, 256), 0)

DispatchPathname(sqe) ==
    IF sqe.addr = 0 THEN Ret({}, EFAULT) ELSE Ret(WalkCstr(sqe.addr), 0)

(* Mutant: the first path is walked before the second one is tested. *)
DispatchPathname2_Eager(sqe) ==
    IF sqe.addr = 0 THEN Ret({}, EFAULT)
    ELSE IF sqe.off = 0 THEN Ret(WalkCstr(sqe.addr), EFAULT)
    ELSE Ret(WalkCstr(sqe.addr) \cup WalkCstr(sqe.off), 0)
DispatchPathname2(sqe) ==
    IF sqe.addr = 0 \/ sqe.off = 0 THEN Ret({}, EFAULT)
    ELSE Ret(WalkCstr(sqe.addr) \cup WalkCstr(sqe.off), 0)

DispatchEpollCtl(sqe) == Ret(Slice("read", sqe.addr, 12), 0)

DispatchFilesUpdate(sqe) ==
    LET fds == Slice("read", sqe.addr, sqe.len * 4)
    IN  Ret(fds, IF fds = {} THEN 0 ELSE I32(sqe.len))

(* A slice of the whole range is formed; only its ends are touched. *)
DispatchProvideBuffers(sqe) ==
    LET total == sqe.fd * sqe.len
    IN  Ret(IF sqe.addr = 0 \/ total = 0 THEN {} ELSE Ends("read", sqe.addr, total), 0)

(* The path of the variants without a descriptor. *)
XattrPath(sqe, code) == IF sqe.code = code THEN WalkOptional(sqe.addr3) ELSE {}

DispatchXattrSet(sqe) ==
    Ret(WalkOptional(sqe.addr) \cup Slice("read", sqe.off, sqe.len)
            \cup XattrPath(sqe, "SETXATTR"), 0)

(* Mutant: the path is tested against the wrong variant. *)
DispatchXattrGet_WrongVariant(sqe) ==
    Ret(WalkOptional(sqe.addr) \cup Slice("write", sqe.off, sqe.len)
            \cup XattrPath(sqe, "SETXATTR"), I32(sqe.len))
DispatchXattrGet(sqe) ==
    Ret(WalkOptional(sqe.addr) \cup Slice("write", sqe.off, sqe.len)
            \cup XattrPath(sqe, "GETXATTR"), I32(sqe.len))

DispatchEpollWait(sqe) == Ret(Slice("write", sqe.addr, sqe.len * 12), 0)

DispatchFutexRead(sqe) ==
    IF sqe.addr = 0 THEN Ret({}, EFAULT) ELSE Ret({Access("read", sqe.addr, 4)}, 0)

DispatchFutexWaitV(sqe) ==
    IF sqe.addr = 0 \/ sqe.len = 0 THEN Ret({}, EFAULT)
    ELSE Ret(Entries("read", sqe.addr, sqe.len), 0)

DispatchWaitId(sqe) == Ret(Slice("write", sqe.off, 128), 0)

DispatchPipe(sqe) ==
    IF sqe.addr = 0 THEN Ret({}, EFAULT) ELSE Ret({Access("write", sqe.addr, 8)}, 0)

(* Operations that touch no user memory. *)
SuccessOps ==
    {"CLOSE", "FSYNC", "SYNC_FILE_RANGE", "FALLOCATE", "FTRUNCATE", "SHUTDOWN", "POLL_ADD",
     "POLL_REMOVE", "ASYNC_CANCEL", "TIMEOUT_REMOVE", "SPLICE", "TEE", "REMOVE_BUFFERS",
     "FADVISE", "MADVISE", "MSG_RING", "LISTEN", "URING_CMD", "RECV_ZC"}

DispatchOp(sqe, mem) ==
    LET c == sqe.code
    IN  CASE c = "NOP" -> DispatchNop(sqe)
          [] c \in {"READ", "READ_FIXED", "RECV", "READ_MULTISHOT"} -> DispatchBufFill(sqe)
          [] c \in {"WRITE", "WRITE_FIXED", "SEND", "SEND_ZC"} -> DispatchBufSink(sqe)
          [] c \in {"READV", "READV_FIXED"} -> DispatchReadv(sqe, mem)
          [] c \in {"WRITEV", "WRITEV_FIXED"} -> DispatchWritev(sqe, mem)
          [] c = "RECVMSG" -> DispatchRecvMsg(sqe, mem)
          [] c \in {"SENDMSG", "SENDMSG_ZC"} -> DispatchSendMsg(sqe, mem)
          [] c \in {"TIMEOUT", "LINK_TIMEOUT"} -> DispatchTimeout(sqe)
          [] c \in {"CONNECT", "BIND"} -> DispatchConnect(sqe)
          [] c = "ACCEPT" -> DispatchAccept(sqe, mem)
          [] c = "OPENAT" -> DispatchOpenAt(sqe)
          [] c = "OPENAT2" -> DispatchOpenAt2(sqe)
          [] c = "STATX" -> DispatchStatx(sqe)
          [] c \in {"UNLINKAT", "MKDIRAT"} -> DispatchPathname(sqe)
          [] c \in {"RENAMEAT", "SYMLINKAT", "LINKAT"} -> DispatchPathname2(sqe)
          [] c = "EPOLL_CTL" -> DispatchEpollCtl(sqe)
          [] c = "FILES_UPDATE" -> DispatchFilesUpdate(sqe)
          [] c = "PROVIDE_BUFFERS" -> DispatchProvideBuffers(sqe)
          [] c \in {"FSETXATTR", "SETXATTR"} -> DispatchXattrSet(sqe)
          [] c \in {"FGETXATTR", "GETXATTR"} -> DispatchXattrGet(sqe)
          [] c = "EPOLL_WAIT" -> DispatchEpollWait(sqe)
          [] c \in {"FUTEX_WAIT", "FUTEX_WAKE"} -> DispatchFutexRead(sqe)
          [] c = "FUTEX_WAITV" -> DispatchFutexWaitV(sqe)
          [] c = "WAITID" -> DispatchWaitId(sqe)
          [] c = "PIPE" -> DispatchPipe(sqe)
          [] c \in SuccessOps -> Ret({}, 0)
          [] c \in {"SOCKET", "FIXED_FD_INSTALL"} -> Ret({}, FakeFd)
          [] OTHER -> Ret({}, ENOSYS)

(* HANDLED_OPCODES, the table behind the probe. *)
TouchingOpcodes ==
    {"NOP", "READ", "READ_FIXED", "RECV", "WRITE", "WRITE_FIXED", "SEND", "SEND_ZC", "READV",
     "WRITEV", "RECVMSG", "SENDMSG", "SENDMSG_ZC", "TIMEOUT", "LINK_TIMEOUT", "CONNECT",
     "ACCEPT", "OPENAT", "OPENAT2", "STATX", "UNLINKAT", "MKDIRAT", "RENAMEAT", "SYMLINKAT",
     "LINKAT", "BIND", "EPOLL_CTL", "FILES_UPDATE", "PROVIDE_BUFFERS", "FSETXATTR", "SETXATTR",
     "FGETXATTR", "GETXATTR", "EPOLL_WAIT", "READV_FIXED", "WRITEV_FIXED", "READ_MULTISHOT",
     "FUTEX_WAIT", "FUTEX_WAKE", "FUTEX_WAITV", "WAITID", "PIPE"}
OtherOpcodes ==
    {"CLOSE", "FSYNC", "SYNC_FILE_RANGE", "FALLOCATE", "FTRUNCATE", "SHUTDOWN", "POLL_ADD",
     "POLL_REMOVE", "ASYNC_CANCEL", "TIMEOUT_REMOVE", "SPLICE", "TEE", "REMOVE_BUFFERS",
     "FADVISE", "MADVISE", "MSG_RING", "LISTEN", "URING_CMD", "RECV_ZC", "SOCKET",
     "FIXED_FD_INSTALL"}
(* Mutant: the operations that touch no memory are forgotten. *)
HandledOpcodes_Touching == TouchingOpcodes
HandledOpcodes == TouchingOpcodes \cup OtherOpcodes

(* Probe, as register_probe fills it: a table of COUNT flags. *)
ProbeCount == 64
Supported ==
    [n \in 0 .. ProbeCount - 1 |-> \E name \in HandledOpcodes : OpcodeNumber[name] = n]
IsSupported(n) == n \in DOMAIN Supported /\ Supported[n]

-----------------------------------------------------------------------------
(* Every SQE the builders can make from small arguments, and its dispatch. *)

(* Where the caller's objects are: addresses are not small numbers. *)
Addresses == [addr |-> 300, off |-> 400, addr3 |-> 500]
Pointers(p) == {0, p}

Values(word, kind) ==
    CASE kind.is = "zero" -> {0}
      [] kind.is = "scalar" -> Scalars
      [] kind.is = "count" -> Counts
      [] kind.is = "const" -> {kind.n}
      [] OTHER -> Pointers(Addresses[word])

(* assign_fd and the flags a builder sets itself. *)
SqeFlags(b, target) ==
    LET fixed == b.fd = "fixed" \/ (b.fd \in {"target", "plain_src_target"} /\ target = "fixed")
    IN  IF b.overwrites THEN b.flags
        ELSE b.flags \cup (IF fixed THEN {"FIXED_FILE"} ELSE {})

Targets(b) == IF b.fd \in {"target", "plain_src_target"} THEN {"fd", "fixed"} ELSE {"fd"}

(* IORING_MSG_SEND_FD takes the place of the slot. *)
MsgSendFd == 1

Sqes(b, target, slotWord) ==
    [code : {b.code}, flags : {SqeFlags(b, target)},
     fd : IF b.fd = "number" THEN Scalars ELSE {0},
     addr : Values("addr", b.words.addr), off : Values("off", b.words.off),
     addr3 : IF b.slot = "send_fd" THEN {slotWord} ELSE Values("addr3", b.words.addr3),
     splice_fd_in : {IF b.slot = "send_fd" THEN MsgSendFd ELSE slotWord},
     len : Values("len", b.words.len), op_flags : Values("op_flags", b.words.op_flags)]

(* What lies behind the pointers. *)
IovArrays(n) ==
    {[i \in 1 .. n |-> [iov_base |-> IF f[i].null THEN 0 ELSE 1000 + i, iov_len |-> f[i].len]] :
        f \in [1 .. n -> [null : BOOLEAN, len : BufLens]]}

MsgHdrs ==
    [name : Pointers(600), namelen : BufLens, control : Pointers(700), controllen : BufLens,
     iov : Pointers(800)]
NoHdr == [name |-> 0, namelen |-> 0, control |-> 0, controllen |-> 0, iov |-> 0]

Mems(b, sqe) ==
    LET kind == b.words.addr
    IN  [iovs : CASE kind.is = "iov" -> IovArrays(sqe.len)
                  [] kind.is = "msg" -> UNION {IovArrays(n) : n \in Counts}
                  [] OTHER -> {<<>>},
         hdr : IF kind.is = "msg" THEN MsgHdrs ELSE {NoHdr},
         addrlen : IF kind = Accept.words.addr THEN BufLens ELSE {0}]

(* sqe_zeroed *)
ZeroedSqe ==
    [code |-> "NOP", flags |-> {}, fd |-> 0, addr |-> 0, off |-> 0, addr3 |-> 0,
     splice_fd_in |-> 0, len |-> 0, op_flags |-> 0]

OpInit ==
    /\ call = [builder |-> "Nop", target |-> "fd", slot |-> NoSlot, sqe |-> ZeroedSqe,
               mem |-> [iovs |-> <<>>, hdr |-> NoHdr, addrlen |-> 0], stage |-> "new"]
    /\ out = Ret({}, 0)
    /\ parsed = [got |-> ParseError]

(* new(...) and build() of a builder, with some arguments. *)
Build(name) ==
    /\ call.stage = "new"
    /\ LET b == Builders[name]
       IN  \E t \in Targets(b) : \E slot \in SlotRequests(b.slot) :
              \E sqe \in Sqes(b, t, SlotWord(b.slot, slot)) : \E mem \in Mems(b, sqe) :
                  call' = [builder |-> name, target |-> t, slot |-> slot, sqe |-> sqe,
                           mem |-> mem, stage |-> "built"]
    /\ UNCHANGED <<out, parsed>>

(* build() of a debug build panics on the slot. *)
BuildPanics(name) ==
    /\ call.stage = "new"
    /\ \E slot \in SlotRequests(Builders[name].slot) :
          /\ SlotOverflows(Builders[name].slot, slot)
          /\ call' = [call EXCEPT !.builder = name, !.slot = slot, !.stage = "panicked"]
    /\ UNCHANGED <<out, parsed>>

DispatchBuilt ==
    /\ call.stage = "built"
    /\ call' = [call EXCEPT !.stage = "done"]
    /\ out' = DispatchOp(call.sqe, call.mem)
    /\ UNCHANGED parsed

(* The user takes a received buffer apart, whatever it holds. *)
ParseOut ==
    /\ call.stage = "new"
    /\ \E p \in Parses :
          parsed' = [of |-> p, got |-> Parse(p.len, p.header, p.name_len, p.control_len)]
    /\ call' = [call EXCEPT !.stage = "parsed"]
    /\ UNCHANGED out

OpNext ==
    \/ \E name \in DOMAIN Builders : Build(name) \/ BuildPanics(name)
    \/ DispatchBuilt
    \/ ParseOut

OpSpec == OpInit /\ [][OpNext]_<<call, out, parsed>>
-----------------------------------------------------------------------------
(* Properties *)

(* The memory the caller lends to the operation, word by word, as its      *)
(* builder declares it.                                                    *)
NonEmpty(accesses) == {a \in accesses : a.base # 0 /\ a.bytes # 0}

LentIovs(mode, p, n, iovs) ==
    NonEmpty({Access("fields", p, n * IovecSize)}
        \cup {Access(mode, iovs[i].iov_base, iovs[i].iov_len) : i \in 1 .. n})

Times(times) ==
    CASE times = "one" -> 1
      [] times = "len" -> call.sqe.len
      [] times = "off" -> call.sqe.off
      [] times = "nbufs" -> call.sqe.fd * call.sqe.len
      [] times = "addrlen" -> IF call.sqe.off = 0 THEN 0 ELSE call.mem.addrlen
      [] times = "with_addr" -> IF call.sqe.addr = 0 THEN 0 ELSE 1

Lent(word) ==
    LET kind == Builders[call.builder].words[word]
        p == call.sqe[word]
        mem == call.mem
    IN  IF p = 0 THEN {}
        ELSE CASE kind.is = "memory" ->
                    NonEmpty({Access(m, p, kind.size * Times(kind.times)) : m \in kind.modes})
               [] kind.is = "iov" -> LentIovs(kind.mode, p, call.sqe.len, mem.iovs)
               [] kind.is = "msg" ->
                    NonEmpty({Access("fields", p, MsgHdrSize),
                              Access(kind.mode, mem.hdr.name, mem.hdr.namelen),
                              Access(kind.mode, mem.hdr.control, mem.hdr.controllen)})
                    \cup (IF mem.hdr.iov = 0 THEN {}
                          ELSE LentIovs(kind.mode, mem.hdr.iov, Len(mem.iovs), mem.iovs))
               [] OTHER -> {}

PointerWords == {"addr", "off", "addr3"}

(* A handler touches only memory the builder's caller lent to it, in the   *)
(* lent direction and extent.  Builders and handlers are two tables in two *)
(* files that agree on what each SQE word means: off is an offset, a       *)
(* length, a user_data or a pointer, and several builders share an opcode; *)
(* a number is never taken for a pointer.                                  *)
Confined ==
    \A a \in out.accesses : \E w \in PointerWords : \E l \in Lent(w) :
        l.mode = a.mode /\ l.base = a.base /\ a.at + a.bytes <= l.bytes

(* What is to be touched of memory that is lent: all of it.  But of        *)
(* provided buffers, which are lent in advance, only both ends ("without   *)
(* filling everything"), and of each futex_waitv not the reserved field.   *)
Walk(l) ==
    CASE call.builder = "ProvideBuffers" -> Ends(l.mode, l.base, l.bytes)
      [] call.builder = "FutexWaitV" -> Entries(l.mode, l.base, call.sqe.len)
      [] OTHER -> {l}

(* Words that point to memory no handler looks at: the destination address *)
(* of a send, the new timespec of a timeout, the value of a socket option. *)
NotWalked ==
    {<<"Send", "addr3">>, <<"SendZc", "addr3">>,
     <<"TimeoutUpdate", "off">>, <<"SetSockOpt", "addr3">>}

(* How far "each dispatch handler walks the same user-memory pointers the  *)
(* kernel would" (README): not for these four, behind which it touches     *)
(* nothing.  Otherwise, if it does not report a fault, it walks what was   *)
(* lent, so that Miri sees it: every byte of every buffer, string and      *)
(* structure passed by address, the fields of every msghdr and iovec, of   *)
(* provided buffers both ends and of each futex_waitv its three fields.    *)
WalksPointers ==
    call.stage = "done" /\ out.result # EFAULT =>
        \A w \in PointerWords : \A l \in Lent(w) :
            IF <<call.builder, w>> \in NotWalked
            THEN \A a \in out.accesses : a.base # l.base
            ELSE Walk(l) \subseteq out.accesses

(* A Nop with IORING_NOP_INJECT_RESULT: its len is the result to report. *)
InjectsResult == call.sqe.code = "NOP" /\ call.sqe.op_flags % 2 = 1

(* No length is as large as 2^31.  Results are lengths as i32: one of      *)
(* 2^32 - 14 bytes looks like -EFAULT.  A Nop has no length.               *)
LengthsFit ==
    /\ call.sqe.code # "NOP" => call.sqe.len < I32Half
    /\ IovTotal(1, Len(call.mem.iovs), call.mem.iovs) \in 0 .. I32Half - 1

(* A word should point to memory and lends none: it is null, or the length *)
(* that goes with it is zero.                                              *)
MissesMemory ==
    \E w \in PointerWords :
        Builders[call.builder].words[w].is \in {"memory", "iov", "msg"} /\ Lent(w) = {}

(* An operation fails, and so cancels the soft chain behind it, for one of *)
(* three causes only: it is a Nop told to report that result; it is a      *)
(* timeout (which expires at once); or it lacks memory it needs, its       *)
(* pointer being null or its length zero (connect, bind, futex_waitv), and *)
(* this is found before any of the user's memory was touched.  One that    *)
(* moved data succeeds, unless what it reports is a length that does not   *)
(* fit into the result.                                                    *)
FailsCleanly ==
    LengthsFit /\ out.result < 0 =>
        \/ InjectsResult /\ out = Ret({}, I32(call.sqe.len))
        \/ out.result = ETIME /\ call.sqe.code \in {"TIMEOUT", "LINK_TIMEOUT"}
        \/ out = Ret({}, EFAULT) /\ MissesMemory

(* For the operations that move data, vectored ones included, the result   *)
(* is the number of bytes of data touched, up to the range of an i32.      *)
MovesData ==
    {"READ", "READ_FIXED", "RECV", "WRITE", "WRITE_FIXED", "SEND", "SEND_ZC", "READV",
     "READV_FIXED", "WRITEV", "WRITEV_FIXED", "RECVMSG", "SENDMSG", "SENDMSG_ZC"}

ResultIsBytes ==
    LET vectored == Builders[call.builder].words.addr.is \in {"iov", "msg"}
        data == {a \in out.accesses : vectored => a.base > 1000}
        bytes == SumFunction([a \in data |-> a.bytes])
    IN  (/\ call.stage = "done" /\ call.sqe.code \in MovesData
         /\ out.result # EFAULT /\ bytes < I32Half)
            => out.result = bytes

(* register_probe: "Report only opcodes that dispatch_op actually handles  *)
(* (not -ENOSYS)", and it reports all of them, under their numbers.  (A    *)
(* length of 2^32 - 38 looks like -ENOSYS, and a Nop may be told to report *)
(* just that.)                                                             *)
ProbeAccurate ==
    LengthsFit /\ ~InjectsResult =>
        (IsSupported(OpcodeNumber[call.sqe.code]) <=> out.result # ENOSYS)

(* The slot the kernel's side of the interface takes from the word: 0 is   *)
(* no slot, all ones any free slot, and otherwise it is one too large.     *)
DecodedSlot(word) ==
    LET w == word % (2 * I32Half)
    IN  IF w = 0 THEN NoSlot ELSE IF w = AutoAlloc THEN AutoSlot ELSE SlotNumber(w - 1)

(* A registered-file slot survives its four encodings (idx as i32 + 1 of   *)
(* Accept, OpenAt, OpenAt2 and Socket, kernel_index_arg as i32 or as u64,  *)
(* the constant of AcceptMulti): no slot number is taken for "any" or for  *)
(* "none", over the whole range of u32.  A raw number above what a         *)
(* DestinationSlot admits has no encoding; the builder does not refuse it. *)
SlotEncoding ==
    LET kind == Builders[call.builder].slot
        word == IF kind = "send_fd" THEN call.sqe.addr3 ELSE call.sqe.splice_fd_in
        encodable == kind = "raw" => call.slot.index < AutoAlloc - 1
    IN  call.stage \in {"built", "done"} /\ encodable => DecodedSlot(word) = call.slot

(* parse accepts a buffer exactly if the header and both fields fit into   *)
(* it, also where their lengths add up to more than a usize holds; the     *)
(* slices it returns then lie inside the buffer, each inside its field,    *)
(* cut short only by the field or the buffer.                              *)
ParseInBounds ==
    call.stage = "parsed" =>
        LET p == parsed.of
            got == parsed.got
            control == DataStart + p.name_len
            payload == control + p.control_len
            part(slice, start, room, incoming) ==
                /\ slice[1] = start
                /\ slice[2] - start = LesserOf(room, incoming)
        IN  /\ got.ok <=> payload <= p.len
            /\ got.ok =>
                  /\ part(got.name, DataStart, p.name_len, p.header.namelen)
                  /\ part(got.control, control, p.control_len, p.header.controllen)
                  /\ part(got.payload, payload, p.len - payload, p.header.payloadlen)

(* A descriptor of type Fixed is marked as an index into the registered    *)
(* files, and no other descriptor is: assign_fd's contract.                *)
FixedFileFlag ==
    LET b == Builders[call.builder]
    IN  "FIXED_FILE" \in call.sqe.flags
            <=> b.fd = "fixed" \/ (b.fd = "target" /\ call.target = "fixed")
==============================================================================
