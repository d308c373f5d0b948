------------------------------- MODULE Opcodes -------------------------------
(***************************************************************************)
(* The opcode builders: which SQE fields each of them fills, and with      *)
(* what.  A builder is a record with its operation code, what it puts into *)
(* fd, the flags it sets, and the kind of each 64-bit word (and of len and *)
(* op_flags) as far as a handler of the emulator looks at it.  A word is a *)
(* plain number, or a pointer together with the memory it stands for: how  *)
(* many bytes the caller lends to the operation, to be read or written.    *)
(*                                                                         *)
(* Left out are ioprio, buf_index, all op_flags but those of Nop, and      *)
(* splice_fd_in but for the file slot it may hold: no handler reads them.  *)
(***************************************************************************)
EXTENDS Naturals, Sequences

(* Kinds of words. *)
Zero == [is |-> "zero"]
Scalar == [is |-> "scalar"]
Const(n) == [is |-> "const", n |-> n]
Count == [is |-> "count"]           \* the length of an iovec array
(* size bytes, times the value of the SQE field named by times. *)
Memory(modes, size, times) ==
    [is |-> "memory", modes |-> modes, size |-> size, times |-> times]
In(size) == Memory({"read"}, size, "one")
Out(size) == Memory({"write"}, size, "one")
CStr == In(3)                       \* a short NUL-terminated string
(* An iovec array with len entries, a msghdr: their buffers have the mode. *)
Iov(mode) == [is |-> "iov", mode |-> mode]
Msg(mode) == [is |-> "msg", mode |-> mode]

Words == {"addr", "off", "addr3", "len", "op_flags"}

(* An SQE that is zeroed and then filled.  fd is "target" (a descriptor or *)
(* a fixed index, by assign_fd), "plain" (a descriptor), "fixed", "number" *)
(* or "none" (-1, or left at 0).  slot says how the builder takes the slot *)
(* for a new registered file: see SlotRequests in Types.                   *)
Builder(code, fd, words) ==
    [code |-> code, fd |-> fd, flags |-> {}, overwrites |-> FALSE, slot |-> "none",
     words |-> [w \in Words |-> IF w \in DOMAIN words THEN words[w] ELSE Zero]]

(* sqe.flags |= BUFFER_SELECT *)
Selects(b) == [b EXCEPT !.flags = {"BUFFER_SELECT"}]

WithSlot(b, kind) == [b EXCEPT !.slot = kind]

NoWords == [len |-> Zero]

-----------------------------------------------------------------------------
Nop == Builder("NOP", "none", [op_flags |-> Scalar, len |-> Scalar])

Readv == Builder("READV", "target", [addr |-> Iov("write"), len |-> Count, off |-> Scalar])
Writev == Builder("WRITEV", "target", [addr |-> Iov("read"), len |-> Count, off |-> Scalar])
ReadvFixed == [Readv EXCEPT !.code = "READV_FIXED"]
WritevFixed == [Writev EXCEPT !.code = "WRITEV_FIXED"]

Read == Builder("READ", "target",
    [addr |-> Memory({"write"}, 1, "len"), len |-> Scalar, off |-> Scalar])
Write == Builder("WRITE", "target",
    [addr |-> Memory({"read"}, 1, "len"), len |-> Scalar, off |-> Scalar])
ReadFixed == [Read EXCEPT !.code = "READ_FIXED"]
WriteFixed == [Write EXCEPT !.code = "WRITE_FIXED"]
Recv == Builder("RECV", "target", [addr |-> Memory({"write"}, 1, "len"), len |-> Scalar])
(* dest_addr is lent too, with its length in splice_fd_in. *)
Send == Builder("SEND", "target",
    [addr |-> Memory({"read"}, 1, "len"), len |-> Scalar, addr3 |-> In(16)])
SendZc == [Send EXCEPT !.code = "SEND_ZC"]

SendMsg == Builder("SENDMSG", "target", [addr |-> Msg("read"), len |-> Const(1)])
SendMsgZc == [SendMsg EXCEPT !.code = "SENDMSG_ZC"]
RecvMsg == Builder("RECVMSG", "target", [addr |-> Msg("write"), len |-> Const(1)])

(* Buffer selection and multishot: only RecvMsgMulti lends any memory. *)
RecvMulti == Selects(Builder("RECV", "target", NoWords))
RecvMsgMulti == Selects(RecvMsg)
RecvBundle == Selects(Builder("RECV", "target", NoWords))
RecvMultiBundle == Selects(Builder("RECV", "target", NoWords))
SendBundle == Selects(Builder("SEND", "target", [len |-> Scalar]))
(* sqe.flags = BUFFER_SELECT, after assign_fd. *)
ReadMulti ==
    [Selects(Builder("READ_MULTISHOT", "target", [off |-> Scalar, len |-> Scalar]))
        EXCEPT !.overwrites = TRUE]
RecvZc == Builder("RECV_ZC", "target", [len |-> Scalar])
AcceptMulti == WithSlot(Builder("ACCEPT", "target", NoWords), "alloc")

(* The length of the sockaddr is in off; for accept, off points to it. *)
Connect == Builder("CONNECT", "target", [addr |-> Memory({"read"}, 1, "off"), off |-> Scalar])
Bind == [Connect EXCEPT !.code = "BIND"]
Accept == WithSlot(Builder("ACCEPT", "target",
    [addr |-> Memory({"write"}, 1, "addrlen"), off |-> Memory({"read", "write"}, 4, "with_addr")]),
    "raw")
Listen == Builder("LISTEN", "target", [len |-> Scalar])
Shutdown == Builder("SHUTDOWN", "target", [len |-> Scalar])
Socket == WithSlot(Builder("SOCKET", "number", [off |-> Scalar, len |-> Scalar]), "raw")
(* addr packs level and optname; the command in off is 0. *)
SetSockOpt == Builder("URING_CMD", "target",
    [addr |-> Scalar, addr3 |-> In(4)])

Timeout == Builder("TIMEOUT", "none", [addr |-> In(16), len |-> Scalar, off |-> Const(1)])
LinkTimeout == Builder("LINK_TIMEOUT", "none", [addr |-> In(16)])
TimeoutRemove == Builder("TIMEOUT_REMOVE", "none", [addr |-> Scalar])
TimeoutUpdate == Builder("TIMEOUT_REMOVE", "none", [addr |-> Scalar, off |-> In(16)])

AsyncCancel == Builder("ASYNC_CANCEL", "none", [addr |-> Scalar])
AsyncCancel2 == Builder("ASYNC_CANCEL", "number", [addr |-> Scalar])
PollAdd == Builder("POLL_ADD", "target", [len |-> Scalar])
PollRemove == Builder("POLL_REMOVE", "none", [addr |-> Scalar])

OpenAt == WithSlot(Builder("OPENAT", "target", [addr |-> CStr, len |-> Scalar]), "raw")
OpenAt2 == WithSlot(Builder("OPENAT2", "target",
    [addr |-> CStr, off |-> In(24), len |-> Const(24)]), "raw")
Statx == Builder("STATX", "target", [addr |-> CStr, off |-> Out(256), len |-> Scalar])
UnlinkAt == Builder("UNLINKAT", "target", [addr |-> CStr])
MkDirAt == Builder("MKDIRAT", "target", [addr |-> CStr, len |-> Scalar])
RenameAt == Builder("RENAMEAT", "target", [addr |-> CStr, off |-> CStr, len |-> Scalar])
SymlinkAt == Builder("SYMLINKAT", "target", [addr |-> CStr, off |-> CStr])
LinkAt == Builder("LINKAT", "target", [addr |-> CStr, off |-> CStr, len |-> Scalar])

GetXattr == Builder("GETXATTR", "none",
    [addr |-> CStr, off |-> Memory({"write"}, 1, "len"), addr3 |-> CStr, len |-> Scalar])
SetXattr == Builder("SETXATTR", "none",
    [addr |-> CStr, off |-> Memory({"read"}, 1, "len"), addr3 |-> CStr, len |-> Scalar])
FGetXattr == Builder("FGETXATTR", "target",
    [addr |-> CStr, off |-> Memory({"write"}, 1, "len"), len |-> Scalar])
FSetXattr == Builder("FSETXATTR", "target",
    [addr |-> CStr, off |-> Memory({"read"}, 1, "len"), len |-> Scalar])

EpollCtl == Builder("EPOLL_CTL", "target", [addr |-> In(12), off |-> Scalar, len |-> Scalar])
EpollWait == Builder("EPOLL_WAIT", "target",
    [addr |-> Memory({"write"}, 12, "len"), len |-> Scalar])
FilesUpdate == Builder("FILES_UPDATE", "none",
    [addr |-> Memory({"read"}, 4, "len"), len |-> Scalar, off |-> Scalar])
(* nbufs is in fd.  The range is only probed, by reads. *)
ProvideBuffers == Builder("PROVIDE_BUFFERS", "number",
    [addr |-> Memory({"read"}, 1, "nbufs"), len |-> Scalar, off |-> Scalar])
RemoveBuffers == Builder("REMOVE_BUFFERS", "number", NoWords)

FutexWait == Builder("FUTEX_WAIT", "number",
    [addr |-> In(4), off |-> Scalar, addr3 |-> Scalar])
FutexWake == [FutexWait EXCEPT !.code = "FUTEX_WAKE"]
FutexWaitV == Builder("FUTEX_WAITV", "none",
    [addr |-> Memory({"read"}, 24, "len"), len |-> Scalar])

(* infop is declared *const, and is what waitid fills in. *)
WaitId == Builder("WAITID", "number", [len |-> Scalar, off |-> Out(128)])
Pipe == WithSlot(Builder("PIPE", "none", [addr |-> Out(8)]), "option")
FixedFdInstall == Builder("FIXED_FD_INSTALL", "fixed", NoWords)

(* The source descriptor is a target of its own: its FIXED_FILE goes into  *)
(* the same flags.  The slot in the other ring goes into addr3.            *)
MsgRingSendFd == WithSlot(Builder("MSG_RING", "plain_src_target",
    [addr |-> Scalar, off |-> Scalar]), "send_fd")
MsgRing == Builder("MSG_RING", "plain", [len |-> Scalar, off |-> Scalar])
UringCmd16 == Builder("URING_CMD", "target", [off |-> Scalar, addr3 |-> Scalar])
UringCmd80 == UringCmd16

Fsync == Builder("FSYNC", "target", NoWords)
SyncFileRange == Builder("SYNC_FILE_RANGE", "target", [len |-> Scalar, off |-> Scalar])
Fallocate == Builder("FALLOCATE", "target", [addr |-> Scalar, off |-> Scalar, len |-> Scalar])
Ftruncate == Builder("FTRUNCATE", "target", [off |-> Scalar])
Fadvise == Builder("FADVISE", "target", [len |-> Scalar, off |-> Scalar])
(* An address, but nothing that would be dereferenced. *)
Madvise == Builder("MADVISE", "none", [addr |-> Scalar, len |-> Scalar])
Close == Builder("CLOSE", "target", NoWords)
Splice == Builder("SPLICE", "target", [off |-> Scalar, addr |-> Scalar, len |-> Scalar])
Tee == Builder("TEE", "target", [len |-> Scalar])

Builders ==
    [Nop |-> Nop, Readv |-> Readv, Writev |-> Writev, Fsync |-> Fsync,
     ReadFixed |-> ReadFixed, WriteFixed |-> WriteFixed, PollAdd |-> PollAdd,
     PollRemove |-> PollRemove, SyncFileRange |-> SyncFileRange, SendMsg |-> SendMsg,
     RecvMsg |-> RecvMsg, Timeout |-> Timeout, TimeoutRemove |-> TimeoutRemove,
     Accept |-> Accept, AsyncCancel |-> AsyncCancel, LinkTimeout |-> LinkTimeout,
     Connect |-> Connect, Fallocate |-> Fallocate, OpenAt |-> OpenAt, Close |-> Close,
     FilesUpdate |-> FilesUpdate, Statx |-> Statx, Read |-> Read, Write |-> Write,
     Send |-> Send, Recv |-> Recv, OpenAt2 |-> OpenAt2, EpollCtl |-> EpollCtl,
     Splice |-> Splice, ProvideBuffers |-> ProvideBuffers, RemoveBuffers |-> RemoveBuffers,
     Tee |-> Tee, Shutdown |-> Shutdown, RenameAt |-> RenameAt, UnlinkAt |-> UnlinkAt,
     MkDirAt |-> MkDirAt, SymlinkAt |-> SymlinkAt, LinkAt |-> LinkAt, MsgRing |-> MsgRing,
     MsgRingSendFd |-> MsgRingSendFd, Socket |-> Socket, SendZc |-> SendZc,
     SendMsgZc |-> SendMsgZc, Ftruncate |-> Ftruncate, Bind |-> Bind, Listen |-> Listen,
     Fadvise |-> Fadvise, Madvise |-> Madvise, AcceptMulti |-> AcceptMulti,
     RecvMulti |-> RecvMulti, RecvMsgMulti |-> RecvMsgMulti, RecvBundle |-> RecvBundle,
     RecvMultiBundle |-> RecvMultiBundle, SendBundle |-> SendBundle, ReadMulti |-> ReadMulti,
     GetXattr |-> GetXattr, SetXattr |-> SetXattr, FGetXattr |-> FGetXattr,
     FSetXattr |-> FSetXattr, AsyncCancel2 |-> AsyncCancel2, TimeoutUpdate |-> TimeoutUpdate,
     UringCmd16 |-> UringCmd16, UringCmd80 |-> UringCmd80, SetSockOpt |-> SetSockOpt,
     FutexWait |-> FutexWait, FutexWake |-> FutexWake, FutexWaitV |-> FutexWaitV,
     WaitId |-> WaitId, FixedFdInstall |-> FixedFdInstall, RecvZc |-> RecvZc,
     EpollWait |-> EpollWait, ReadvFixed |-> ReadvFixed, WritevFixed |-> WritevFixed,
     Pipe |-> Pipe]

-----------------------------------------------------------------------------
(* The operations in the order of their numbers, from 0 on. *)
OpcodeNames ==
    <<"NOP", "READV", "WRITEV", "FSYNC", "READ_FIXED", "WRITE_FIXED", "POLL_ADD",
      "POLL_REMOVE", "SYNC_FILE_RANGE", "SENDMSG", "RECVMSG", "TIMEOUT", "TIMEOUT_REMOVE",
      "ACCEPT", "ASYNC_CANCEL", "LINK_TIMEOUT", "CONNECT", "FALLOCATE", "OPENAT", "CLOSE",
      "FILES_UPDATE", "STATX", "READ", "WRITE", "FADVISE", "MADVISE", "SEND", "RECV",
      "OPENAT2", "EPOLL_CTL", "SPLICE", "PROVIDE_BUFFERS", "REMOVE_BUFFERS", "TEE",
      "SHUTDOWN", "RENAMEAT", "UNLINKAT", "MKDIRAT", "SYMLINKAT", "LINKAT", "MSG_RING",
      "FSETXATTR", "SETXATTR", "FGETXATTR", "GETXATTR", "SOCKET", "URING_CMD", "SEND_ZC",
      "SENDMSG_ZC", "READ_MULTISHOT", "WAITID", "FUTEX_WAIT", "FUTEX_WAKE", "FUTEX_WAITV",
      "FIXED_FD_INSTALL", "FTRUNCATE", "BIND", "LISTEN", "RECV_ZC", "EPOLL_WAIT",
      "READV_FIXED", "WRITEV_FIXED", "PIPE">>

OpcodeNumber ==
    [name \in {OpcodeNames[i] : i \in DOMAIN OpcodeNames} |->
        CHOOSE n \in 0 .. Len(OpcodeNames) - 1 : OpcodeNames[n + 1] = name]
==============================================================================
