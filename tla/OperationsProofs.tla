-------------------------- MODULE OperationsProofs --------------------------
(***************************************************************************)
(* The builders and the handlers agree, for every value of the numbers an  *)
(* SQE may hold and whatever lies behind its pointers; file slots and the  *)
(* parser of received messages, for every width of the integers.           *)
(***************************************************************************)
EXTENDS Operations, SequenceLemmas, FiniteSetTheorems

(* What is dispatched is what a builder made of a caller's arguments, and  *)
(* nothing else tells a handler what its words mean.                       *)
AsBuilt ==
    LET b == Builders[call.builder]
    IN  /\ call.builder \in DOMAIN Builders
        /\ call.slot \in SlotRequests(b.slot)
        /\ call.sqe \in Sqes(b, call.target, SlotWord(b.slot, call.slot))
        /\ call.mem \in Mems(b, call.sqe)

(* The inductive invariant. *)
OpInv ==
    \/ /\ call.stage \in {"new", "panicked"}
       /\ call.sqe = ZeroedSqe /\ out = Ret({}, 0)
    \/ call.stage = "built" /\ AsBuilt /\ out = Ret({}, 0)
    \/ call.stage = "done" /\ AsBuilt /\ out = DispatchOp(call.sqe, call.mem)
    \/ /\ call.stage = "parsed"
       /\ call.sqe = ZeroedSqe /\ out = Ret({}, 0)
       /\ \E p \in Parses :
             parsed = [of |-> p, got |-> Parse(p.len, p.header, p.name_len, p.control_len)]

(* The fields of a call. *)
IsCall ==
    call = [builder |-> call.builder, target |-> call.target, slot |-> call.slot,
            sqe |-> call.sqe, mem |-> call.mem, stage |-> call.stage]

LEMMA OpInitially == OpInit => OpInv /\ IsCall
  BY DEF OpInit, OpInv, IsCall

LEMMA OpNextKeeps == OpInv /\ IsCall /\ [OpNext]_<<call, out, parsed>> => OpInv' /\ IsCall'
<1> SUFFICES ASSUME OpInv, IsCall, [OpNext]_<<call, out, parsed>> PROVE OpInv' /\ IsCall'
  OBVIOUS
<1>1. ASSUME NEW name \in DOMAIN Builders, Build(name) PROVE OpInv' /\ IsCall'
  <2> DEFINE b == Builders[name]
  <2>1. PICK t \in Targets(b), slot \in SlotRequests(b.slot) :
          \E sqe \in Sqes(b, t, SlotWord(b.slot, slot)) : \E mem \in Mems(b, sqe) :
             call' = [builder |-> name, target |-> t, slot |-> slot, sqe |-> sqe,
                      mem |-> mem, stage |-> "built"]
    BY <1>1 DEF Build
  <2>2. PICK sqe \in Sqes(b, t, SlotWord(b.slot, slot)) : \E mem \in Mems(b, sqe) :
             call' = [builder |-> name, target |-> t, slot |-> slot, sqe |-> sqe,
                      mem |-> mem, stage |-> "built"]
    BY <2>1
  <2>3. PICK mem \in Mems(b, sqe) :
             call' = [builder |-> name, target |-> t, slot |-> slot, sqe |-> sqe,
                      mem |-> mem, stage |-> "built"]
    BY <2>2
  <2>4. /\ call'.builder = name /\ call'.target = t /\ call'.slot = slot
        /\ call'.sqe = sqe /\ call'.mem = mem /\ call'.stage = "built"
    BY <2>3
  <2>5. AsBuilt'
    BY <2>4 DEF AsBuilt
  <2>6. out = Ret({}, 0) /\ out' = out
    BY <1>1 DEF Build, OpInv
  <2> QED
    BY <2>3, <2>4, <2>5, <2>6 DEF OpInv, IsCall
<1>2. ASSUME NEW name \in DOMAIN Builders, BuildPanics(name) PROVE OpInv' /\ IsCall'
  <2>1. PICK slot : call' = [call EXCEPT !.builder = name, !.slot = slot, !.stage = "panicked"]
    BY <1>2 DEF BuildPanics
  <2>2. call' = [builder |-> name, target |-> call.target, slot |-> slot,
                 sqe |-> call.sqe, mem |-> call.mem, stage |-> "panicked"]
    BY <2>1 DEF IsCall
  <2>3. call.sqe = ZeroedSqe /\ out = Ret({}, 0) /\ out' = out
    BY <1>2 DEF BuildPanics, OpInv
  <2> QED
    BY <2>2, <2>3 DEF OpInv, IsCall
<1>3. ASSUME DispatchBuilt PROVE OpInv' /\ IsCall'
  <2>1. call' = [builder |-> call.builder, target |-> call.target, slot |-> call.slot,
                 sqe |-> call.sqe, mem |-> call.mem, stage |-> "done"]
    BY <1>3 DEF DispatchBuilt, IsCall
  <2>2. AsBuilt /\ out' = DispatchOp(call.sqe, call.mem)
    BY <1>3 DEF DispatchBuilt, OpInv
  <2>3. AsBuilt'
    BY <2>1, <2>2 DEF AsBuilt
  <2> QED
    BY <2>1, <2>2, <2>3 DEF OpInv, IsCall
<1>4. ASSUME ParseOut PROVE OpInv' /\ IsCall'
  <2>1. call' = [builder |-> call.builder, target |-> call.target, slot |-> call.slot,
                 sqe |-> call.sqe, mem |-> call.mem, stage |-> "parsed"]
    BY <1>4 DEF ParseOut, IsCall
  <2>2. call.sqe = ZeroedSqe /\ out = Ret({}, 0) /\ out' = out
    BY <1>4 DEF ParseOut, OpInv
  <2>3. \E p \in Parses :
           parsed' = [of |-> p, got |-> Parse(p.len, p.header, p.name_len, p.control_len)]
    BY <1>4 DEF ParseOut
  <2> QED
    BY <2>1, <2>2, <2>3 DEF OpInv, IsCall
<1>5. CASE UNCHANGED <<call, out, parsed>>
  BY <1>5 DEF OpInv, IsCall, AsBuilt
<1> QED
  BY <1>1, <1>2, <1>3, <1>4, <1>5 DEF OpNext

LEMMA OpInvariance == OpSpec => [](OpInv /\ IsCall)
  BY OpInitially, OpNextKeeps, PTL DEF OpSpec

-----------------------------------------------------------------------------
(* Casts *)

LEMMA ModIs ==
    ASSUME NEW m \in Nat \ {0}, NEW x \in Int, NEW r \in 0 .. m - 1,
           x = r \/ x = r + m \/ x = r - m
    PROVE  x % m = r
<1> DEFINE q == x \div m
           s == x % m
<1>1. x = m * q + s /\ q \in Int /\ s \in 0 .. m - 1
  BY SMT
<1> HIDE DEF q, s
<1> SUFFICES s = r
  BY DEF s
<1> DEFINE d(k) == m * k
<1>2. PICK k \in Int : m * k = s - r
  <2>1. CASE x = r
    <3>1. m * (-q) = s - r /\ -q \in Int
      BY <1>1, <2>1, SMT
    <3> QED BY <3>1
  <2>2. CASE x = r + m
    <3>1. m * (1 - q) = s - r /\ 1 - q \in Int
      BY <1>1, <2>2, SMT
    <3> QED BY <3>1
  <2>3. CASE x = r - m
    <3>1. m * (-1 - q) = s - r /\ -1 - q \in Int
      BY <1>1, <2>3, SMT
    <3> QED BY <3>1
  <2> QED
    BY <2>1, <2>2, <2>3
<1>3. s - r < m /\ s - r > -m /\ s \in Int /\ r \in Int
  BY <1>1
<1>4. CASE k >= 1
  <2>1. m * k >= m
    BY <1>4, SMT
  <2> QED
    BY <1>2, <1>3, <2>1
<1>5. CASE k <= -1
  <2>1. m * k <= -m
    BY <1>5, SMT
  <2> QED
    BY <1>2, <1>3, <2>1
<1>6. CASE k = 0
  BY <1>2, <1>3, <1>6
<1> QED
  BY <1>4, <1>5, <1>6

(* A cast to i32 keeps what fits, and wraps what is less than 2^32 more. *)
LEMMA I32Is ==
    ASSUME NEW x \in Int
    PROVE  /\ x \in -I32Half .. I32Half - 1 => I32(x) = x
           /\ x \in I32Half .. 3 * I32Half - 1 => I32(x) = x - 2 * I32Half
<1> DEFINE m == 2 * I32Half
           y == x + I32Half
<1>1. I32Half \in Nat \ {0} /\ m \in Nat \ {0} /\ y \in Int
  BY TypesAssumption
<1>2. ASSUME x \in -I32Half .. I32Half - 1 PROVE y % m = y
  <2>1. y \in 0 .. m - 1
    BY <1>1, <1>2
  <2> HIDE DEF m, y
  <2> QED
    BY <1>1, <2>1, ModIs
<1>3. ASSUME x \in I32Half .. 3 * I32Half - 1 PROVE y % m = y - m
  <2> DEFINE r == y - m
  <2>1. r \in 0 .. m - 1 /\ y = r + m
    BY <1>1, <1>3
  <2> HIDE DEF m, y, r
  <2>2. y % m = r
    BY <1>1, <2>1, ModIs
  <2> QED
    BY <2>2 DEF r
<1>4. I32(x) = (y % m) - I32Half
  BY DEF I32
<1> DEFINE z == y % m
<1>5. /\ x \in -I32Half .. I32Half - 1 => z = y
      /\ x \in I32Half .. 3 * I32Half - 1 => z = y - m
      /\ I32(x) = z - I32Half
  BY <1>2, <1>3, <1>4
<1> HIDE DEF z
<1> QED
  BY <1>1, <1>5

-----------------------------------------------------------------------------
(* Slots *)

(* A slot survives its encoding. *)
LEMMA SlotSurvives ==
    ASSUME NEW kind \in {"none", "raw", "alloc", "option", "send_fd"},
           NEW slot \in SlotRequests(kind),
           kind = "raw" => slot.index < AutoAlloc - 1
    PROVE  DecodedSlot(SlotWord(kind, slot)) = slot
<1> DEFINE m == 2 * I32Half
           word == SlotWord(kind, slot)
<1>1. I32Half \in Nat \ {0} /\ m \in Nat \ {0} /\ AutoAlloc = m - 1 /\ TypesU32 = 0 .. m - 1
  BY TypesAssumption DEF AutoAlloc, TypesU32
(* The word is w, or w - 2^32 as an i32. *)
<1>2. ASSUME NEW w \in 0 .. m - 1, word = w \/ word = w - m PROVE word % m = w
  <2>1. word \in Int /\ (word = w \/ word = w + m \/ word = w - m)
    BY <1>1, <1>2
  <2> HIDE DEF m, word
  <2> QED
    BY <1>1, <2>1, ModIs
<1>3. ASSUME NEW w \in 0 .. m - 1, word = w \/ word = w - m
      PROVE  DecodedSlot(word) =
                IF w = 0 THEN NoSlot ELSE IF w = AutoAlloc THEN AutoSlot ELSE SlotNumber(w - 1)
  BY <1>2, <1>3 DEF DecodedSlot
<1>4. ASSUME NEW n \in 0 .. m - 1 PROVE I32(n) = n \/ I32(n) = n - m
  BY <1>1, I32Is
<1>5. CASE slot = NoSlot
  <2>1. word = 0 /\ 0 \in 0 .. m - 1
    BY <1>1, <1>5 DEF SlotWord
  <2> DEFINE w == 0
  <2>2. w \in 0 .. m - 1 /\ word = w
    BY <2>1
  <2> HIDE DEF word, w
  <2>3. DecodedSlot(word) =
                IF w = 0 THEN NoSlot ELSE IF w = AutoAlloc THEN AutoSlot ELSE SlotNumber(w - 1)
    BY <1>3, <2>2
  <2> QED
    BY <1>5, <2>3 DEF w, word
<1>6. CASE slot = AutoSlot
  <2> DEFINE w == m - 1
  <2>1. w \in 0 .. m - 1 /\ w # 0 /\ w = AutoAlloc
    BY <1>1
  <2>2. slot # NoSlot /\ kind # "raw" /\ kind # "none"
    BY <1>6 DEF SlotRequests, NoSlot, AutoSlot, SlotNumber
  <2>3. word = w \/ word = w - m
    <3>1. CASE kind = "alloc"
      BY <1>1, <2>2, <3>1 DEF SlotWord
    <3>2. CASE kind = "option"
      <4>1. word = I32(w)
        BY <1>6, <2>1, <2>2, <3>2 DEF SlotWord, KernelIndexArg
      <4> HIDE DEF word, w, m
      <4> QED
        BY <1>4, <2>1, <4>1
    <3>3. CASE kind = "send_fd"
      BY <1>6, <2>1, <2>2, <3>3 DEF SlotWord, KernelIndexArg
    <3> QED
      BY <2>2, <3>1, <3>2, <3>3
  <2>4. DecodedSlot(word) =
                IF w = 0 THEN NoSlot ELSE IF w = AutoAlloc THEN AutoSlot ELSE SlotNumber(w - 1)
    BY <1>3, <2>1, <2>3
  <2> HIDE DEF w, word
  <2> QED
    BY <1>6, <2>1, <2>4 DEF word
<1>7. CASE slot # NoSlot /\ slot # AutoSlot
  <2>1. PICK i \in 0 .. m - 1 : slot = SlotNumber(i)
    BY <1>1, <1>7 DEF SlotRequests, DestinationSlots
  <2>2. slot.index = i /\ i < m - 2
    <3>1. slot.index = i
      BY <2>1 DEF SlotNumber
    <3>2. CASE kind = "raw"
      BY <1>1, <3>1, <3>2
    <3>3. CASE kind # "raw"
      <4>1. kind \in {"option", "send_fd"}
        BY <1>7, <3>3 DEF SlotRequests
      <4>2. PICK j \in TypesU32 : j <= MaxIndex /\ slot = SlotNumber(j)
        BY <1>7, <4>1 DEF SlotRequests, DestinationSlots
      <4>3. i = j
        BY <2>1, <4>2 DEF SlotNumber
      <4> QED
        BY <1>1, <3>1, <4>2, <4>3 DEF MaxIndex
    <3> QED
      BY <3>2, <3>3
  <2> DEFINE w == i + 1
  <2>3. w \in 0 .. m - 1 /\ w # 0 /\ w # AutoAlloc /\ w - 1 = i
    BY <1>1, <2>1, <2>2
  <2>4. word = w \/ word = w - m
    <3>1. CASE kind = "raw"
      <4>1. word = I32(I32(i) + 1)
        BY <1>7, <2>2, <3>1 DEF SlotWord
      <4>2. CASE i < I32Half - 1
        <5>1. i \in -I32Half .. I32Half - 1 /\ w \in -I32Half .. I32Half - 1
          BY <1>1, <2>1, <4>2
        <5>2. I32(i) = i /\ I32(w) = w
          BY <5>1, I32Is
        <5> QED
          BY <4>1, <5>2
      <4>3. CASE i = I32Half - 1
        <5>1. i \in -I32Half .. I32Half - 1 /\ w \in I32Half .. 3 * I32Half - 1 /\ w \in Int
          BY <1>1, <2>1, <4>3
        <5>2. I32(i) = i /\ I32(w) = w - m
          BY <5>1, I32Is
        <5> QED
          BY <4>1, <5>2
      <4>4. CASE i > I32Half - 1
        <5> DEFINE j == i - m
                   v == j + 1
        <5>1. i \in I32Half .. 3 * I32Half - 1 /\ v \in -I32Half .. I32Half - 1
          BY <1>1, <2>1, <2>2, <4>4
        <5>2. I32(i) = j
          BY <5>1, I32Is
        <5>3. word = I32(v)
          BY <4>1, <5>2
        <5>4. I32(v) = v
          BY <5>1, I32Is
        <5>5. v = w - m
          BY <1>1, <2>1
        <5> QED
          BY <5>3, <5>4, <5>5
      <4> QED
        BY <1>1, <2>1, <4>2, <4>3, <4>4
    <3>2. CASE kind = "option"
      <4>1. word = I32(w)
        BY <1>7, <2>2, <3>2 DEF SlotWord, KernelIndexArg
      <4> HIDE DEF word, w, m
      <4> QED
        BY <1>4, <2>3, <4>1
    <3>3. CASE kind = "send_fd"
      BY <1>7, <2>2, <3>3 DEF SlotWord, KernelIndexArg
    <3> QED
      BY <1>7, <3>1, <3>2, <3>3 DEF SlotRequests
  <2>5. DecodedSlot(word) =
                IF w = 0 THEN NoSlot ELSE IF w = AutoAlloc THEN AutoSlot ELSE SlotNumber(w - 1)
    BY <1>3, <2>3, <2>4
  <2> HIDE DEF w, word
  <2> QED
    BY <2>1, <2>3, <2>5 DEF word
<1> QED
  BY <1>5, <1>6, <1>7

-----------------------------------------------------------------------------
(* The parser *)

LEMMA ParseKeepsBounds ==
    ASSUME NEW p \in Parses,
           parsed = [of |-> p, got |-> Parse(p.len, p.header, p.name_len, p.control_len)]
    PROVE  ParseInBounds
<1> DEFINE U == UsizeModulus
           control == DataStart + p.name_len
           payload == control + p.control_len
           got == Parse(p.len, p.header, p.name_len, p.control_len)
<1>1. /\ U \in Nat \ {0} /\ p.len \in 0 .. U - 1
      /\ p.name_len \in 0 .. U - 1 /\ p.control_len \in 0 .. U - 1
      /\ p.header.namelen \in 0 .. U - 1 /\ p.header.controllen \in 0 .. U - 1
      /\ p.header.payloadlen \in 0 .. U - 1
  BY TypesAssumption, OperationsAssumption DEF Usizes
<1>2. control \in Nat /\ payload \in Nat /\ DataStart = 16
  BY <1>1 DEF DataStart
<1>3. HeaderFits(p.len, p.name_len, p.control_len) <=> payload <= p.len
  BY <1>1 DEF HeaderFits, DataStart
<1>4. \A x \in 0 .. U - 1 : Usize(x) = x
  <2> SUFFICES ASSUME NEW x \in 0 .. U - 1 PROVE x % U = x
    BY DEF Usize
  <2> HIDE DEF U
  <2>1. U \in Nat \ {0} /\ x \in Int /\ x \in 0 .. U - 1
    BY <1>1
  <2> QED
    BY <2>1, ModIs
<1>5. got.ok <=> payload <= p.len
  BY <1>3 DEF Parse, ParseError
<1>6. ASSUME payload <= p.len
      PROVE  /\ got.name = <<16, 16 + LesserOf(p.name_len, p.header.namelen)>>
             /\ got.control = <<control, control + LesserOf(p.control_len, p.header.controllen)>>
             /\ got.payload = <<payload, payload + LesserOf(p.len - payload, p.header.payloadlen)>>
  <2> DEFINE n1 == LesserOf(p.header.namelen, p.name_len)
             n2 == LesserOf(p.header.controllen, p.control_len)
             n3 == LesserOf(p.header.payloadlen, p.len - payload)
  <2>1. /\ n1 = LesserOf(p.name_len, p.header.namelen) /\ n1 \in 0 .. p.name_len
        /\ n2 = LesserOf(p.control_len, p.header.controllen) /\ n2 \in 0 .. p.control_len
        /\ n3 = LesserOf(p.len - payload, p.header.payloadlen) /\ n3 \in 0 .. p.len - payload
    BY <1>1, <1>2, <1>6 DEF LesserOf
  <2>2. /\ control \in 0 .. U - 1 /\ payload \in 0 .. U - 1 /\ p.len - payload \in 0 .. U - 1
        /\ 16 + n1 \in 0 .. U - 1 /\ control + n2 \in 0 .. U - 1 /\ payload + n3 \in 0 .. U - 1
    <3> HIDE DEF n1, n2, n3
    <3> QED
      BY <1>1, <1>2, <1>6, <2>1
  <2>3. /\ Usize(control) = control /\ Usize(payload) = payload
        /\ Usize(p.len - payload) = p.len - payload
        /\ Usize(16 + n1) = 16 + n1 /\ Usize(control + n2) = control + n2
        /\ Usize(payload + n3) = payload + n3
    <3> HIDE DEF n1, n2, n3, control, payload
    <3> QED
      BY <1>4, <2>2
  <2>4. HeaderFits(p.len, p.name_len, p.control_len)
    BY <1>3, <1>6
  <2>5. got.name = <<16, 16 + n1>> /\ got.control = <<control, control + n2>>
        /\ got.payload = <<payload, payload + n3>>
    BY <2>3, <2>4 DEF Parse, DataStart
  <2> QED
    BY <2>1, <2>5
<1>7. parsed.of = p /\ parsed.got = got
  OBVIOUS
<1>8. ASSUME payload <= p.len
      PROVE  /\ LesserOf(p.name_len, p.header.namelen) \in Int
             /\ LesserOf(p.control_len, p.header.controllen) \in Int
             /\ LesserOf(p.len - payload, p.header.payloadlen) \in Int
  BY <1>1, <1>2, <1>8 DEF LesserOf
<1> DEFINE part(slice, start, room, incoming) ==
              slice[1] = start /\ slice[2] - start = LesserOf(room, incoming)
<1>9. ASSUME NEW start \in Int, NEW room, NEW incoming, NEW slice,
             LesserOf(room, incoming) \in Int,
             slice = <<start, start + LesserOf(room, incoming)>>
      PROVE  part(slice, start, room, incoming)
  BY <1>9
<1>10. ASSUME got.ok
       PROVE  /\ part(got.name, DataStart, p.name_len, p.header.namelen)
              /\ part(got.control, control, p.control_len, p.header.controllen)
              /\ part(got.payload, payload, p.len - payload, p.header.payloadlen)
  <2>1. payload <= p.len /\ 16 \in Int /\ control \in Int /\ payload \in Int
    BY <1>2, <1>5, <1>10
  <2> HIDE DEF got, part, control, payload
  <2> QED
    BY <1>2, <1>6, <1>8, <1>9, <2>1
<1> HIDE DEF got, part, control, payload
<1> QED
  BY <1>5, <1>7, <1>10 DEF ParseInBounds, part, control, payload

-----------------------------------------------------------------------------
(* The tables *)

LEMMA BuilderNames ==
    DOMAIN Builders =
      {"Nop", "Readv", "Writev", "Fsync", "ReadFixed", "WriteFixed",
       "PollAdd", "PollRemove", "SyncFileRange", "SendMsg", "RecvMsg",
       "Timeout", "TimeoutRemove", "Accept", "AsyncCancel", "LinkTimeout",
       "Connect", "Fallocate", "OpenAt", "Close", "FilesUpdate", "Statx",
       "Read", "Write", "Send", "Recv", "OpenAt2", "EpollCtl", "Splice",
       "ProvideBuffers", "RemoveBuffers", "Tee", "Shutdown", "RenameAt",
       "UnlinkAt", "MkDirAt", "SymlinkAt", "LinkAt", "MsgRing",
       "MsgRingSendFd", "Socket", "SendZc", "SendMsgZc", "Ftruncate", "Bind",
       "Listen", "Fadvise", "Madvise", "AcceptMulti", "RecvMulti",
       "RecvMsgMulti", "RecvBundle", "RecvMultiBundle", "SendBundle",
       "ReadMulti", "GetXattr", "SetXattr", "FGetXattr", "FSetXattr",
       "AsyncCancel2", "TimeoutUpdate", "UringCmd16", "UringCmd80",
       "SetSockOpt", "FutexWait", "FutexWake", "FutexWaitV", "WaitId",
       "FixedFdInstall", "RecvZc", "EpollWait", "ReadvFixed", "WritevFixed",
       "Pipe"}
  BY DEF Builders

(* Words that are not pointers, and the ways to take a slot. *)
Plain == {Zero, Scalar, Count, Const(1), Const(24)}
SlotKinds == {"none", "raw", "alloc", "option", "send_fd"}

(* The row of a builder: its operation code, and what its words hold. *)
Row(b, codes, addr, off, addr3) ==
    /\ b.code \in codes /\ b.slot \in SlotKinds
    /\ b.words.addr \in addr /\ b.words.off \in off /\ b.words.addr3 \in addr3
    /\ b.words.len \in Plain
    /\ b.slot = "send_fd" => b.code = "MSG_RING"

LEMMA QuietRow ==
    \A name \in {"Nop", "Fsync", "PollAdd", "PollRemove", "SyncFileRange",
                 "TimeoutRemove", "AsyncCancel", "AsyncCancel2", "Fallocate",
                 "Close", "Splice", "RemoveBuffers", "Tee", "Shutdown",
                 "MsgRing", "MsgRingSendFd", "Socket", "Ftruncate", "Listen",
                 "Fadvise", "Madvise", "UringCmd16", "UringCmd80",
                 "FixedFdInstall", "RecvZc"} :
        Row(Builders[name], SuccessOps \cup {"NOP", "SOCKET", "FIXED_FD_INSTALL"},
            Plain, Plain, Plain)
<1> DEFINE R(b) == Row(b, SuccessOps \cup {"NOP", "SOCKET", "FIXED_FD_INSTALL"},
                     Plain, Plain, Plain)
<1>1. R(Nop) /\ R(Fsync) /\ R(PollAdd) /\ R(PollRemove)
        /\ R(SyncFileRange) /\ R(TimeoutRemove) /\ R(AsyncCancel) /\ R(AsyncCancel2)
  BY DEF Nop, Builder, Fsync, NoWords, PollAdd, PollRemove, SyncFileRange,
         TimeoutRemove, AsyncCancel, AsyncCancel2, Words, Row, SlotKinds,
         Plain, SuccessOps
<1>2. R(Fallocate) /\ R(Close) /\ R(Splice) /\ R(RemoveBuffers)
        /\ R(Tee) /\ R(Shutdown) /\ R(MsgRing) /\ R(MsgRingSendFd)
  BY DEF Fallocate, Builder, Close, NoWords, Splice, RemoveBuffers, Tee,
         Shutdown, MsgRing, MsgRingSendFd, WithSlot, Words, Row, SlotKinds,
         Plain, SuccessOps
<1>3. R(Socket) /\ R(Ftruncate) /\ R(Listen) /\ R(Fadvise)
        /\ R(Madvise) /\ R(UringCmd16) /\ R(UringCmd80) /\ R(FixedFdInstall)
  BY DEF Socket, WithSlot, Builder, Ftruncate, Listen, Fadvise, Madvise,
         UringCmd16, UringCmd80, FixedFdInstall, NoWords, Words, Row,
         SlotKinds, Plain, SuccessOps
<1>4. R(RecvZc)
  BY DEF RecvZc, Builder, Words, Row, SlotKinds, Plain, SuccessOps
<1> QED
  BY <1>1, <1>2, <1>3, <1>4 DEF Builders

LEMMA TimeoutUpdateRow ==
    Row(Builders["TimeoutUpdate"], {"TIMEOUT_REMOVE"}, Plain, {In(16)}, Plain)
  BY DEF Builders, TimeoutUpdate, Builder, Words, Row, SlotKinds, Plain

LEMMA SetSockOptRow ==
    Row(Builders["SetSockOpt"], {"URING_CMD"}, Plain, Plain, {In(4)})
  BY DEF Builders, SetSockOpt, Builder, Words, Row, SlotKinds, Plain

LEMMA FillRow ==
    \A name \in {"Read", "ReadFixed", "Recv", "RecvMulti", "RecvBundle",
                 "RecvMultiBundle", "ReadMulti"} :
        Row(Builders[name], {"READ", "READ_FIXED", "RECV", "READ_MULTISHOT"},
            {Zero, Memory({"write"}, 1, "len")}, Plain, Plain)
<1> DEFINE R(b) == Row(b, {"READ", "READ_FIXED", "RECV", "READ_MULTISHOT"},
                     {Zero, Memory({"write"}, 1, "len")}, Plain, Plain)
<1>1. R(Read) /\ R(ReadFixed) /\ R(Recv) /\ R(RecvMulti)
        /\ R(RecvBundle) /\ R(RecvMultiBundle) /\ R(ReadMulti)
  BY DEF Read, Builder, ReadFixed, Recv, RecvMulti, Selects, NoWords,
         RecvBundle, RecvMultiBundle, ReadMulti, Words, Row, SlotKinds, Plain
<1> QED
  BY <1>1 DEF Builders

LEMMA SinkRow ==
    \A name \in {"Write", "WriteFixed", "SendBundle"} :
        Row(Builders[name], {"WRITE", "WRITE_FIXED", "SEND"},
            {Zero, Memory({"read"}, 1, "len")}, Plain, Plain)
<1> DEFINE R(b) == Row(b, {"WRITE", "WRITE_FIXED", "SEND"},
                     {Zero, Memory({"read"}, 1, "len")}, Plain, Plain)
<1>1. R(Write) /\ R(WriteFixed) /\ R(SendBundle)
  BY DEF Write, Builder, WriteFixed, SendBundle, Selects, Words, Row,
         SlotKinds, Plain
<1> QED
  BY <1>1 DEF Builders

LEMMA SendRow ==
    \A name \in {"Send", "SendZc"} :
        Row(Builders[name], {"SEND", "SEND_ZC"},
            {Memory({"read"}, 1, "len")}, Plain, {In(16)})
<1> DEFINE R(b) == Row(b, {"SEND", "SEND_ZC"},
                     {Memory({"read"}, 1, "len")}, Plain, {In(16)})
<1>1. R(Send) /\ R(SendZc)
  BY DEF Send, Builder, SendZc, Words, Row, SlotKinds, Plain
<1> QED
  BY <1>1 DEF Builders

LEMMA ReadvRow ==
    \A name \in {"Readv", "ReadvFixed"} :
        Row(Builders[name], {"READV", "READV_FIXED"}, {Iov("write")}, Plain, Plain)
<1> DEFINE R(b) == Row(b, {"READV", "READV_FIXED"}, {Iov("write")}, Plain, Plain)
<1>1. R(Readv) /\ R(ReadvFixed)
  BY DEF Readv, Builder, ReadvFixed, Words, Row, SlotKinds, Plain
<1> QED
  BY <1>1 DEF Builders

LEMMA WritevRow ==
    \A name \in {"Writev", "WritevFixed"} :
        Row(Builders[name], {"WRITEV", "WRITEV_FIXED"}, {Iov("read")}, Plain, Plain)
<1> DEFINE R(b) == Row(b, {"WRITEV", "WRITEV_FIXED"}, {Iov("read")}, Plain, Plain)
<1>1. R(Writev) /\ R(WritevFixed)
  BY DEF Writev, Builder, WritevFixed, Words, Row, SlotKinds, Plain
<1> QED
  BY <1>1 DEF Builders

LEMMA RecvMsgRow ==
    \A name \in {"RecvMsg", "RecvMsgMulti"} :
        Row(Builders[name], {"RECVMSG"}, {Msg("write")}, Plain, Plain)
<1> DEFINE R(b) == Row(b, {"RECVMSG"}, {Msg("write")}, Plain, Plain)
<1>1. R(RecvMsg) /\ R(RecvMsgMulti)
  BY DEF RecvMsg, Builder, Const, RecvMsgMulti, Selects, Words, Row,
         SlotKinds, Plain
<1> QED
  BY <1>1 DEF Builders

LEMMA SendMsgRow ==
    \A name \in {"SendMsg", "SendMsgZc"} :
        Row(Builders[name], {"SENDMSG", "SENDMSG_ZC"}, {Msg("read")}, Plain, Plain)
<1> DEFINE R(b) == Row(b, {"SENDMSG", "SENDMSG_ZC"}, {Msg("read")}, Plain, Plain)
<1>1. R(SendMsg) /\ R(SendMsgZc)
  BY DEF SendMsg, Builder, Const, SendMsgZc, Words, Row, SlotKinds, Plain
<1> QED
  BY <1>1 DEF Builders

LEMMA TimeoutRow ==
    \A name \in {"Timeout", "LinkTimeout"} :
        Row(Builders[name], {"TIMEOUT", "LINK_TIMEOUT"}, {In(16)}, Plain, Plain)
<1> DEFINE R(b) == Row(b, {"TIMEOUT", "LINK_TIMEOUT"}, {In(16)}, Plain, Plain)
<1>1. R(Timeout) /\ R(LinkTimeout)
  BY DEF Timeout, Builder, Const, LinkTimeout, Words, Row, SlotKinds, Plain
<1> QED
  BY <1>1 DEF Builders

LEMMA ConnectRow ==
    \A name \in {"Connect", "Bind"} :
        Row(Builders[name], {"CONNECT", "BIND"},
            {Memory({"read"}, 1, "off")}, {Scalar}, Plain)
<1> DEFINE R(b) == Row(b, {"CONNECT", "BIND"},
                     {Memory({"read"}, 1, "off")}, {Scalar}, Plain)
<1>1. R(Connect) /\ R(Bind)
  BY DEF Connect, Builder, Bind, Words, Row, SlotKinds, Plain
<1> QED
  BY <1>1 DEF Builders

LEMMA AcceptRow ==
    Row(Builders["Accept"], {"ACCEPT"},
        {Memory({"write"}, 1, "addrlen")}, {Memory({"read", "write"}, 4, "with_addr")}, Plain)
  BY DEF Builders, Accept, WithSlot, Builder, Words, Row, SlotKinds, Plain

LEMMA AcceptMultiRow ==
    Row(Builders["AcceptMulti"], {"ACCEPT"}, {Zero}, {Zero}, Plain)
  BY DEF Builders, AcceptMulti, WithSlot, Builder, NoWords, Words, Row,
         SlotKinds, Plain

LEMMA OpenAtRow ==
    Row(Builders["OpenAt"], {"OPENAT"}, {CStr}, Plain, Plain)
  BY DEF Builders, OpenAt, WithSlot, Builder, Words, Row, SlotKinds, Plain

LEMMA OpenAt2Row ==
    Row(Builders["OpenAt2"], {"OPENAT2"}, {CStr}, {In(24)}, Plain)
  BY DEF Builders, OpenAt2, WithSlot, Builder, Const, Words, Row, SlotKinds,
         Plain

LEMMA StatxRow ==
    Row(Builders["Statx"], {"STATX"}, {CStr}, {Out(256)}, Plain)
  BY DEF Builders, Statx, Builder, Words, Row, SlotKinds, Plain

LEMMA PathRow ==
    \A name \in {"UnlinkAt", "MkDirAt"} :
        Row(Builders[name], {"UNLINKAT", "MKDIRAT"}, {CStr}, Plain, Plain)
<1> DEFINE R(b) == Row(b, {"UNLINKAT", "MKDIRAT"}, {CStr}, Plain, Plain)
<1>1. R(UnlinkAt) /\ R(MkDirAt)
  BY DEF UnlinkAt, Builder, MkDirAt, Words, Row, SlotKinds, Plain
<1> QED
  BY <1>1 DEF Builders

LEMMA Path2Row ==
    \A name \in {"RenameAt", "SymlinkAt", "LinkAt"} :
        Row(Builders[name], {"RENAMEAT", "SYMLINKAT", "LINKAT"}, {CStr}, {CStr}, Plain)
<1> DEFINE R(b) == Row(b, {"RENAMEAT", "SYMLINKAT", "LINKAT"}, {CStr}, {CStr}, Plain)
<1>1. R(RenameAt) /\ R(SymlinkAt) /\ R(LinkAt)
  BY DEF RenameAt, Builder, SymlinkAt, LinkAt, Words, Row, SlotKinds, Plain
<1> QED
  BY <1>1 DEF Builders

LEMMA EpollCtlRow ==
    Row(Builders["EpollCtl"], {"EPOLL_CTL"}, {In(12)}, Plain, Plain)
  BY DEF Builders, EpollCtl, Builder, Words, Row, SlotKinds, Plain

LEMMA FilesUpdateRow ==
    Row(Builders["FilesUpdate"], {"FILES_UPDATE"},
        {Memory({"read"}, 4, "len")}, Plain, Plain)
  BY DEF Builders, FilesUpdate, Builder, Words, Row, SlotKinds, Plain

LEMMA ProvideBuffersRow ==
    Row(Builders["ProvideBuffers"], {"PROVIDE_BUFFERS"},
        {Memory({"read"}, 1, "nbufs")}, Plain, Plain)
  BY DEF Builders, ProvideBuffers, Builder, Words, Row, SlotKinds, Plain

LEMMA SetXattrRow ==
    Row(Builders["SetXattr"], {"SETXATTR"}, {CStr}, {Memory({"read"}, 1, "len")}, {CStr})
  BY DEF Builders, SetXattr, Builder, Words, Row, SlotKinds, Plain

LEMMA FSetXattrRow ==
    Row(Builders["FSetXattr"], {"FSETXATTR"}, {CStr}, {Memory({"read"}, 1, "len")}, Plain)
  BY DEF Builders, FSetXattr, Builder, Words, Row, SlotKinds, Plain

LEMMA GetXattrRow ==
    Row(Builders["GetXattr"], {"GETXATTR"},
        {CStr}, {Memory({"write"}, 1, "len")}, {CStr})
  BY DEF Builders, GetXattr, Builder, Words, Row, SlotKinds, Plain

LEMMA FGetXattrRow ==
    Row(Builders["FGetXattr"], {"FGETXATTR"},
        {CStr}, {Memory({"write"}, 1, "len")}, Plain)
  BY DEF Builders, FGetXattr, Builder, Words, Row, SlotKinds, Plain

LEMMA EpollWaitRow ==
    Row(Builders["EpollWait"], {"EPOLL_WAIT"},
        {Memory({"write"}, 12, "len")}, Plain, Plain)
  BY DEF Builders, EpollWait, Builder, Words, Row, SlotKinds, Plain

LEMMA FutexRow ==
    \A name \in {"FutexWait", "FutexWake"} :
        Row(Builders[name], {"FUTEX_WAIT", "FUTEX_WAKE"}, {In(4)}, Plain, Plain)
<1> DEFINE R(b) == Row(b, {"FUTEX_WAIT", "FUTEX_WAKE"}, {In(4)}, Plain, Plain)
<1>1. R(FutexWait) /\ R(FutexWake)
  BY DEF FutexWait, Builder, FutexWake, Words, Row, SlotKinds, Plain
<1> QED
  BY <1>1 DEF Builders

LEMMA FutexWaitVRow ==
    Row(Builders["FutexWaitV"], {"FUTEX_WAITV"},
        {Memory({"read"}, 24, "len")}, Plain, Plain)
  BY DEF Builders, FutexWaitV, Builder, Words, Row, SlotKinds, Plain

LEMMA WaitIdRow ==
    Row(Builders["WaitId"], {"WAITID"}, Plain, {Out(128)}, Plain)
  BY DEF Builders, WaitId, Builder, Words, Row, SlotKinds, Plain

LEMMA PipeRow ==
    Row(Builders["Pipe"], {"PIPE"}, {Out(8)}, Plain, Plain)
  BY DEF Builders, Pipe, WithSlot, Builder, Words, Row, SlotKinds, Plain

-----------------------------------------------------------------------------
(* What an SQE holds *)

LEMMA EveryRow ==
    \A name \in DOMAIN Builders :
        /\ Builders[name].slot \in SlotKinds /\ Builders[name].words.len \in Plain
        /\ Builders[name].code \in HandledOpcodes
<1> DEFINE Fine(name) ==
              /\ Builders[name].slot \in SlotKinds /\ Builders[name].words.len \in Plain
              /\ Builders[name].code \in HandledOpcodes
<1>1. \A name \in {"Nop", "Fsync", "PollAdd", "PollRemove",
                     "SyncFileRange", "TimeoutRemove", "AsyncCancel",
                     "AsyncCancel2", "Fallocate", "Close", "Splice",
                     "RemoveBuffers", "Tee", "Shutdown", "MsgRing",
                     "MsgRingSendFd", "Socket", "Ftruncate", "Listen",
                     "Fadvise", "Madvise", "UringCmd16", "UringCmd80",
                     "FixedFdInstall", "RecvZc"} : Fine(name)
  BY QuietRow DEF Row, HandledOpcodes, TouchingOpcodes, OtherOpcodes, SuccessOps
<1>2. \A name \in {"Read", "ReadFixed", "Recv", "RecvMulti", "RecvBundle",
                     "RecvMultiBundle", "ReadMulti"} : Fine(name)
  BY FillRow DEF Row, HandledOpcodes, TouchingOpcodes, OtherOpcodes
<1>3. \A name \in {"Write", "WriteFixed", "SendBundle"} : Fine(name)
  BY SinkRow DEF Row, HandledOpcodes, TouchingOpcodes, OtherOpcodes
<1>4. \A name \in {"Send", "SendZc"} : Fine(name)
  BY SendRow DEF Row, HandledOpcodes, TouchingOpcodes, OtherOpcodes
<1>5. \A name \in {"Readv", "ReadvFixed"} : Fine(name)
  BY ReadvRow DEF Row, HandledOpcodes, TouchingOpcodes, OtherOpcodes
<1>6. \A name \in {"Writev", "WritevFixed"} : Fine(name)
  BY WritevRow DEF Row, HandledOpcodes, TouchingOpcodes, OtherOpcodes
<1>7. \A name \in {"RecvMsg", "RecvMsgMulti"} : Fine(name)
  BY RecvMsgRow DEF Row, HandledOpcodes, TouchingOpcodes, OtherOpcodes
<1>8. \A name \in {"SendMsg", "SendMsgZc"} : Fine(name)
  BY SendMsgRow DEF Row, HandledOpcodes, TouchingOpcodes, OtherOpcodes
<1>9. \A name \in {"Timeout", "LinkTimeout"} : Fine(name)
  BY TimeoutRow DEF Row, HandledOpcodes, TouchingOpcodes, OtherOpcodes
<1>10. \A name \in {"Connect", "Bind"} : Fine(name)
  BY ConnectRow DEF Row, HandledOpcodes, TouchingOpcodes, OtherOpcodes
<1>11. \A name \in {"UnlinkAt", "MkDirAt"} : Fine(name)
  BY PathRow DEF Row, HandledOpcodes, TouchingOpcodes, OtherOpcodes
<1>12. \A name \in {"RenameAt", "SymlinkAt", "LinkAt"} : Fine(name)
  BY Path2Row DEF Row, HandledOpcodes, TouchingOpcodes, OtherOpcodes
<1>13. \A name \in {"FutexWait", "FutexWake"} : Fine(name)
  BY FutexRow DEF Row, HandledOpcodes, TouchingOpcodes, OtherOpcodes
<1>14. \A name \in {"TimeoutUpdate", "SetSockOpt", "Accept", "AcceptMulti",
                     "OpenAt", "OpenAt2", "Statx", "EpollCtl", "FilesUpdate",
                     "ProvideBuffers", "SetXattr", "FSetXattr", "GetXattr",
                     "FGetXattr", "EpollWait", "FutexWaitV", "WaitId", "Pipe"} : Fine(name)
  BY TimeoutUpdateRow, SetSockOptRow, AcceptRow, AcceptMultiRow, OpenAtRow,
     OpenAt2Row, StatxRow, EpollCtlRow, FilesUpdateRow, ProvideBuffersRow,
     SetXattrRow, FSetXattrRow, GetXattrRow, FGetXattrRow, EpollWaitRow,
     FutexWaitVRow, WaitIdRow, PipeRow DEF Row, HandledOpcodes, TouchingOpcodes, OtherOpcodes
<1> HIDE DEF Fine
<1>15. \A name \in DOMAIN Builders : Fine(name)
  BY BuilderNames, <1>1, <1>2, <1>3, <1>4, <1>5, <1>6, <1>7, <1>8, <1>9, <1>10, <1>11, <1>12, <1>13, <1>14
<1> QED
  BY <1>15 DEF Fine

LEMMA SqeFacts ==
    ASSUME AsBuilt, NEW b, b = Builders[call.builder]
    PROVE  /\ call.sqe.code = b.code
           /\ call.sqe.len \in Nat /\ call.sqe.fd \in Nat
           /\ b.words.addr = Zero => call.sqe.addr = 0
           /\ b.words.off = Zero => call.sqe.off = 0
           /\ b.words.off = Scalar => call.sqe.off \in Nat
           /\ call.mem.addrlen \in Nat
<1>1. b.words.len \in Plain /\ call.sqe \in Sqes(b, call.target, SlotWord(b.slot, call.slot))
      /\ call.mem \in Mems(b, call.sqe)
  BY EveryRow DEF AsBuilt
<1>2. Scalars \subseteq Nat /\ Counts \subseteq Nat /\ BufLens \subseteq Nat
  BY OperationsAssumption
<1>3. /\ call.sqe.code = b.code
      /\ call.sqe.len \in Values("len", b.words.len)
      /\ call.sqe.fd \in Scalars \cup {0}
      /\ call.sqe.addr \in Values("addr", b.words.addr)
      /\ call.sqe.off \in Values("off", b.words.off)
  BY <1>1 DEF Sqes
<1>4. Values("len", b.words.len) \subseteq Nat
  BY <1>1, <1>2 DEF Values, Plain, Zero, Scalar, Count, Const
<1>5. /\ Values("addr", Zero) = {0} /\ Values("off", Zero) = {0}
      /\ Values("off", Scalar) = Scalars
  BY DEF Values, Zero, Scalar
<1>6. call.mem.addrlen \in BufLens \cup {0}
  BY <1>1 DEF Mems
<1>7. call.sqe.len \in Nat /\ call.sqe.fd \in Nat /\ call.mem.addrlen \in Nat
  <2>1. call.sqe.len \in Nat
    BY <1>3, <1>4
  <2>2. call.sqe.fd \in Nat
    <3>1. Scalars \cup {0} \subseteq Nat
      BY <1>2
    <3> QED
      BY <1>3, <3>1
  <2>3. call.mem.addrlen \in Nat
    <3>1. BufLens \cup {0} \subseteq Nat
      BY <1>2
    <3> QED
      BY <1>6, <3>1
  <2> QED
    BY <2>1, <2>2, <2>3
<1>8. /\ b.words.addr = Zero => call.sqe.addr = 0
      /\ b.words.off = Zero => call.sqe.off = 0
  BY <1>3, <1>5
<1>9. b.words.off = Scalar => call.sqe.off \in Nat
  BY <1>2, <1>3, <1>5
<1> QED
  BY <1>3, <1>7, <1>8, <1>9

(* The memory a word lends. *)
LEMMA LentPlain ==
    ASSUME NEW w, Builders[call.builder].words[w] \in Plain
    PROVE  Lent(w) = {}
  BY DEF Lent, Plain, Zero, Scalar, Count, Const

LEMMA LentSlice ==
    ASSUME NEW w, NEW mode, NEW size, NEW times,
           Builders[call.builder].words[w] = Memory({mode}, size, times)
    PROVE  Lent(w) = Slice(mode, call.sqe[w], size * Times(times))
<1> DEFINE kind == Builders[call.builder].words[w]
           p == call.sqe[w]
           n == size * Times(times)
<1>1. kind.is = "memory" /\ kind.modes = {mode} /\ kind.size = size /\ kind.times = times
  BY DEF Memory
<1>2. Lent(w) = IF p = 0 THEN {} ELSE NonEmpty({Access(m, p, n) : m \in {mode}})
  BY <1>1 DEF Lent
<1>3. {Access(m, p, n) : m \in {mode}} = {Access(mode, p, n)}
  OBVIOUS
<1>4. Access(mode, p, n).base = p /\ Access(mode, p, n).bytes = n
  BY DEF Access, Part
<1> HIDE DEF p, n
<1> QED
  BY <1>2, <1>3, <1>4 DEF NonEmpty, Slice, p, n

LEMMA LentAddr ==
    ASSUME NEW mode, NEW size, NEW times,
           Builders[call.builder].words.addr = Memory({mode}, size, times)
    PROVE  Lent("addr") = Slice(mode, call.sqe.addr, size * Times(times))
<1>1. Builders[call.builder].words["addr"] = Memory({mode}, size, times)
  OBVIOUS
<1> QED
  BY <1>1, LentSlice

LEMMA LentOff ==
    ASSUME NEW mode, NEW size, NEW times,
           Builders[call.builder].words.off = Memory({mode}, size, times)
    PROVE  Lent("off") = Slice(mode, call.sqe.off, size * Times(times))
<1>1. Builders[call.builder].words["off"] = Memory({mode}, size, times)
  OBVIOUS
<1> QED
  BY <1>1, LentSlice

LEMMA LentAddr3 ==
    ASSUME NEW mode, NEW size, NEW times,
           Builders[call.builder].words.addr3 = Memory({mode}, size, times)
    PROVE  Lent("addr3") = Slice(mode, call.sqe.addr3, size * Times(times))
<1>1. Builders[call.builder].words["addr3"] = Memory({mode}, size, times)
  OBVIOUS
<1> QED
  BY <1>1, LentSlice

LEMMA LentNothing ==
    LET words == Builders[call.builder].words
    IN  /\ words.addr \in Plain => Lent("addr") = {}
        /\ words.off \in Plain => Lent("off") = {}
        /\ words.addr3 \in Plain => Lent("addr3") = {}
  BY LentPlain

LEMMA LentIn ==
    ASSUME NEW n \in Nat
    PROVE  LET words == Builders[call.builder].words
           IN  /\ words.addr = In(n) => Lent("addr") = Slice("read", call.sqe.addr, n)
               /\ words.off = In(n) => Lent("off") = Slice("read", call.sqe.off, n)
               /\ words.addr3 = In(n) => Lent("addr3") = Slice("read", call.sqe.addr3, n)
<1>1. In(n) = Memory({"read"}, n, "one") /\ n * Times("one") = n
  BY DEF In, Times
<1> QED
  BY <1>1, LentAddr, LentOff, LentAddr3

LEMMA LentOut ==
    ASSUME NEW n \in Nat
    PROVE  LET words == Builders[call.builder].words
           IN  /\ words.addr = Out(n) => Lent("addr") = Slice("write", call.sqe.addr, n)
               /\ words.off = Out(n) => Lent("off") = Slice("write", call.sqe.off, n)
<1>1. Out(n) = Memory({"write"}, n, "one") /\ n * Times("one") = n
  BY DEF Out, Times
<1> QED
  BY <1>1, LentAddr, LentOff

LEMMA LentBuffer ==
    ASSUME call.sqe.len \in Nat, NEW mode, NEW n \in Nat
    PROVE  LET words == Builders[call.builder].words
           IN  /\ words.addr = Memory({mode}, n, "len") =>
                     Lent("addr") = Slice(mode, call.sqe.addr, call.sqe.len * n)
               /\ words.off = Memory({mode}, n, "len") =>
                     Lent("off") = Slice(mode, call.sqe.off, call.sqe.len * n)
<1>1. n * Times("len") = call.sqe.len * n
  BY DEF Times
<1> QED
  BY <1>1, LentAddr, LentOff

LEMMA LentBytes ==
    ASSUME call.sqe.len \in Nat, NEW mode
    PROVE  LET words == Builders[call.builder].words
           IN  /\ words.addr = Memory({mode}, 1, "len") =>
                     Lent("addr") = Slice(mode, call.sqe.addr, call.sqe.len)
               /\ words.off = Memory({mode}, 1, "len") =>
                     Lent("off") = Slice(mode, call.sqe.off, call.sqe.len)
<1>1. 1 * Times("len") = call.sqe.len
  BY DEF Times
<1> QED
  BY <1>1, LentAddr, LentOff

LEMMA InSlice ==
    ASSUME NEW mode, NEW p, NEW n, NEW a \in Slice(mode, p, n)
    PROVE  a.base = p /\ a.bytes = n /\ p # 0
  BY DEF Slice, Access, Part

LEMMA LengthResult ==
    ASSUME NEW n \in 0 .. I32Half - 1
    PROVE  I32(n) \in Nat
<1>1. n \in Int /\ n \in -I32Half .. I32Half - 1
  BY TypesAssumption
<1>2. I32(n) = n
  BY <1>1, I32Is
<1> QED
  BY <1>2

-----------------------------------------------------------------------------
(* The handlers, one by one *)

(* What a caller lent that some handler looks at. *)
WalkedLent ==
    UNION {Lent(w) : w \in {v \in PointerWords : <<call.builder, v>> \notin NotWalked}}

(* A fault: nothing is touched, and some memory is really missing. *)
Faulted == out = Ret({}, EFAULT) /\ MissesMemory

(* What holds of each handler: it walks all of that and nothing else, or   *)
(* reports a fault.                                                        *)
HandlerCorrect ==
    /\ out.accesses = UNION {Walk(l) : l \in WalkedLent} \/ Faulted
    /\ \A l \in WalkedLent : l.bytes \in Nat
    /\ LengthsFit => \/ out.result \in Nat \/ Faulted
                     \/ InjectsResult /\ out = Ret({}, I32(call.sqe.len))
                     \/ out.result = ETIME /\ call.sqe.code \in {"TIMEOUT", "LINK_TIMEOUT"}

(* But for two builders, all that is lent is walked as it is. *)
LEMMA WalksWhole ==
    ASSUME call.builder \notin {"ProvideBuffers", "FutexWaitV"}, NEW S
    PROVE  UNION {Walk(l) : l \in S} = S
<1>1. \A l : Walk(l) = {l}
  BY DEF Walk
<1> QED
  BY <1>1

LEMMA MissesAddr ==
    ASSUME Builders[call.builder].words.addr.is \in {"memory", "iov", "msg"}, Lent("addr") = {}
    PROVE  MissesMemory
<1>1. Builders[call.builder].words["addr"].is \in {"memory", "iov", "msg"}
  OBVIOUS
<1> QED
  BY <1>1 DEF MissesMemory, PointerWords

LEMMA MissesOff ==
    ASSUME Builders[call.builder].words.off.is \in {"memory", "iov", "msg"}, Lent("off") = {}
    PROVE  MissesMemory
<1>1. Builders[call.builder].words["off"].is \in {"memory", "iov", "msg"}
  OBVIOUS
<1> QED
  BY <1>1 DEF MissesMemory, PointerWords

LEMMA WalkedWords ==
    ASSUME call.builder \notin {"Send", "SendZc", "TimeoutUpdate", "SetSockOpt"}
    PROVE  WalkedLent = Lent("addr") \cup Lent("off") \cup Lent("addr3")
<1>1. {v \in PointerWords : <<call.builder, v>> \notin NotWalked} = {"addr", "off", "addr3"}
  BY DEF PointerWords, NotWalked
<1> QED
  BY <1>1 DEF WalkedLent

LEMMA OtherWords ==
    /\ call.builder \in {"Send", "SendZc", "SetSockOpt"} =>
          WalkedLent = Lent("addr") \cup Lent("off")
    /\ call.builder = "TimeoutUpdate" => WalkedLent = Lent("addr") \cup Lent("addr3")
<1>1. ASSUME call.builder \in {"Send", "SendZc", "SetSockOpt"}
      PROVE  {v \in PointerWords : <<call.builder, v>> \notin NotWalked} = {"addr", "off"}
  BY <1>1 DEF PointerWords, NotWalked
<1>2. ASSUME call.builder = "TimeoutUpdate"
      PROVE  {v \in PointerWords : <<call.builder, v>> \notin NotWalked} = {"addr", "addr3"}
  BY <1>2 DEF PointerWords, NotWalked
<1> QED
  BY <1>1, <1>2 DEF WalkedLent

LEMMA LengthFits ==
    ASSUME AsBuilt, LengthsFit, call.sqe.code # "NOP"
    PROVE  I32(call.sqe.len) \in Nat
<1>1. call.sqe.len \in 0 .. I32Half - 1
  BY SqeFacts, TypesAssumption DEF LengthsFit
<1> QED
  BY <1>1, LengthResult

LEMMA Handled ==
    ASSUME AsBuilt, call.sqe.code # "NOP",
           call.builder \notin {"ProvideBuffers", "FutexWaitV"},
           out.accesses = WalkedLent \/ Faulted,
           \A a \in WalkedLent : a.bytes \in Nat,
           out.result \in {0, FakeFd, I32(call.sqe.len)} \/ Faulted
    PROVE  HandlerCorrect
<1>1. UNION {Walk(l) : l \in WalkedLent} = WalkedLent
  BY WalksWhole
<1>2. LengthsFit => out.result \in Nat \/ Faulted
  BY LengthFits DEF FakeFd
<1> QED
  BY <1>1, <1>2 DEF HandlerCorrect

LEMMA TimeoutCorrect ==
    ASSUME AsBuilt, out = DispatchOp(call.sqe, call.mem),
           call.builder \in {"Timeout", "LinkTimeout"}
    PROVE  HandlerCorrect
<1> DEFINE b == Builders[call.builder]
<1>1. Row(b, {"TIMEOUT", "LINK_TIMEOUT"},
          {In(16)}, Plain, Plain)
  BY TimeoutRow
<1>2. /\ call.sqe.code = b.code /\ call.sqe.len \in Nat /\ call.sqe.fd \in Nat
      /\ b.words.addr = Zero => call.sqe.addr = 0
      /\ b.words.off = Scalar => call.sqe.off \in Nat
  BY SqeFacts
<1>3. out = DispatchTimeout(call.sqe)
  BY <1>1, <1>2 DEF Row, DispatchOp, SuccessOps
<1>4. Lent("addr") = Slice("read", call.sqe.addr, 16)
  BY <1>1, LentIn DEF Row
<1>5. Lent("off") = {}
  BY <1>1, LentNothing DEF Row
<1>6. Lent("addr3") = {}
  BY <1>1, LentNothing DEF Row
<1>7. WalkedLent = Slice("read", call.sqe.addr, 16)
  BY <1>4, <1>5, <1>6, WalkedWords
<1>7a. Lent("addr") = {} => MissesMemory
  BY <1>1, MissesAddr DEF Row, In, Memory
<1>8. out.accesses = WalkedLent \/ Faulted
  BY <1>1, <1>2, <1>3, <1>4, <1>7, <1>7a
  DEF Faulted, DispatchTimeout, Ret, Slice, Row
<1>9. \A a \in WalkedLent : a.bytes \in Nat
  BY <1>1, <1>2, <1>7, InSlice DEF Row
<1>10. out.result = ETIME \/ Faulted
  BY <1>3, <1>4, <1>7a DEF Faulted, Slice, DispatchTimeout, Ret
<1>11. call.sqe.code \in {"TIMEOUT", "LINK_TIMEOUT"}
  BY <1>1, <1>2 DEF Row
<1>12. UNION {Walk(l) : l \in WalkedLent} = WalkedLent
  BY WalksWhole
<1> QED
  BY <1>8, <1>9, <1>10, <1>11, <1>12 DEF HandlerCorrect

LEMMA ConnectCorrect ==
    ASSUME AsBuilt, out = DispatchOp(call.sqe, call.mem),
           call.builder \in {"Connect", "Bind"}
    PROVE  HandlerCorrect
<1> DEFINE b == Builders[call.builder]
<1>1. Row(b, {"CONNECT", "BIND"},
          {Memory({"read"}, 1, "off")}, {Scalar}, Plain)
  BY ConnectRow
<1>2. /\ call.sqe.code = b.code /\ call.sqe.len \in Nat /\ call.sqe.fd \in Nat
      /\ b.words.addr = Zero => call.sqe.addr = 0
      /\ b.words.off = Scalar => call.sqe.off \in Nat
  BY SqeFacts
<1>3. out = DispatchConnect(call.sqe)
  BY <1>1, <1>2 DEF Row, DispatchOp, SuccessOps
<1>4. Lent("addr") = Slice("read", call.sqe.addr, call.sqe.off)
  <2>1. b.words.addr = Memory({"read"}, 1, "off")
    BY <1>1 DEF Row
  <2>2. Lent("addr") = Slice("read", call.sqe.addr, 1 * Times("off"))
    BY <2>1, LentAddr
  <2>3. 1 * Times("off") = call.sqe.off
    BY <1>1, <1>2 DEF Times, Row
  <2> QED
    BY <2>2, <2>3
<1>5. Lent("off") = {}
  BY <1>1, LentNothing DEF Row, Plain
<1>6. Lent("addr3") = {}
  BY <1>1, LentNothing DEF Row
<1>7. WalkedLent = Slice("read", call.sqe.addr, call.sqe.off)
  BY <1>4, <1>5, <1>6, WalkedWords
<1>7a. Lent("addr") = {} => MissesMemory
  BY <1>1, MissesAddr DEF Row, Memory
<1>8. out.accesses = WalkedLent \/ Faulted
  BY <1>1, <1>2, <1>3, <1>4, <1>7, <1>7a
  DEF Faulted, DispatchConnect, Ret, Slice, Row
<1>9. \A a \in WalkedLent : a.bytes \in Nat
  BY <1>1, <1>2, <1>7, InSlice DEF Row
<1>10. out.result \in {0, FakeFd, I32(call.sqe.len)} \/ Faulted
  BY <1>3, <1>4, <1>7a DEF Faulted, Slice, DispatchConnect, Ret
<1>11. call.sqe.code # "NOP"
  BY <1>1, <1>2 DEF Row
<1> QED
  BY <1>8, <1>9, <1>10, <1>11, Handled

LEMMA AcceptMultiCorrect ==
    ASSUME AsBuilt, out = DispatchOp(call.sqe, call.mem),
           call.builder = "AcceptMulti"
    PROVE  HandlerCorrect
<1> DEFINE b == Builders[call.builder]
<1>1. Row(b, {"ACCEPT"},
          {Zero}, {Zero}, Plain)
  BY AcceptMultiRow
<1>2. /\ call.sqe.code = b.code /\ call.sqe.len \in Nat /\ call.sqe.fd \in Nat
      /\ b.words.addr = Zero => call.sqe.addr = 0
      /\ b.words.off = Scalar => call.sqe.off \in Nat
  BY SqeFacts
<1>3. out = DispatchAccept(call.sqe, call.mem)
  BY <1>1, <1>2 DEF Row, DispatchOp, SuccessOps
<1>4. Lent("addr") = {}
  BY <1>1, LentNothing DEF Row, Plain
<1>5. Lent("off") = {}
  BY <1>1, LentNothing DEF Row, Plain
<1>6. Lent("addr3") = {}
  BY <1>1, LentNothing DEF Row
<1>7. WalkedLent = {}
  BY <1>4, <1>5, <1>6, WalkedWords
<1>8. out.accesses = WalkedLent
  BY <1>1, <1>2, <1>3, <1>7 DEF DispatchAccept, Ret, Slice, Row
<1>9. \A a \in WalkedLent : a.bytes \in Nat
  BY <1>1, <1>2, <1>7, InSlice DEF Row
<1>10. out.result \in {0, FakeFd, I32(call.sqe.len)}
  BY <1>3 DEF DispatchAccept, Ret
<1>11. call.sqe.code # "NOP"
  BY <1>1, <1>2 DEF Row
<1> QED
  BY <1>8, <1>9, <1>10, <1>11, Handled

LEMMA OpenAtCorrect ==
    ASSUME AsBuilt, out = DispatchOp(call.sqe, call.mem),
           call.builder = "OpenAt"
    PROVE  HandlerCorrect
<1> DEFINE b == Builders[call.builder]
<1>1. Row(b, {"OPENAT"},
          {CStr}, Plain, Plain)
  BY OpenAtRow
<1>2. /\ call.sqe.code = b.code /\ call.sqe.len \in Nat /\ call.sqe.fd \in Nat
      /\ b.words.addr = Zero => call.sqe.addr = 0
      /\ b.words.off = Scalar => call.sqe.off \in Nat
  BY SqeFacts
<1>3. out = DispatchOpenAt(call.sqe)
  BY <1>1, <1>2 DEF Row, DispatchOp, SuccessOps
<1>4. Lent("addr") = Slice("read", call.sqe.addr, 3)
  BY <1>1, LentIn DEF Row, CStr
<1>5. Lent("off") = {}
  BY <1>1, LentNothing DEF Row
<1>6. Lent("addr3") = {}
  BY <1>1, LentNothing DEF Row
<1>7. WalkedLent = Slice("read", call.sqe.addr, 3)
  BY <1>4, <1>5, <1>6, WalkedWords
<1>7a. Lent("addr") = {} => MissesMemory
  BY <1>1, MissesAddr DEF Row, CStr, In, Memory
<1>8. out.accesses = WalkedLent \/ Faulted
  BY <1>1, <1>2, <1>3, <1>4, <1>7, <1>7a
  DEF Faulted, DispatchOpenAt, Ret, Slice, WalkCstr, CStr, In, Memory, Row
<1>9. \A a \in WalkedLent : a.bytes \in Nat
  BY <1>1, <1>2, <1>7, InSlice DEF Row
<1>10. out.result \in {0, FakeFd, I32(call.sqe.len)} \/ Faulted
  BY <1>3, <1>4, <1>7a DEF Faulted, Slice, DispatchOpenAt, Ret
<1>11. call.sqe.code # "NOP"
  BY <1>1, <1>2 DEF Row
<1> QED
  BY <1>8, <1>9, <1>10, <1>11, Handled

LEMMA OpenAt2Correct ==
    ASSUME AsBuilt, out = DispatchOp(call.sqe, call.mem),
           call.builder = "OpenAt2"
    PROVE  HandlerCorrect
<1> DEFINE b == Builders[call.builder]
<1>1. Row(b, {"OPENAT2"},
          {CStr}, {In(24)}, Plain)
  BY OpenAt2Row
<1>2. /\ call.sqe.code = b.code /\ call.sqe.len \in Nat /\ call.sqe.fd \in Nat
      /\ b.words.addr = Zero => call.sqe.addr = 0
      /\ b.words.off = Scalar => call.sqe.off \in Nat
  BY SqeFacts
<1>3. out = DispatchOpenAt2(call.sqe)
  BY <1>1, <1>2 DEF Row, DispatchOp, SuccessOps
<1>4. Lent("addr") = Slice("read", call.sqe.addr, 3)
  BY <1>1, LentIn DEF Row, CStr
<1>5. Lent("off") = Slice("read", call.sqe.off, 24)
  BY <1>1, LentIn DEF Row
<1>6. Lent("addr3") = {}
  BY <1>1, LentNothing DEF Row
<1>7. WalkedLent = Slice("read", call.sqe.addr, 3)
                     \cup Slice("read", call.sqe.off, 24)
  BY <1>4, <1>5, <1>6, WalkedWords
<1>7a. Lent("addr") = {} => MissesMemory
  BY <1>1, MissesAddr DEF Row, CStr, In, Memory
<1>8. out.accesses = WalkedLent \/ Faulted
  BY <1>1, <1>2, <1>3, <1>4, <1>7, <1>7a
  DEF Faulted, DispatchOpenAt2, Ret, Slice, WalkCstr, CStr, In, Memory, Row
<1>9. \A a \in WalkedLent : a.bytes \in Nat
  BY <1>1, <1>2, <1>7, InSlice DEF Row
<1>10. out.result \in {0, FakeFd, I32(call.sqe.len)} \/ Faulted
  BY <1>3, <1>4, <1>7a DEF Faulted, Slice, DispatchOpenAt2, Ret
<1>11. call.sqe.code # "NOP"
  BY <1>1, <1>2 DEF Row
<1> QED
  BY <1>8, <1>9, <1>10, <1>11, Handled

LEMMA StatxCorrect ==
    ASSUME AsBuilt, out = DispatchOp(call.sqe, call.mem),
           call.builder = "Statx"
    PROVE  HandlerCorrect
<1> DEFINE b == Builders[call.builder]
<1>1. Row(b, {"STATX"},
          {CStr}, {Out(256)}, Plain)
  BY StatxRow
<1>2. /\ call.sqe.code = b.code /\ call.sqe.len \in Nat /\ call.sqe.fd \in Nat
      /\ b.words.addr = Zero => call.sqe.addr = 0
      /\ b.words.off = Scalar => call.sqe.off \in Nat
  BY SqeFacts
<1>3. out = DispatchStatx(call.sqe)
  BY <1>1, <1>2 DEF Row, DispatchOp, SuccessOps
<1>4. Lent("addr") = Slice("read", call.sqe.addr, 3)
  BY <1>1, LentIn DEF Row, CStr
<1>5. Lent("off") = Slice("write", call.sqe.off, 256)
  BY <1>1, LentOut DEF Row
<1>6. Lent("addr3") = {}
  BY <1>1, LentNothing DEF Row
<1>7. WalkedLent = Slice("read", call.sqe.addr, 3)
                     \cup Slice("write", call.sqe.off, 256)
  BY <1>4, <1>5, <1>6, WalkedWords
<1>8. out.accesses = WalkedLent
  BY <1>1, <1>2, <1>3, <1>7 DEF DispatchStatx, Ret, Slice, WalkOptional, WalkCstr, CStr, In, Memory, Row
<1>9. \A a \in WalkedLent : a.bytes \in Nat
  BY <1>1, <1>2, <1>7, InSlice DEF Row
<1>10. out.result \in {0, FakeFd, I32(call.sqe.len)}
  BY <1>3 DEF DispatchStatx, Ret
<1>11. call.sqe.code # "NOP"
  BY <1>1, <1>2 DEF Row
<1> QED
  BY <1>8, <1>9, <1>10, <1>11, Handled

LEMMA PathCorrect ==
    ASSUME AsBuilt, out = DispatchOp(call.sqe, call.mem),
           call.builder \in {"UnlinkAt", "MkDirAt"}
    PROVE  HandlerCorrect
<1> DEFINE b == Builders[call.builder]
<1>1. Row(b, {"UNLINKAT", "MKDIRAT"},
          {CStr}, Plain, Plain)
  BY PathRow
<1>2. /\ call.sqe.code = b.code /\ call.sqe.len \in Nat /\ call.sqe.fd \in Nat
      /\ b.words.addr = Zero => call.sqe.addr = 0
      /\ b.words.off = Scalar => call.sqe.off \in Nat
  BY SqeFacts
<1>3. out = DispatchPathname(call.sqe)
  BY <1>1, <1>2 DEF Row, DispatchOp, SuccessOps
<1>4. Lent("addr") = Slice("read", call.sqe.addr, 3)
  BY <1>1, LentIn DEF Row, CStr
<1>5. Lent("off") = {}
  BY <1>1, LentNothing DEF Row
<1>6. Lent("addr3") = {}
  BY <1>1, LentNothing DEF Row
<1>7. WalkedLent = Slice("read", call.sqe.addr, 3)
  BY <1>4, <1>5, <1>6, WalkedWords
<1>7a. Lent("addr") = {} => MissesMemory
  BY <1>1, MissesAddr DEF Row, CStr, In, Memory
<1>8. out.accesses = WalkedLent \/ Faulted
  BY <1>1, <1>2, <1>3, <1>4, <1>7, <1>7a
  DEF Faulted, DispatchPathname, Ret, Slice, WalkCstr, CStr, In, Memory, Row
<1>9. \A a \in WalkedLent : a.bytes \in Nat
  BY <1>1, <1>2, <1>7, InSlice DEF Row
<1>10. out.result \in {0, FakeFd, I32(call.sqe.len)} \/ Faulted
  BY <1>3, <1>4, <1>7a DEF Faulted, Slice, DispatchPathname, Ret
<1>11. call.sqe.code # "NOP"
  BY <1>1, <1>2 DEF Row
<1> QED
  BY <1>8, <1>9, <1>10, <1>11, Handled

LEMMA Path2Correct ==
    ASSUME AsBuilt, out = DispatchOp(call.sqe, call.mem),
           call.builder \in {"RenameAt", "SymlinkAt", "LinkAt"}
    PROVE  HandlerCorrect
<1> DEFINE b == Builders[call.builder]
<1>1. Row(b, {"RENAMEAT", "SYMLINKAT", "LINKAT"},
          {CStr}, {CStr}, Plain)
  BY Path2Row
<1>2. /\ call.sqe.code = b.code /\ call.sqe.len \in Nat /\ call.sqe.fd \in Nat
      /\ b.words.addr = Zero => call.sqe.addr = 0
      /\ b.words.off = Scalar => call.sqe.off \in Nat
  BY SqeFacts
<1>3. out = DispatchPathname2(call.sqe)
  BY <1>1, <1>2 DEF Row, DispatchOp, SuccessOps
<1>4. Lent("addr") = Slice("read", call.sqe.addr, 3)
  BY <1>1, LentIn DEF Row, CStr
<1>5. Lent("off") = Slice("read", call.sqe.off, 3)
  BY <1>1, LentIn DEF Row, CStr
<1>6. Lent("addr3") = {}
  BY <1>1, LentNothing DEF Row
<1>7. WalkedLent = Slice("read", call.sqe.addr, 3)
                     \cup Slice("read", call.sqe.off, 3)
  BY <1>4, <1>5, <1>6, WalkedWords
<1>7a. Lent("addr") = {} => MissesMemory
  BY <1>1, MissesAddr DEF Row, CStr, In, Memory
<1>7b. Lent("off") = {} => MissesMemory
  BY <1>1, MissesOff DEF Row, CStr, In, Memory
<1>8. out.accesses = WalkedLent \/ Faulted
  BY <1>1, <1>2, <1>3, <1>4, <1>5, <1>7, <1>7a, <1>7b
  DEF Faulted, DispatchPathname2, Ret, Slice, WalkCstr, CStr, In, Memory, Row
<1>9. \A a \in WalkedLent : a.bytes \in Nat
  BY <1>1, <1>2, <1>7, InSlice DEF Row
<1>10. out.result \in {0, FakeFd, I32(call.sqe.len)} \/ Faulted
  BY <1>3, <1>4, <1>5, <1>7a, <1>7b DEF Faulted, Slice, DispatchPathname2, Ret
<1>11. call.sqe.code # "NOP"
  BY <1>1, <1>2 DEF Row
<1> QED
  BY <1>8, <1>9, <1>10, <1>11, Handled

LEMMA EpollCtlCorrect ==
    ASSUME AsBuilt, out = DispatchOp(call.sqe, call.mem),
           call.builder = "EpollCtl"
    PROVE  HandlerCorrect
<1> DEFINE b == Builders[call.builder]
<1>1. Row(b, {"EPOLL_CTL"},
          {In(12)}, Plain, Plain)
  BY EpollCtlRow
<1>2. /\ call.sqe.code = b.code /\ call.sqe.len \in Nat /\ call.sqe.fd \in Nat
      /\ b.words.addr = Zero => call.sqe.addr = 0
      /\ b.words.off = Scalar => call.sqe.off \in Nat
  BY SqeFacts
<1>3. out = DispatchEpollCtl(call.sqe)
  BY <1>1, <1>2 DEF Row, DispatchOp, SuccessOps
<1>4. Lent("addr") = Slice("read", call.sqe.addr, 12)
  BY <1>1, LentIn DEF Row
<1>5. Lent("off") = {}
  BY <1>1, LentNothing DEF Row
<1>6. Lent("addr3") = {}
  BY <1>1, LentNothing DEF Row
<1>7. WalkedLent = Slice("read", call.sqe.addr, 12)
  BY <1>4, <1>5, <1>6, WalkedWords
<1>8. out.accesses = WalkedLent
  BY <1>1, <1>2, <1>3, <1>7 DEF DispatchEpollCtl, Ret, Slice, Row
<1>9. \A a \in WalkedLent : a.bytes \in Nat
  BY <1>1, <1>2, <1>7, InSlice DEF Row
<1>10. out.result \in {0, FakeFd, I32(call.sqe.len)}
  BY <1>3 DEF DispatchEpollCtl, Ret
<1>11. call.sqe.code # "NOP"
  BY <1>1, <1>2 DEF Row
<1> QED
  BY <1>8, <1>9, <1>10, <1>11, Handled

LEMMA FilesUpdateCorrect ==
    ASSUME AsBuilt, out = DispatchOp(call.sqe, call.mem),
           call.builder = "FilesUpdate"
    PROVE  HandlerCorrect
<1> DEFINE b == Builders[call.builder]
<1>1. Row(b, {"FILES_UPDATE"},
          {Memory({"read"}, 4, "len")}, Plain, Plain)
  BY FilesUpdateRow
<1>2. /\ call.sqe.code = b.code /\ call.sqe.len \in Nat /\ call.sqe.fd \in Nat
      /\ b.words.addr = Zero => call.sqe.addr = 0
      /\ b.words.off = Scalar => call.sqe.off \in Nat
  BY SqeFacts
<1>3. out = DispatchFilesUpdate(call.sqe)
  BY <1>1, <1>2 DEF Row, DispatchOp, SuccessOps
<1>4. Lent("addr") = Slice("read", call.sqe.addr, call.sqe.len * 4)
  BY <1>1, <1>2, LentBuffer DEF Row
<1>5. Lent("off") = {}
  BY <1>1, LentNothing DEF Row
<1>6. Lent("addr3") = {}
  BY <1>1, LentNothing DEF Row
<1>7. WalkedLent = Slice("read", call.sqe.addr, call.sqe.len * 4)
  BY <1>4, <1>5, <1>6, WalkedWords
<1>8. out.accesses = WalkedLent
  BY <1>1, <1>2, <1>3, <1>7 DEF DispatchFilesUpdate, Ret, Slice, Row
<1>9. \A a \in WalkedLent : a.bytes \in Nat
  BY <1>1, <1>2, <1>7, InSlice DEF Row
<1>10. out.result \in {0, FakeFd, I32(call.sqe.len)}
  BY <1>3 DEF DispatchFilesUpdate, Ret
<1>11. call.sqe.code # "NOP"
  BY <1>1, <1>2 DEF Row
<1> QED
  BY <1>8, <1>9, <1>10, <1>11, Handled

LEMMA ProvideBuffersCorrect ==
    ASSUME AsBuilt, out = DispatchOp(call.sqe, call.mem),
           call.builder = "ProvideBuffers"
    PROVE  HandlerCorrect
<1> DEFINE b == Builders[call.builder]
<1>1. Row(b, {"PROVIDE_BUFFERS"},
          {Memory({"read"}, 1, "nbufs")}, Plain, Plain)
  BY ProvideBuffersRow
<1>2. /\ call.sqe.code = b.code /\ call.sqe.len \in Nat /\ call.sqe.fd \in Nat
      /\ b.words.addr = Zero => call.sqe.addr = 0
      /\ b.words.off = Scalar => call.sqe.off \in Nat
  BY SqeFacts
<1>3. out = DispatchProvideBuffers(call.sqe)
  BY <1>1, <1>2 DEF Row, DispatchOp, SuccessOps
<1>4. Lent("addr") = Slice("read", call.sqe.addr, call.sqe.fd * call.sqe.len)
  <2>1. b.words.addr = Memory({"read"}, 1, "nbufs")
    BY <1>1 DEF Row
  <2>2. Lent("addr") = Slice("read", call.sqe.addr, 1 * Times("nbufs"))
    BY <2>1, LentAddr
  <2>3. 1 * Times("nbufs") = call.sqe.fd * call.sqe.len
    BY <1>1, <1>2 DEF Times, Row
  <2> QED
    BY <2>2, <2>3
<1>5. Lent("off") = {}
  BY <1>1, LentNothing DEF Row
<1>6. Lent("addr3") = {}
  BY <1>1, LentNothing DEF Row
<1>7. WalkedLent = Slice("read", call.sqe.addr, call.sqe.fd * call.sqe.len)
  BY <1>4, <1>5, <1>6, WalkedWords
<1> DEFINE p == call.sqe.addr
           total == call.sqe.fd * call.sqe.len
           lent == Access("read", p, total)
<1>8. lent.mode = "read" /\ lent.base = p /\ lent.bytes = total
  BY DEF Access, Part
<1>9. total \in Nat
  BY <1>2
<1>10. out = Ret(IF p = 0 \/ total = 0 THEN {} ELSE Ends("read", p, total), 0)
  BY <1>3 DEF DispatchProvideBuffers
<1>11. WalkedLent = IF p = 0 \/ total = 0 THEN {} ELSE {lent}
  BY <1>7 DEF Slice
<1> HIDE DEF p, total, lent
<1>12. Walk(lent) = Ends("read", p, total)
  BY <1>8 DEF Walk
<1>13. out.accesses = UNION {Walk(l) : l \in WalkedLent}
  BY <1>10, <1>11, <1>12 DEF Ret
<1>14. \A l \in WalkedLent : l.bytes \in Nat
  BY <1>8, <1>9, <1>11
<1>15. out.result \in Nat
  BY <1>10 DEF Ret
<1> QED
  BY <1>13, <1>14, <1>15 DEF HandlerCorrect

LEMMA SetXattrCorrect ==
    ASSUME AsBuilt, out = DispatchOp(call.sqe, call.mem),
           call.builder = "SetXattr"
    PROVE  HandlerCorrect
<1> DEFINE b == Builders[call.builder]
<1>1. Row(b, {"SETXATTR"},
          {CStr}, {Memory({"read"}, 1, "len")}, {CStr})
  BY SetXattrRow
<1>2. /\ call.sqe.code = b.code /\ call.sqe.len \in Nat /\ call.sqe.fd \in Nat
      /\ b.words.addr = Zero => call.sqe.addr = 0
      /\ b.words.off = Scalar => call.sqe.off \in Nat
  BY SqeFacts
<1>3. out = DispatchXattrSet(call.sqe)
  BY <1>1, <1>2 DEF Row, DispatchOp, SuccessOps
<1>4. Lent("addr") = Slice("read", call.sqe.addr, 3)
  BY <1>1, LentIn DEF Row, CStr
<1>5. Lent("off") = Slice("read", call.sqe.off, call.sqe.len)
  BY <1>1, <1>2, LentBytes DEF Row
<1>6. Lent("addr3") = Slice("read", call.sqe.addr3, 3)
  BY <1>1, LentIn DEF Row, CStr
<1>7. WalkedLent = Slice("read", call.sqe.addr, 3)
                     \cup Slice("read", call.sqe.off, call.sqe.len)
                     \cup Slice("read", call.sqe.addr3, 3)
  BY <1>4, <1>5, <1>6, WalkedWords
<1>8. out.accesses = WalkedLent
  BY <1>1, <1>2, <1>3, <1>7 DEF DispatchXattrSet, Ret, Slice, XattrPath, WalkOptional, WalkCstr, CStr, In, Memory, Row
<1>9. \A a \in WalkedLent : a.bytes \in Nat
  BY <1>1, <1>2, <1>7, InSlice DEF Row
<1>10. out.result \in {0, FakeFd, I32(call.sqe.len)}
  BY <1>3 DEF DispatchXattrSet, Ret
<1>11. call.sqe.code # "NOP"
  BY <1>1, <1>2 DEF Row
<1> QED
  BY <1>8, <1>9, <1>10, <1>11, Handled

LEMMA FSetXattrCorrect ==
    ASSUME AsBuilt, out = DispatchOp(call.sqe, call.mem),
           call.builder = "FSetXattr"
    PROVE  HandlerCorrect
<1> DEFINE b == Builders[call.builder]
<1>1. Row(b, {"FSETXATTR"},
          {CStr}, {Memory({"read"}, 1, "len")}, Plain)
  BY FSetXattrRow
<1>2. /\ call.sqe.code = b.code /\ call.sqe.len \in Nat /\ call.sqe.fd \in Nat
      /\ b.words.addr = Zero => call.sqe.addr = 0
      /\ b.words.off = Scalar => call.sqe.off \in Nat
  BY SqeFacts
<1>3. out = DispatchXattrSet(call.sqe)
  BY <1>1, <1>2 DEF Row, DispatchOp, SuccessOps
<1>4. Lent("addr") = Slice("read", call.sqe.addr, 3)
  BY <1>1, LentIn DEF Row, CStr
<1>5. Lent("off") = Slice("read", call.sqe.off, call.sqe.len)
  BY <1>1, <1>2, LentBytes DEF Row
<1>6. Lent("addr3") = {}
  BY <1>1, LentNothing DEF Row
<1>7. WalkedLent = Slice("read", call.sqe.addr, 3)
                     \cup Slice("read", call.sqe.off, call.sqe.len)
  BY <1>4, <1>5, <1>6, WalkedWords
<1>8. out.accesses = WalkedLent
  BY <1>1, <1>2, <1>3, <1>7 DEF DispatchXattrSet, Ret, Slice, XattrPath, WalkOptional, WalkCstr, CStr, In, Memory, Row
<1>9. \A a \in WalkedLent : a.bytes \in Nat
  BY <1>1, <1>2, <1>7, InSlice DEF Row
<1>10. out.result \in {0, FakeFd, I32(call.sqe.len)}
  BY <1>3 DEF DispatchXattrSet, Ret
<1>11. call.sqe.code # "NOP"
  BY <1>1, <1>2 DEF Row
<1> QED
  BY <1>8, <1>9, <1>10, <1>11, Handled

LEMMA GetXattrCorrect ==
    ASSUME AsBuilt, out = DispatchOp(call.sqe, call.mem),
           call.builder = "GetXattr"
    PROVE  HandlerCorrect
<1> DEFINE b == Builders[call.builder]
<1>1. Row(b, {"GETXATTR"},
          {CStr}, {Memory({"write"}, 1, "len")}, {CStr})
  BY GetXattrRow
<1>2. /\ call.sqe.code = b.code /\ call.sqe.len \in Nat /\ call.sqe.fd \in Nat
      /\ b.words.addr = Zero => call.sqe.addr = 0
      /\ b.words.off = Scalar => call.sqe.off \in Nat
  BY SqeFacts
<1>3. out = DispatchXattrGet(call.sqe)
  BY <1>1, <1>2 DEF Row, DispatchOp, SuccessOps
<1>4. Lent("addr") = Slice("read", call.sqe.addr, 3)
  BY <1>1, LentIn DEF Row, CStr
<1>5. Lent("off") = Slice("write", call.sqe.off, call.sqe.len)
  BY <1>1, <1>2, LentBytes DEF Row
<1>6. Lent("addr3") = Slice("read", call.sqe.addr3, 3)
  BY <1>1, LentIn DEF Row, CStr
<1>7. WalkedLent = Slice("read", call.sqe.addr, 3)
                     \cup Slice("write", call.sqe.off, call.sqe.len)
                     \cup Slice("read", call.sqe.addr3, 3)
  BY <1>4, <1>5, <1>6, WalkedWords
<1>8. out.accesses = WalkedLent
  BY <1>1, <1>2, <1>3, <1>7 DEF DispatchXattrGet, Ret, Slice, XattrPath, WalkOptional, WalkCstr, CStr, In, Memory, Row
<1>9. \A a \in WalkedLent : a.bytes \in Nat
  BY <1>1, <1>2, <1>7, InSlice DEF Row
<1>10. out.result \in {0, FakeFd, I32(call.sqe.len)}
  BY <1>3 DEF DispatchXattrGet, Ret
<1>11. call.sqe.code # "NOP"
  BY <1>1, <1>2 DEF Row
<1> QED
  BY <1>8, <1>9, <1>10, <1>11, Handled

LEMMA FGetXattrCorrect ==
    ASSUME AsBuilt, out = DispatchOp(call.sqe, call.mem),
           call.builder = "FGetXattr"
    PROVE  HandlerCorrect
<1> DEFINE b == Builders[call.builder]
<1>1. Row(b, {"FGETXATTR"},
          {CStr}, {Memory({"write"}, 1, "len")}, Plain)
  BY FGetXattrRow
<1>2. /\ call.sqe.code = b.code /\ call.sqe.len \in Nat /\ call.sqe.fd \in Nat
      /\ b.words.addr = Zero => call.sqe.addr = 0
      /\ b.words.off = Scalar => call.sqe.off \in Nat
  BY SqeFacts
<1>3. out = DispatchXattrGet(call.sqe)
  BY <1>1, <1>2 DEF Row, DispatchOp, SuccessOps
<1>4. Lent("addr") = Slice("read", call.sqe.addr, 3)
  BY <1>1, LentIn DEF Row, CStr
<1>5. Lent("off") = Slice("write", call.sqe.off, call.sqe.len)
  BY <1>1, <1>2, LentBytes DEF Row
<1>6. Lent("addr3") = {}
  BY <1>1, LentNothing DEF Row
<1>7. WalkedLent = Slice("read", call.sqe.addr, 3)
                     \cup Slice("write", call.sqe.off, call.sqe.len)
  BY <1>4, <1>5, <1>6, WalkedWords
<1>8. out.accesses = WalkedLent
  BY <1>1, <1>2, <1>3, <1>7 DEF DispatchXattrGet, Ret, Slice, XattrPath, WalkOptional, WalkCstr, CStr, In, Memory, Row
<1>9. \A a \in WalkedLent : a.bytes \in Nat
  BY <1>1, <1>2, <1>7, InSlice DEF Row
<1>10. out.result \in {0, FakeFd, I32(call.sqe.len)}
  BY <1>3 DEF DispatchXattrGet, Ret
<1>11. call.sqe.code # "NOP"
  BY <1>1, <1>2 DEF Row
<1> QED
  BY <1>8, <1>9, <1>10, <1>11, Handled

LEMMA EpollWaitCorrect ==
    ASSUME AsBuilt, out = DispatchOp(call.sqe, call.mem),
           call.builder = "EpollWait"
    PROVE  HandlerCorrect
<1> DEFINE b == Builders[call.builder]
<1>1. Row(b, {"EPOLL_WAIT"},
          {Memory({"write"}, 12, "len")}, Plain, Plain)
  BY EpollWaitRow
<1>2. /\ call.sqe.code = b.code /\ call.sqe.len \in Nat /\ call.sqe.fd \in Nat
      /\ b.words.addr = Zero => call.sqe.addr = 0
      /\ b.words.off = Scalar => call.sqe.off \in Nat
  BY SqeFacts
<1>3. out = DispatchEpollWait(call.sqe)
  BY <1>1, <1>2 DEF Row, DispatchOp, SuccessOps
<1>4. Lent("addr") = Slice("write", call.sqe.addr, call.sqe.len * 12)
  BY <1>1, <1>2, LentBuffer DEF Row
<1>5. Lent("off") = {}
  BY <1>1, LentNothing DEF Row
<1>6. Lent("addr3") = {}
  BY <1>1, LentNothing DEF Row
<1>7. WalkedLent = Slice("write", call.sqe.addr, call.sqe.len * 12)
  BY <1>4, <1>5, <1>6, WalkedWords
<1>8. out.accesses = WalkedLent
  BY <1>1, <1>2, <1>3, <1>7 DEF DispatchEpollWait, Ret, Slice, Row
<1>9. \A a \in WalkedLent : a.bytes \in Nat
  BY <1>1, <1>2, <1>7, InSlice DEF Row
<1>10. out.result \in {0, FakeFd, I32(call.sqe.len)}
  BY <1>3 DEF DispatchEpollWait, Ret
<1>11. call.sqe.code # "NOP"
  BY <1>1, <1>2 DEF Row
<1> QED
  BY <1>8, <1>9, <1>10, <1>11, Handled

LEMMA FutexCorrect ==
    ASSUME AsBuilt, out = DispatchOp(call.sqe, call.mem),
           call.builder \in {"FutexWait", "FutexWake"}
    PROVE  HandlerCorrect
<1> DEFINE b == Builders[call.builder]
<1>1. Row(b, {"FUTEX_WAIT", "FUTEX_WAKE"},
          {In(4)}, Plain, Plain)
  BY FutexRow
<1>2. /\ call.sqe.code = b.code /\ call.sqe.len \in Nat /\ call.sqe.fd \in Nat
      /\ b.words.addr = Zero => call.sqe.addr = 0
      /\ b.words.off = Scalar => call.sqe.off \in Nat
  BY SqeFacts
<1>3. out = DispatchFutexRead(call.sqe)
  BY <1>1, <1>2 DEF Row, DispatchOp, SuccessOps
<1>4. Lent("addr") = Slice("read", call.sqe.addr, 4)
  BY <1>1, LentIn DEF Row
<1>5. Lent("off") = {}
  BY <1>1, LentNothing DEF Row
<1>6. Lent("addr3") = {}
  BY <1>1, LentNothing DEF Row
<1>7. WalkedLent = Slice("read", call.sqe.addr, 4)
  BY <1>4, <1>5, <1>6, WalkedWords
<1>7a. Lent("addr") = {} => MissesMemory
  BY <1>1, MissesAddr DEF Row, In, Memory
<1>8. out.accesses = WalkedLent \/ Faulted
  BY <1>1, <1>2, <1>3, <1>4, <1>7, <1>7a
  DEF Faulted, DispatchFutexRead, Ret, Slice, Row
<1>9. \A a \in WalkedLent : a.bytes \in Nat
  BY <1>1, <1>2, <1>7, InSlice DEF Row
<1>10. out.result \in {0, FakeFd, I32(call.sqe.len)} \/ Faulted
  BY <1>3, <1>4, <1>7a DEF Faulted, Slice, DispatchFutexRead, Ret
<1>11. call.sqe.code # "NOP"
  BY <1>1, <1>2 DEF Row
<1> QED
  BY <1>8, <1>9, <1>10, <1>11, Handled

LEMMA FutexWaitVCorrect ==
    ASSUME AsBuilt, out = DispatchOp(call.sqe, call.mem),
           call.builder = "FutexWaitV"
    PROVE  HandlerCorrect
<1> DEFINE b == Builders[call.builder]
<1>1. Row(b, {"FUTEX_WAITV"},
          {Memory({"read"}, 24, "len")}, Plain, Plain)
  BY FutexWaitVRow
<1>2. /\ call.sqe.code = b.code /\ call.sqe.len \in Nat /\ call.sqe.fd \in Nat
      /\ b.words.addr = Zero => call.sqe.addr = 0
      /\ b.words.off = Scalar => call.sqe.off \in Nat
  BY SqeFacts
<1>3. out = DispatchFutexWaitV(call.sqe)
  BY <1>1, <1>2 DEF Row, DispatchOp, SuccessOps
<1>4. Lent("addr") = Slice("read", call.sqe.addr, call.sqe.len * 24)
  BY <1>1, <1>2, LentBuffer DEF Row
<1>5. Lent("off") = {}
  BY <1>1, LentNothing DEF Row
<1>6. Lent("addr3") = {}
  BY <1>1, LentNothing DEF Row
<1>7. WalkedLent = Slice("read", call.sqe.addr, call.sqe.len * 24)
  BY <1>4, <1>5, <1>6, WalkedWords
<1>7a. Lent("addr") = {} => MissesMemory
  BY <1>1, MissesAddr DEF Row, Memory
<1> DEFINE p == call.sqe.addr
           n == call.sqe.len
           lent == Access("read", p, n * 24)
<1>8. lent.mode = "read" /\ lent.base = p /\ lent.bytes = n * 24
  BY DEF Access, Part
<1>9. n * 24 \in Nat /\ (n * 24 = 0 <=> n = 0)
  BY <1>2
<1>10. out = IF p = 0 \/ n = 0 THEN Ret({}, EFAULT) ELSE Ret(Entries("read", p, n), 0)
  BY <1>3 DEF DispatchFutexWaitV
<1>11. /\ Lent("addr") = IF p = 0 \/ n = 0 THEN {} ELSE {lent}
       /\ WalkedLent = IF p = 0 \/ n = 0 THEN {} ELSE {lent}
  BY <1>4, <1>7, <1>9 DEF Slice
<1> HIDE DEF p, lent
<1>12. Walk(lent) = Entries("read", p, n)
  BY <1>8 DEF Walk
<1> HIDE DEF n
<1>13. CASE p = 0 \/ n = 0
  BY <1>7a, <1>10, <1>11, <1>13 DEF HandlerCorrect, Faulted
<1>14. CASE ~(p = 0 \/ n = 0)
  <2>1. out.accesses = UNION {Walk(l) : l \in WalkedLent} /\ out.result \in Nat
    BY <1>10, <1>11, <1>12, <1>14 DEF Ret
  <2>2. \A l \in WalkedLent : l.bytes \in Nat
    BY <1>8, <1>9, <1>11
  <2> QED
    BY <2>1, <2>2 DEF HandlerCorrect
<1> QED
  BY <1>13, <1>14

LEMMA WaitIdCorrect ==
    ASSUME AsBuilt, out = DispatchOp(call.sqe, call.mem),
           call.builder = "WaitId"
    PROVE  HandlerCorrect
<1> DEFINE b == Builders[call.builder]
<1>1. Row(b, {"WAITID"},
          Plain, {Out(128)}, Plain)
  BY WaitIdRow
<1>2. /\ call.sqe.code = b.code /\ call.sqe.len \in Nat /\ call.sqe.fd \in Nat
      /\ b.words.addr = Zero => call.sqe.addr = 0
      /\ b.words.off = Scalar => call.sqe.off \in Nat
  BY SqeFacts
<1>3. out = DispatchWaitId(call.sqe)
  BY <1>1, <1>2 DEF Row, DispatchOp, SuccessOps
<1>4. Lent("addr") = {}
  BY <1>1, LentNothing DEF Row
<1>5. Lent("off") = Slice("write", call.sqe.off, 128)
  BY <1>1, LentOut DEF Row
<1>6. Lent("addr3") = {}
  BY <1>1, LentNothing DEF Row
<1>7. WalkedLent = Slice("write", call.sqe.off, 128)
  BY <1>4, <1>5, <1>6, WalkedWords
<1>8. out.accesses = WalkedLent
  BY <1>1, <1>2, <1>3, <1>7 DEF DispatchWaitId, Ret, Slice, Row
<1>9. \A a \in WalkedLent : a.bytes \in Nat
  BY <1>1, <1>2, <1>7, InSlice DEF Row
<1>10. out.result \in {0, FakeFd, I32(call.sqe.len)}
  BY <1>3 DEF DispatchWaitId, Ret
<1>11. call.sqe.code # "NOP"
  BY <1>1, <1>2 DEF Row
<1> QED
  BY <1>8, <1>9, <1>10, <1>11, Handled

LEMMA PipeCorrect ==
    ASSUME AsBuilt, out = DispatchOp(call.sqe, call.mem),
           call.builder = "Pipe"
    PROVE  HandlerCorrect
<1> DEFINE b == Builders[call.builder]
<1>1. Row(b, {"PIPE"},
          {Out(8)}, Plain, Plain)
  BY PipeRow
<1>2. /\ call.sqe.code = b.code /\ call.sqe.len \in Nat /\ call.sqe.fd \in Nat
      /\ b.words.addr = Zero => call.sqe.addr = 0
      /\ b.words.off = Scalar => call.sqe.off \in Nat
  BY SqeFacts
<1>3. out = DispatchPipe(call.sqe)
  BY <1>1, <1>2 DEF Row, DispatchOp, SuccessOps
<1>4. Lent("addr") = Slice("write", call.sqe.addr, 8)
  BY <1>1, LentOut DEF Row
<1>5. Lent("off") = {}
  BY <1>1, LentNothing DEF Row
<1>6. Lent("addr3") = {}
  BY <1>1, LentNothing DEF Row
<1>7. WalkedLent = Slice("write", call.sqe.addr, 8)
  BY <1>4, <1>5, <1>6, WalkedWords
<1>7a. Lent("addr") = {} => MissesMemory
  BY <1>1, MissesAddr DEF Row, Out, Memory
<1>8. out.accesses = WalkedLent \/ Faulted
  BY <1>1, <1>2, <1>3, <1>4, <1>7, <1>7a
  DEF Faulted, DispatchPipe, Ret, Slice, Row
<1>9. \A a \in WalkedLent : a.bytes \in Nat
  BY <1>1, <1>2, <1>7, InSlice DEF Row
<1>10. out.result \in {0, FakeFd, I32(call.sqe.len)} \/ Faulted
  BY <1>3, <1>4, <1>7a DEF Faulted, Slice, DispatchPipe, Ret
<1>11. call.sqe.code # "NOP"
  BY <1>1, <1>2 DEF Row
<1> QED
  BY <1>8, <1>9, <1>10, <1>11, Handled

LEMMA FillCorrect ==
    ASSUME AsBuilt, out = DispatchOp(call.sqe, call.mem),
           call.builder \in {"Read", "ReadFixed", "Recv", "RecvMulti",
                             "RecvBundle", "RecvMultiBundle", "ReadMulti"}
    PROVE  HandlerCorrect
<1> DEFINE b == Builders[call.builder]
<1>1. Row(b, {"READ", "READ_FIXED", "RECV", "READ_MULTISHOT"},
          {Zero, Memory({"write"}, 1, "len")}, Plain, Plain)
  BY FillRow
<1>2. /\ call.sqe.code = b.code /\ call.sqe.len \in Nat /\ call.sqe.fd \in Nat
      /\ b.words.addr = Zero => call.sqe.addr = 0
      /\ b.words.off = Scalar => call.sqe.off \in Nat
  BY SqeFacts
<1>3. out = DispatchBufFill(call.sqe)
  BY <1>1, <1>2 DEF Row, DispatchOp, SuccessOps
<1>4. Lent("addr") = Slice("write", call.sqe.addr, call.sqe.len)
  <2>1. CASE b.words.addr = Zero
    BY <1>2, <2>1, LentNothing DEF Plain, Slice
  <2>2. CASE b.words.addr = Memory({"write"}, 1, "len")
    BY <1>2, <2>2, LentBytes
  <2> QED
    BY <1>1, <2>1, <2>2 DEF Row
<1>5. Lent("off") = {}
  BY <1>1, LentNothing DEF Row
<1>6. Lent("addr3") = {}
  BY <1>1, LentNothing DEF Row
<1>7. WalkedLent = Slice("write", call.sqe.addr, call.sqe.len)
  BY <1>4, <1>5, <1>6, WalkedWords
<1>8. out.accesses = WalkedLent
  BY <1>1, <1>2, <1>3, <1>7 DEF DispatchBufFill, Ret, Slice, Row
<1>9. \A a \in WalkedLent : a.bytes \in Nat
  BY <1>1, <1>2, <1>7, InSlice DEF Row
<1>10. out.result \in {0, FakeFd, I32(call.sqe.len)}
  BY <1>3 DEF DispatchBufFill, Ret
<1>11. call.sqe.code # "NOP"
  BY <1>1, <1>2 DEF Row
<1> QED
  BY <1>8, <1>9, <1>10, <1>11, Handled

LEMMA SinkCorrect ==
    ASSUME AsBuilt, out = DispatchOp(call.sqe, call.mem),
           call.builder \in {"Write", "WriteFixed", "SendBundle"}
    PROVE  HandlerCorrect
<1> DEFINE b == Builders[call.builder]
<1>1. Row(b, {"WRITE", "WRITE_FIXED", "SEND"},
          {Zero, Memory({"read"}, 1, "len")}, Plain, Plain)
  BY SinkRow
<1>2. /\ call.sqe.code = b.code /\ call.sqe.len \in Nat /\ call.sqe.fd \in Nat
      /\ b.words.addr = Zero => call.sqe.addr = 0
      /\ b.words.off = Scalar => call.sqe.off \in Nat
  BY SqeFacts
<1>3. out = DispatchBufSink(call.sqe)
  BY <1>1, <1>2 DEF Row, DispatchOp, SuccessOps
<1>4. Lent("addr") = Slice("read", call.sqe.addr, call.sqe.len)
  <2>1. CASE b.words.addr = Zero
    BY <1>2, <2>1, LentNothing DEF Plain, Slice
  <2>2. CASE b.words.addr = Memory({"read"}, 1, "len")
    BY <1>2, <2>2, LentBytes
  <2> QED
    BY <1>1, <2>1, <2>2 DEF Row
<1>5. Lent("off") = {}
  BY <1>1, LentNothing DEF Row
<1>6. Lent("addr3") = {}
  BY <1>1, LentNothing DEF Row
<1>7. WalkedLent = Slice("read", call.sqe.addr, call.sqe.len)
  BY <1>4, <1>5, <1>6, WalkedWords
<1>8. out.accesses = WalkedLent
  BY <1>1, <1>2, <1>3, <1>7 DEF DispatchBufSink, Ret, Slice, Row
<1>9. \A a \in WalkedLent : a.bytes \in Nat
  BY <1>1, <1>2, <1>7, InSlice DEF Row
<1>10. out.result \in {0, FakeFd, I32(call.sqe.len)}
  BY <1>3 DEF DispatchBufSink, Ret
<1>11. call.sqe.code # "NOP"
  BY <1>1, <1>2 DEF Row
<1> QED
  BY <1>8, <1>9, <1>10, <1>11, Handled

LEMMA SendCorrect ==
    ASSUME AsBuilt, out = DispatchOp(call.sqe, call.mem),
           call.builder \in {"Send", "SendZc"}
    PROVE  HandlerCorrect
<1> DEFINE b == Builders[call.builder]
<1>1. Row(b, {"SEND", "SEND_ZC"},
          {Memory({"read"}, 1, "len")}, Plain, {In(16)})
  BY SendRow
<1>2. /\ call.sqe.code = b.code /\ call.sqe.len \in Nat /\ call.sqe.fd \in Nat
      /\ b.words.addr = Zero => call.sqe.addr = 0
      /\ b.words.off = Scalar => call.sqe.off \in Nat
  BY SqeFacts
<1>3. out = DispatchBufSink(call.sqe)
  BY <1>1, <1>2 DEF Row, DispatchOp, SuccessOps
<1>4. Lent("addr") = Slice("read", call.sqe.addr, call.sqe.len)
  BY <1>1, <1>2, LentBytes DEF Row
<1>5. Lent("off") = {}
  BY <1>1, LentNothing DEF Row
<1>7. WalkedLent = Slice("read", call.sqe.addr, call.sqe.len)
  BY <1>4, <1>5, OtherWords
<1>8. out.accesses = WalkedLent
  BY <1>1, <1>2, <1>3, <1>7 DEF DispatchBufSink, Ret, Slice, Row
<1>9. \A a \in WalkedLent : a.bytes \in Nat
  BY <1>1, <1>2, <1>7, InSlice DEF Row
<1>10. out.result \in {0, FakeFd, I32(call.sqe.len)}
  BY <1>3 DEF DispatchBufSink, Ret
<1>11. call.sqe.code # "NOP"
  BY <1>1, <1>2 DEF Row
<1> QED
  BY <1>8, <1>9, <1>10, <1>11, Handled

LEMMA QuietCorrect ==
    ASSUME AsBuilt, out = DispatchOp(call.sqe, call.mem),
           call.builder \in {"Nop", "Fsync", "PollAdd", "PollRemove", "SyncFileRange",
                             "TimeoutRemove", "AsyncCancel", "AsyncCancel2", "Fallocate",
                             "Close", "Splice", "RemoveBuffers", "Tee", "Shutdown",
                             "MsgRing", "MsgRingSendFd", "Socket", "Ftruncate", "Listen",
                             "Fadvise", "Madvise", "UringCmd16", "UringCmd80",
                             "FixedFdInstall", "RecvZc"}
    PROVE  HandlerCorrect
<1> DEFINE b == Builders[call.builder]
<1>1. Row(b, SuccessOps \cup {"NOP", "SOCKET", "FIXED_FD_INSTALL"}, Plain, Plain, Plain)
  BY QuietRow
<1>2. call.sqe.code = b.code
  BY SqeFacts
<1>3. \/ out \in {Ret({}, 0), Ret({}, FakeFd)}
      \/ InjectsResult /\ out = Ret({}, I32(call.sqe.len))
  <2>1. CASE call.sqe.code = "NOP"
    BY <2>1 DEF DispatchOp, DispatchNop, InjectsResult
  <2>2. CASE call.sqe.code \in SuccessOps
    BY <2>2 DEF DispatchOp, SuccessOps
  <2>3. CASE call.sqe.code \in {"SOCKET", "FIXED_FD_INSTALL"}
    BY <2>3 DEF DispatchOp, SuccessOps
  <2> QED
    BY <1>1, <1>2, <2>1, <2>2, <2>3 DEF Row
<1>4. WalkedLent = {}
  BY <1>1, LentNothing, WalkedWords DEF Row
<1>5. out.accesses = UNION {Walk(l) : l \in WalkedLent}
  BY <1>3, <1>4 DEF Ret
<1>6. out.result \in Nat \/ (InjectsResult /\ out = Ret({}, I32(call.sqe.len)))
  BY <1>3 DEF Ret, FakeFd
<1> QED
  BY <1>4, <1>5, <1>6 DEF HandlerCorrect

LEMMA TimeoutUpdateCorrect ==
    ASSUME AsBuilt, out = DispatchOp(call.sqe, call.mem),
           call.builder = "TimeoutUpdate"
    PROVE  HandlerCorrect
<1> DEFINE b == Builders[call.builder]
<1>1. Row(b, {"TIMEOUT_REMOVE"}, Plain, {In(16)}, Plain)
  BY TimeoutUpdateRow
<1>2. call.sqe.code = b.code
  BY SqeFacts
<1>3. out = Ret({}, 0)
  BY <1>1, <1>2 DEF Row, DispatchOp, SuccessOps
<1>4. WalkedLent = {}
  BY <1>1, LentNothing, OtherWords DEF Row
<1>5. out.accesses = WalkedLent /\ out.result = 0
  BY <1>3, <1>4 DEF Ret
<1>6. call.sqe.code # "NOP"
  BY <1>1, <1>2 DEF Row
<1> QED
  BY <1>4, <1>5, <1>6, Handled

LEMMA SetSockOptCorrect ==
    ASSUME AsBuilt, out = DispatchOp(call.sqe, call.mem),
           call.builder = "SetSockOpt"
    PROVE  HandlerCorrect
<1> DEFINE b == Builders[call.builder]
<1>1. Row(b, {"URING_CMD"}, Plain, Plain, {In(4)})
  BY SetSockOptRow
<1>2. call.sqe.code = b.code
  BY SqeFacts
<1>3. out = Ret({}, 0)
  BY <1>1, <1>2 DEF Row, DispatchOp, SuccessOps
<1>4. WalkedLent = {}
  BY <1>1, LentNothing, OtherWords DEF Row
<1>5. out.accesses = WalkedLent /\ out.result = 0
  BY <1>3, <1>4 DEF Ret
<1>6. call.sqe.code # "NOP"
  BY <1>1, <1>2 DEF Row
<1> QED
  BY <1>4, <1>5, <1>6, Handled

(* The address is lent for as many bytes as its length says, and the       *)
(* length is looked at only if there is an address to fill.                *)
LEMMA AcceptCorrect ==
    ASSUME AsBuilt, out = DispatchOp(call.sqe, call.mem),
           call.builder = "Accept"
    PROVE  HandlerCorrect
<1> DEFINE b == Builders[call.builder]
           addr == call.sqe.addr
           off == call.sqe.off
           n == call.mem.addrlen
<1>1. Row(b, {"ACCEPT"},
          {Memory({"write"}, 1, "addrlen")}, {Memory({"read", "write"}, 4, "with_addr")}, Plain)
  BY AcceptRow
<1>2. call.sqe.code = b.code /\ n \in Nat
  BY SqeFacts
<1>3. out = DispatchAccept(call.sqe, call.mem)
  BY <1>1, <1>2 DEF Row, DispatchOp, SuccessOps
<1>4. Lent("addr") = IF off = 0 THEN {} ELSE Slice("write", addr, n)
  <2>1. Lent("addr") = Slice("write", addr, 1 * Times("addrlen"))
    BY <1>1, LentAddr DEF Row
  <2>2. 1 * Times("addrlen") = IF off = 0 THEN 0 ELSE n
    BY <1>2 DEF Times
  <2> QED
    BY <2>1, <2>2 DEF Slice
<1>5. Lent("off") = IF addr = 0 \/ off = 0 THEN {}
                    ELSE {Access("read", off, 4), Access("write", off, 4)}
  <2> DEFINE kind == b.words.off
             m == 4 * Times("with_addr")
  <2>1. kind.is = "memory" /\ kind.modes = {"read", "write"} /\ kind.size = 4
        /\ kind.times = "with_addr"
    BY <1>1 DEF Row, Memory
  <2>2. Lent("off") =
          IF off = 0 THEN {} ELSE NonEmpty({Access(mode, off, m) : mode \in {"read", "write"}})
    BY <2>1 DEF Lent
  <2>3. m = IF addr = 0 THEN 0 ELSE 4
    BY DEF Times
  <2>4. {Access(mode, off, m) : mode \in {"read", "write"}} =
          {Access("read", off, m), Access("write", off, m)}
    OBVIOUS
  <2>5. \A mode : Access(mode, off, m).base = off /\ Access(mode, off, m).bytes = m
    BY DEF Access, Part
  <2> HIDE DEF m
  <2> QED
    BY <2>2, <2>3, <2>4, <2>5 DEF NonEmpty
<1>6. Lent("addr3") = {}
  BY <1>1, LentNothing DEF Row
<1>7. WalkedLent = Lent("addr") \cup Lent("off")
  BY <1>6, WalkedWords
<1>8. out.accesses = WalkedLent /\ out.result = FakeFd
  BY <1>3, <1>4, <1>5, <1>7 DEF DispatchAccept, Ret, Slice
<1>9. \A a \in WalkedLent : a.bytes \in Nat
  <2>1. \A a \in Lent("addr") : a.bytes \in Nat
    BY <1>2, <1>4, InSlice
  <2>2. \A a \in Lent("off") : a.bytes \in Nat
    BY <1>5 DEF Access, Part
  <2> QED
    BY <1>7, <2>1, <2>2
<1>10. call.sqe.code # "NOP"
  BY <1>1, <1>2 DEF Row
<1> QED
  BY <1>8, <1>9, <1>10, Handled

-----------------------------------------------------------------------------
(* Vectored operations and messages *)

LEMMA IovArrayFacts ==
    ASSUME NEW n \in Nat, NEW iovs \in IovArrays(n)
    PROVE  Len(iovs) = n /\ \A i \in 1 .. n : iovs[i].iov_len \in Nat
<1>1. PICK f \in [1 .. n -> [null : BOOLEAN, len : BufLens]] :
        iovs = [i \in 1 .. n |-> [iov_base |-> IF f[i].null THEN 0 ELSE 1000 + i,
                                  iov_len |-> f[i].len]]
  BY DEF IovArrays
<1>2. DOMAIN iovs = 1 .. n
  BY <1>1
<1>3. Len(iovs) = n
  BY <1>1
<1>4. \A i \in 1 .. n : iovs[i].iov_len = f[i].len /\ f[i].len \in BufLens
  BY <1>1
<1>5. BufLens \subseteq Nat
  BY OperationsAssumption
<1> QED
  BY <1>3, <1>4, <1>5

(* The walk over an array visits what was lent with it. *)
LEMMA IovWalkIsLent ==
    ASSUME NEW mode, NEW p, p # 0, NEW n \in Nat, NEW iovs
    PROVE  IovWalk(mode, p, n, iovs) = LentIovs(mode, p, n, iovs)
<1> DEFINE head == Access("fields", p, n * IovecSize)
           buf(i) == Access(mode, iovs[i].iov_base, iovs[i].iov_len)
           slice(i) == Slice(mode, iovs[i].iov_base, iovs[i].iov_len)
<1>1. head.base = p /\ head.bytes = n * 16
  BY DEF Access, Part, IovecSize
<1>2. \A i : buf(i).base = iovs[i].iov_base /\ buf(i).bytes = iovs[i].iov_len
  BY DEF Access, Part
<1>3. \A i : slice(i) = IF buf(i).base # 0 /\ buf(i).bytes # 0 THEN {buf(i)} ELSE {}
  BY <1>2 DEF Slice
<1>4. LentIovs(mode, p, n, iovs) = NonEmpty({head} \cup {buf(i) : i \in 1 .. n})
  BY DEF LentIovs
<1>5. IovWalk(mode, p, n, iovs) =
        IF n = 0 THEN {} ELSE {head} \cup UNION {slice(i) : i \in 1 .. n}
  BY DEF IovWalk
<1>6. n = 0 => 1 .. n = {} /\ n * 16 = 0
  OBVIOUS
<1>7. n # 0 => n * 16 # 0
  OBVIOUS
<1> HIDE DEF head, buf, slice
<1>8. NonEmpty({head} \cup {buf(i) : i \in 1 .. n}) =
        (IF n = 0 THEN {} ELSE {head})
           \cup {a \in {buf(i) : i \in 1 .. n} : a.base # 0 /\ a.bytes # 0}
  BY <1>1, <1>6, <1>7 DEF NonEmpty
<1>9. UNION {slice(i) : i \in 1 .. n} =
        {a \in {buf(i) : i \in 1 .. n} : a.base # 0 /\ a.bytes # 0}
  BY <1>3
<1>10. n = 0 => UNION {slice(i) : i \in 1 .. n} = {}
  BY <1>6
<1> QED
  BY <1>4, <1>5, <1>8, <1>9, <1>10

LEMMA LentIovsBytes ==
    ASSUME NEW mode, NEW p, NEW n \in Nat, NEW iovs \in IovArrays(n)
    PROVE  \A a \in LentIovs(mode, p, n, iovs) : a.bytes \in Nat
<1>1. \A i \in 1 .. n : Access(mode, iovs[i].iov_base, iovs[i].iov_len).bytes \in Nat
  BY IovArrayFacts DEF Access, Part
<1>2. Access("fields", p, n * IovecSize).bytes \in Nat
  BY DEF Access, Part, IovecSize
<1> QED
  BY <1>1, <1>2 DEF LentIovs, NonEmpty

(* The total of an array that is there does not depend on where it is. *)
LEMMA TotalResult ==
    ASSUME LengthsFit, NEW p, NEW n, n = Len(call.mem.iovs)
    PROVE  I32(IovTotal(p, n, call.mem.iovs)) \in Nat
<1> DEFINE total == IovTotal(p, n, call.mem.iovs)
<1>1. CASE p = 0
  <2>1. total = 0 /\ 0 \in 0 .. I32Half - 1
    BY <1>1, TypesAssumption DEF IovTotal
  <2> HIDE DEF total
  <2> QED
    BY <2>1, LengthResult DEF total
<1>2. CASE p # 0
  <2>1. total = IovTotal(1, n, call.mem.iovs)
    BY <1>2 DEF IovTotal
  <2>2. total \in 0 .. I32Half - 1
    BY <2>1 DEF LengthsFit
  <2> HIDE DEF total
  <2> QED
    BY <2>2, LengthResult DEF total
<1> QED
  BY <1>1, <1>2

LEMMA IovCorrect ==
    ASSUME AsBuilt, NEW mode, NEW codes,
           call.builder \notin {"Send", "SendZc", "TimeoutUpdate", "SetSockOpt",
                                "ProvideBuffers", "FutexWaitV"},
           Row(Builders[call.builder], codes, {Iov(mode)}, Plain, Plain),
           out = Ret(IovWalk(mode, call.sqe.addr, call.sqe.len, call.mem.iovs),
                     I32(IovTotal(call.sqe.addr, call.sqe.len, call.mem.iovs)))
    PROVE  HandlerCorrect
<1> DEFINE b == Builders[call.builder]
           p == call.sqe.addr
           n == call.sqe.len
           iovs == call.mem.iovs
<1>1. b.words.addr = Iov(mode) /\ b.words.addr.is = "iov" /\ b.words.addr.mode = mode
  BY DEF Row, Iov
<1>2. n \in Nat
  BY SqeFacts
<1>3. iovs \in IovArrays(n)
  BY <1>1 DEF AsBuilt, Mems
<1>4. Lent("addr") = IF p = 0 THEN {} ELSE LentIovs(mode, p, n, iovs)
  BY <1>1 DEF Lent
<1>5. WalkedLent = Lent("addr")
  BY LentNothing, WalkedWords DEF Row
<1>6. out.accesses = WalkedLent
  <2>1. p = 0 => IovWalk(mode, p, n, iovs) = {}
    BY DEF IovWalk
  <2>2. p # 0 => IovWalk(mode, p, n, iovs) = LentIovs(mode, p, n, iovs)
    BY <1>2, IovWalkIsLent
  <2> QED
    BY <1>4, <1>5, <2>1, <2>2 DEF Ret
<1>7. \A a \in WalkedLent : a.bytes \in Nat
  BY <1>2, <1>3, <1>4, <1>5, LentIovsBytes
<1>8. LengthsFit => out.result \in Nat
  <2>1. n = Len(iovs)
    BY <1>2, <1>3, IovArrayFacts
  <2> QED
    BY <2>1, TotalResult DEF Ret
<1>9. UNION {Walk(l) : l \in WalkedLent} = WalkedLent
  BY WalksWhole
<1> QED
  BY <1>6, <1>7, <1>8, <1>9 DEF HandlerCorrect

LEMMA ReadvCorrect ==
    ASSUME AsBuilt, out = DispatchOp(call.sqe, call.mem),
           call.builder \in {"Readv", "ReadvFixed"}
    PROVE  HandlerCorrect
<1>1. Row(Builders[call.builder], {"READV", "READV_FIXED"}, {Iov("write")}, Plain, Plain)
  BY ReadvRow
<1>2. call.sqe.code \in {"READV", "READV_FIXED"}
  BY <1>1, SqeFacts DEF Row
<1>3. out = DispatchReadv(call.sqe, call.mem)
  BY <1>2 DEF DispatchOp, SuccessOps
<1> QED
  BY <1>1, <1>3, IovCorrect DEF DispatchReadv

LEMMA WritevCorrect ==
    ASSUME AsBuilt, out = DispatchOp(call.sqe, call.mem),
           call.builder \in {"Writev", "WritevFixed"}
    PROVE  HandlerCorrect
<1>1. Row(Builders[call.builder], {"WRITEV", "WRITEV_FIXED"}, {Iov("read")}, Plain, Plain)
  BY WritevRow
<1>2. call.sqe.code \in {"WRITEV", "WRITEV_FIXED"}
  BY <1>1, SqeFacts DEF Row
<1>3. out = DispatchWritev(call.sqe, call.mem)
  BY <1>2 DEF DispatchOp, SuccessOps
<1> QED
  BY <1>1, <1>3, IovCorrect DEF DispatchWritev

LEMMA MsgCorrect ==
    ASSUME AsBuilt, NEW mode, NEW codes,
           call.builder \notin {"Send", "SendZc", "TimeoutUpdate", "SetSockOpt",
                                "ProvideBuffers", "FutexWaitV"},
           Row(Builders[call.builder], codes, {Msg(mode)}, Plain, Plain),
           out = IF call.sqe.addr = 0 THEN Ret({}, EFAULT)
                 ELSE Ret(MsgWalk(mode, call.sqe, call.mem),
                          I32(IovTotal(call.mem.hdr.iov, Len(call.mem.iovs), call.mem.iovs)))
    PROVE  HandlerCorrect
<1> DEFINE b == Builders[call.builder]
           p == call.sqe.addr
           hdr == call.mem.hdr
           iovs == call.mem.iovs
           n == Len(iovs)
<1>1. b.words.addr = Msg(mode) /\ b.words.addr.is = "msg" /\ b.words.addr.mode = mode
  BY DEF Row, Msg
<1>2. hdr \in MsgHdrs /\ iovs \in UNION {IovArrays(m) : m \in Counts}
  BY <1>1 DEF AsBuilt, Mems
<1>3. n \in Nat /\ iovs \in IovArrays(n)
  <2>1. PICK m \in Counts : iovs \in IovArrays(m)
    BY <1>2
  <2>2. m \in Nat
    BY OperationsAssumption
  <2>3. n = m
    BY <2>1, <2>2, IovArrayFacts
  <2> QED
    BY <2>1, <2>2, <2>3
<1>4. hdr.namelen \in Nat /\ hdr.controllen \in Nat
  BY <1>2, OperationsAssumption DEF MsgHdrs
<1> DEFINE head == Access("fields", p, MsgHdrSize)
           name == Access(mode, hdr.name, hdr.namelen)
           control == Access(mode, hdr.control, hdr.controllen)
           rest == IF hdr.iov = 0 THEN {} ELSE LentIovs(mode, hdr.iov, n, iovs)
<1>5. Lent("addr") = IF p = 0 THEN {} ELSE NonEmpty({head, name, control}) \cup rest
  BY <1>1 DEF Lent
<1>6. WalkedLent = Lent("addr")
  BY LentNothing, WalkedWords DEF Row
<1>7. IovWalk(mode, hdr.iov, n, iovs) = rest
  <2>1. hdr.iov = 0 => IovWalk(mode, hdr.iov, n, iovs) = {}
    BY DEF IovWalk
  <2>2. hdr.iov # 0 => IovWalk(mode, hdr.iov, n, iovs) = LentIovs(mode, hdr.iov, n, iovs)
    BY <1>3, IovWalkIsLent
  <2> QED
    BY <2>1, <2>2
<1>8. p # 0 => NonEmpty({head, name, control}) =
        {head} \cup Slice(mode, hdr.name, hdr.namelen)
               \cup Slice(mode, hdr.control, hdr.controllen)
  <2>1. /\ head.base = p /\ head.bytes = 56
        /\ name.base = hdr.name /\ name.bytes = hdr.namelen
        /\ control.base = hdr.control /\ control.bytes = hdr.controllen
    BY DEF Access, Part, MsgHdrSize
  <2>2. /\ Slice(mode, hdr.name, hdr.namelen) =
             IF name.base = 0 \/ name.bytes = 0 THEN {} ELSE {name}
        /\ Slice(mode, hdr.control, hdr.controllen) =
             IF control.base = 0 \/ control.bytes = 0 THEN {} ELSE {control}
    BY <2>1 DEF Slice
  <2> HIDE DEF head, name, control
  <2> QED
    BY <2>1, <2>2 DEF NonEmpty
<1>9. p # 0 => out.accesses = WalkedLent
  <2> HIDE DEF rest
  <2>1. MsgWalk(mode, call.sqe, call.mem) =
          {head} \cup Slice(mode, hdr.name, hdr.namelen)
                 \cup Slice(mode, hdr.control, hdr.controllen) \cup rest
    BY <1>7 DEF MsgWalk
  <2> QED
    BY <1>5, <1>6, <1>8, <2>1 DEF Ret
<1>10. \A a \in WalkedLent : a.bytes \in Nat
  <2>1. head.bytes \in Nat /\ name.bytes \in Nat /\ control.bytes \in Nat
    BY <1>4 DEF Access, Part, MsgHdrSize
  <2>2. \A a \in NonEmpty({head, name, control}) : a.bytes \in Nat
    <3> HIDE DEF head, name, control
    <3> QED
      BY <2>1 DEF NonEmpty
  <2>3. \A a \in rest : a.bytes \in Nat
    BY <1>3, LentIovsBytes
  <2> HIDE DEF rest
  <2> QED
    BY <1>5, <1>6, <2>2, <2>3
<1>11. p # 0 /\ LengthsFit => out.result \in Nat
  BY TotalResult DEF Ret
<1>12. CASE p = 0
  <2>1. Faulted
    BY <1>1, <1>5, <1>12, MissesAddr DEF Faulted
  <2> QED
    BY <1>10, <2>1 DEF HandlerCorrect
<1>13. CASE p # 0
  <2>1. UNION {Walk(l) : l \in WalkedLent} = WalkedLent
    BY WalksWhole
  <2> QED
    BY <1>9, <1>10, <1>11, <1>13, <2>1 DEF HandlerCorrect
<1> QED
  BY <1>12, <1>13

LEMMA RecvMsgCorrect ==
    ASSUME AsBuilt, out = DispatchOp(call.sqe, call.mem),
           call.builder \in {"RecvMsg", "RecvMsgMulti"}
    PROVE  HandlerCorrect
<1>1. Row(Builders[call.builder], {"RECVMSG"}, {Msg("write")}, Plain, Plain)
  BY RecvMsgRow
<1>2. call.sqe.code = "RECVMSG"
  BY <1>1, SqeFacts DEF Row
<1>3. out = DispatchRecvMsg(call.sqe, call.mem)
  BY <1>2 DEF DispatchOp, SuccessOps
<1> QED
  BY <1>1, <1>3, MsgCorrect DEF DispatchRecvMsg

LEMMA SendMsgCorrect ==
    ASSUME AsBuilt, out = DispatchOp(call.sqe, call.mem),
           call.builder \in {"SendMsg", "SendMsgZc"}
    PROVE  HandlerCorrect
<1>1. Row(Builders[call.builder], {"SENDMSG", "SENDMSG_ZC"}, {Msg("read")}, Plain, Plain)
  BY SendMsgRow
<1>2. call.sqe.code \in {"SENDMSG", "SENDMSG_ZC"}
  BY <1>1, SqeFacts DEF Row
<1>3. out = DispatchSendMsg(call.sqe, call.mem)
  BY <1>2 DEF DispatchOp, SuccessOps
<1> QED
  BY <1>1, <1>3, MsgCorrect DEF DispatchSendMsg

LEMMA EveryHandler ==
    ASSUME AsBuilt, out = DispatchOp(call.sqe, call.mem)
    PROVE  HandlerCorrect
<1>1. call.builder \in DOMAIN Builders
  BY DEF AsBuilt
<1> QED
  BY <1>1, BuilderNames, QuietCorrect, TimeoutUpdateCorrect, SetSockOptCorrect, FillCorrect,
     SinkCorrect, SendCorrect, ReadvCorrect, WritevCorrect, RecvMsgCorrect, SendMsgCorrect,
     TimeoutCorrect, ConnectCorrect, AcceptCorrect, AcceptMultiCorrect, OpenAtCorrect,
     OpenAt2Correct, StatxCorrect, PathCorrect, Path2Correct, EpollCtlCorrect,
     FilesUpdateCorrect, ProvideBuffersCorrect, SetXattrCorrect, FSetXattrCorrect,
     GetXattrCorrect, FGetXattrCorrect, EpollWaitCorrect, FutexCorrect, FutexWaitVCorrect,
     WaitIdCorrect, PipeCorrect

-----------------------------------------------------------------------------
(* The probe *)

LEMMA HandledHaveNames == HandledOpcodes \subseteq {OpcodeNames[i] : i \in DOMAIN OpcodeNames}
<1> DEFINE names == {OpcodeNames[i] : i \in DOMAIN OpcodeNames}
<1>1. DOMAIN OpcodeNames = 1 .. 63
  BY DEF OpcodeNames
<1>2. \A i \in 1 .. 63 : OpcodeNames[i] \in names
  BY <1>1
<1> HIDE DEF names
<1>3. TouchingOpcodes \subseteq names
  BY <1>2 DEF OpcodeNames, TouchingOpcodes
<1>4. OtherOpcodes \subseteq names
  BY <1>2 DEF OpcodeNames, OtherOpcodes
<1> QED
  BY <1>3, <1>4 DEF HandledOpcodes, names

(* The table has room for every number. *)
LEMMA HandledIsSupported ==
    ASSUME NEW code \in HandledOpcodes
    PROVE  IsSupported(OpcodeNumber[code])
<1> DEFINE n == OpcodeNumber[code]
<1>1. DOMAIN OpcodeNames = 1 .. 63 /\ Len(OpcodeNames) = 63
  BY DEF OpcodeNames
<1>2. PICK i \in 1 .. 63 : OpcodeNames[i] = code
  BY <1>1, HandledHaveNames
<1>3. n = CHOOSE k \in 0 .. Len(OpcodeNames) - 1 : OpcodeNames[k + 1] = code
  BY HandledHaveNames DEF OpcodeNumber
<1>4. \E k \in 0 .. Len(OpcodeNames) - 1 : OpcodeNames[k + 1] = code
  <2>1. i - 1 \in 0 .. Len(OpcodeNames) - 1 /\ OpcodeNames[(i - 1) + 1] = code
    BY <1>1, <1>2
  <2> QED
    BY <2>1
<1>5. n \in 0 .. 62
  BY <1>1, <1>3, <1>4
<1> HIDE DEF n
<1>6. n \in 0 .. ProbeCount - 1
  BY <1>5 DEF ProbeCount
<1>7. \E name \in HandledOpcodes : OpcodeNumber[name] = n
  BY DEF n
<1> QED
  BY <1>6, <1>7 DEF IsSupported, Supported, n

-----------------------------------------------------------------------------
(* Sums *)

(* The element a fold takes next. *)
Element(s) == CHOOSE x \in s : TRUE

(* g sums f over each of the sets in D. *)
IsSum(g, f, D) ==
    g = [s \in D |-> IF s = {} THEN 0 ELSE f[Element(s)] + g[s \ {Element(s)}]]

LEMMA SumChosen ==
    ASSUME NEW f, NEW S
    PROVE  SumFunctionOnSet(f, S) = (CHOOSE g : IsSum(g, f, SUBSET S))[S]
  BY DEF SumFunctionOnSet, FoldFunctionOnSet, MapThenFoldSet, IsSum, Element

LEMMA IsSumFacts ==
    ASSUME NEW g, NEW f, NEW D, IsSum(g, f, D)
    PROVE  /\ {} \in D => g[{}] = 0
           /\ \A s \in D : s # {} => g[s] = f[Element(s)] + g[s \ {Element(s)}]
  BY DEF IsSum

(* Taking the chosen element out of a finite set. *)
LEMMA ElementOut ==
    ASSUME NEW S, IsFiniteSet(S), NEW s \in SUBSET S, s # {}
    PROVE  /\ Element(s) \in s /\ s \ {Element(s)} \in SUBSET S
           /\ Cardinality(s) \in Nat
           /\ Cardinality(s \ {Element(s)}) = Cardinality(s) - 1
<1>1. Element(s) \in s
  BY DEF Element
<1>2. IsFiniteSet(s)
  BY FS_Subset
<1>3. Cardinality(s) \in Nat
  BY <1>2, FS_CardinalityType
<1>4. Cardinality(s \ {Element(s)}) = Cardinality(s) - 1
  BY <1>1, <1>2, FS_RemoveElement
<1> QED
  BY <1>1, <1>3, <1>4

(* The subsets of S of at most k elements. *)
Small(S, k) == {s \in SUBSET S : Cardinality(s) <= k}

LEMMA SumExists ==
    ASSUME NEW f, NEW S, IsFiniteSet(S)
    PROVE  \E g : IsSum(g, f, SUBSET S)
<1> DEFINE T == {k \in Nat : \E g : IsSum(g, f, Small(S, k))}
<1>1. 0 \in T
  <2> DEFINE g == [s \in Small(S, 0) |-> 0]
  <2>1. \A s \in Small(S, 0) : s = {}
    <3> SUFFICES ASSUME NEW s \in Small(S, 0) PROVE s = {}
      OBVIOUS
    <3>1. s \in SUBSET S /\ Cardinality(s) <= 0
      BY DEF Small
    <3>2. IsFiniteSet(s)
      BY <3>1, FS_Subset
    <3>3. Cardinality(s) \in Nat
      BY <3>2, FS_CardinalityType
    <3> QED
      BY <3>1, <3>2, <3>3, FS_EmptySet
  <2>2. IsSum(g, f, Small(S, 0))
    BY <2>1 DEF IsSum
  <2> QED
    BY <2>2
<1>2. ASSUME NEW k \in Nat, k \in T PROVE k + 1 \in T
  <2>1. PICK g : IsSum(g, f, Small(S, k))
    BY <1>2
  <2> DEFINE h == [s \in Small(S, k + 1) |->
                     IF s = {} THEN 0 ELSE f[Element(s)] + g[s \ {Element(s)}]]
  <2>2. Small(S, k) \subseteq Small(S, k + 1)
    <3> SUFFICES ASSUME NEW s \in Small(S, k) PROVE Cardinality(s) <= k + 1
      BY DEF Small
    <3>1. s \in SUBSET S /\ Cardinality(s) <= k
      BY DEF Small
    <3>2. Cardinality(s) \in Nat
      BY <3>1, FS_Subset, FS_CardinalityType
    <3> QED
      BY <3>1, <3>2
  <2>3. \A s \in Small(S, k) : h[s] = g[s]
    BY <2>1, <2>2 DEF IsSum
  <2>4. ASSUME NEW s \in Small(S, k + 1), s # {} PROVE s \ {Element(s)} \in Small(S, k)
    <3>1. s \in SUBSET S /\ Cardinality(s) <= k + 1
      BY DEF Small
    <3>2. /\ s \ {Element(s)} \in SUBSET S /\ Cardinality(s) \in Nat
          /\ Cardinality(s \ {Element(s)}) = Cardinality(s) - 1
      BY <2>4, <3>1, ElementOut
    <3>3. Cardinality(s) - 1 <= k
      BY <3>1, <3>2
    <3> QED
      BY <3>2, <3>3 DEF Small
  <2>5. \A s \in Small(S, k + 1) :
           h[s] = IF s = {} THEN 0 ELSE f[Element(s)] + h[s \ {Element(s)}]
    <3> TAKE s \in Small(S, k + 1)
    <3>1. h[s] = IF s = {} THEN 0 ELSE f[Element(s)] + g[s \ {Element(s)}]
      OBVIOUS
    <3>2. s # {} => h[s \ {Element(s)}] = g[s \ {Element(s)}]
      BY <2>3, <2>4
    <3> HIDE DEF h
    <3> QED
      BY <3>1, <3>2
  <2>6. h = [s \in Small(S, k + 1) |-> h[s]]
    OBVIOUS
  <2> HIDE DEF h
  <2>7. IsSum(h, f, Small(S, k + 1))
    BY <2>5, <2>6 DEF IsSum
  <2> QED
    BY <2>7
<1> HIDE DEF T
<1>3. Cardinality(S) \in Nat
  BY FS_CardinalityType
<1>4. Cardinality(S) \in T
  BY <1>1, <1>2, <1>3, SetInduction
<1>5. Small(S, Cardinality(S)) = SUBSET S
  BY FS_Subset DEF Small
<1> QED
  BY <1>4, <1>5 DEF T

(* A sum depends on the values in the set only, and is a number. *)
LEMMA SumsAgree ==
    ASSUME NEW S, IsFiniteSet(S), NEW f, \A x \in S : f[x] \in Nat,
           NEW d, NEW D, IsSum(d, f, D), SUBSET S \subseteq D,
           NEW f2, \A x \in S : f2[x] = f[x],
           NEW e, NEW E, IsSum(e, f2, E), SUBSET S \subseteq E
    PROVE  d[S] = e[S] /\ d[S] \in Nat
<1> DEFINE T == {k \in Nat : \A s \in SUBSET S : Cardinality(s) = k => d[s] = e[s] /\ d[s] \in Nat}
<1>1. /\ d[{}] = 0 /\ e[{}] = 0
      /\ \A s \in SUBSET S : s # {} => d[s] = f[Element(s)] + d[s \ {Element(s)}]
      /\ \A s \in SUBSET S : s # {} => e[s] = f2[Element(s)] + e[s \ {Element(s)}]
  <2>1. {} \in D /\ {} \in E /\ \A s \in SUBSET S : s \in D /\ s \in E
    OBVIOUS
  <2>2. d[{}] = 0 /\ \A s \in SUBSET S : s # {} => d[s] = f[Element(s)] + d[s \ {Element(s)}]
    BY <2>1, IsSumFacts
  <2>3. e[{}] = 0 /\ \A s \in SUBSET S : s # {} => e[s] = f2[Element(s)] + e[s \ {Element(s)}]
    BY <2>1, IsSumFacts
  <2> QED
    BY <2>2, <2>3
<1>2. 0 \in T
  <2>1. \A s \in SUBSET S : Cardinality(s) = 0 => s = {}
    BY FS_Subset, FS_EmptySet
  <2>2. \A s : s = {} => d[s] = e[s] /\ d[s] \in Nat
    BY <1>1
  <2>3. \A s \in SUBSET S : Cardinality(s) = 0 => d[s] = e[s] /\ d[s] \in Nat
    BY <2>1, <2>2, Zenon
  <2> QED
    BY <2>3
<1>3. ASSUME NEW k \in Nat, k \in T PROVE k + 1 \in T
  <2> SUFFICES ASSUME NEW s \in SUBSET S, Cardinality(s) = k + 1
               PROVE  d[s] = e[s] /\ d[s] \in Nat
    OBVIOUS
  <2>1. s # {}
    BY FS_EmptySet
  <2> DEFINE x == Element(s)
             t == s \ {x}
  <2>2. x \in S /\ t \in SUBSET S /\ Cardinality(t) = k
    BY <2>1, ElementOut
  <2>3. d[s] = f[x] + d[t] /\ e[s] = f2[x] + e[t]
    BY <1>1, <2>1
  <2> HIDE DEF x, t
  <2>4. d[t] = e[t] /\ d[t] \in Nat
    BY <1>3, <2>2
  <2>5. f2[x] = f[x] /\ f[x] \in Nat
    BY <2>2
  <2> QED
    BY <2>3, <2>4, <2>5
<1> HIDE DEF T
<1>4. Cardinality(S) \in T
  BY <1>2, <1>3, SetInduction, FS_CardinalityType
<1> QED
  BY <1>4 DEF T

(* The order of the summands does not matter. *)
LEMMA SumExchange ==
    ASSUME NEW S, IsFiniteSet(S), NEW f, \A x \in S : f[x] \in Nat,
           NEW g, IsSum(g, f, SUBSET S)
    PROVE  \A y \in S : g[S] = f[y] + g[S \ {y}]
<1> DEFINE T == {k \in Nat : \A s \in SUBSET S : Cardinality(s) = k =>
                    \A y \in s : g[s] = f[y] + g[s \ {y}]}
<1>1. \A s \in SUBSET S : s # {} => g[s] = f[Element(s)] + g[s \ {Element(s)}]
  BY IsSumFacts
<1>2. \A s \in SUBSET S : IsFiniteSet(s) /\ Cardinality(s) \in Nat
  BY FS_Subset, FS_CardinalityType
<1>3. 0 \in T
  BY <1>2, FS_EmptySet
<1>4. ASSUME NEW k \in Nat, k \in T PROVE k + 1 \in T
  <2> SUFFICES ASSUME NEW s \in SUBSET S, Cardinality(s) = k + 1, NEW y \in s
               PROVE  g[s] = f[y] + g[s \ {y}]
    OBVIOUS
  <2> DEFINE x == Element(s)
             u == s \ {x}
             v == s \ {y}
             w == (s \ {x}) \ {y}
  <2>1. x \in s /\ u \in SUBSET S /\ Cardinality(u) = k
    BY ElementOut
  <2>2. v \in SUBSET S /\ Cardinality(v) = k
    BY <1>2, FS_RemoveElement
  <2>3. g[s] = f[x] + g[u]
    BY <1>1
  <2>4. CASE x = y
    BY <2>3, <2>4
  <2>5. CASE x # y
    <3>1. y \in u /\ x \in v /\ u \ {y} = w /\ v \ {x} = w /\ w \in SUBSET S
      BY <2>1, <2>5
    <3> HIDE DEF u, v, w, x
    <3>2. g[u] = f[y] + g[u \ {y}] /\ g[v] = f[x] + g[v \ {x}]
      BY <1>4, <2>1, <2>2, <3>1
    <3>3. g[w] \in Nat
      <4>1. IsFiniteSet(w) /\ SUBSET w \subseteq SUBSET S /\ \A z \in w : f[z] \in Nat /\ f[z] = f[z]
        BY <1>2, <3>1
      <4> QED
        BY <4>1, SumsAgree
    <3>4. f[x] \in Nat /\ f[y] \in Nat
      BY <2>1
    <3>5. g[s] = f[x] + (f[y] + g[w]) /\ g[v] = f[x] + g[w]
      BY <2>3, <3>1, <3>2
    <3>6. g[s] = f[y] + g[v]
      BY <3>3, <3>4, <3>5
    <3> QED
      BY <3>6 DEF v
  <2> QED
    BY <2>4, <2>5
<1> HIDE DEF T
<1>5. Cardinality(S) \in T
  BY <1>2, <1>3, <1>4, SetInduction
<1> QED
  BY <1>5 DEF T

(* What SumFunctionOnSet obeys. *)

LEMMA SumOf ==
    ASSUME NEW S, IsFiniteSet(S), NEW f
    PROVE  \E g : IsSum(g, f, SUBSET S) /\ SumFunctionOnSet(f, S) = g[S]
  BY SumExists, SumChosen

LEMMA SumEmpty == \A f : SumFunctionOnSet(f, {}) = 0
<1> TAKE f
<1>1. PICK g : IsSum(g, f, SUBSET {}) /\ SumFunctionOnSet(f, {}) = g[{}]
  BY SumOf, FS_EmptySet
<1>2. {} \in SUBSET {}
  OBVIOUS
<1> QED
  BY <1>1, <1>2, IsSumFacts

LEMMA SumSame ==
    ASSUME NEW S, IsFiniteSet(S), NEW f, \A x \in S : f[x] \in Nat,
           NEW f2, \A x \in S : f2[x] = f[x]
    PROVE  SumFunctionOnSet(f2, S) = SumFunctionOnSet(f, S) /\ SumFunctionOnSet(f, S) \in Nat
<1>1. PICK d : IsSum(d, f, SUBSET S) /\ SumFunctionOnSet(f, S) = d[S]
  BY SumOf
<1>2. PICK e : IsSum(e, f2, SUBSET S) /\ SumFunctionOnSet(f2, S) = e[S]
  BY SumOf
<1>3. d[S] = e[S] /\ d[S] \in Nat
  <2>1. SUBSET S \subseteq SUBSET S
    OBVIOUS
  <2> QED
    BY <1>1, <1>2, <2>1, SumsAgree
<1> QED
  BY <1>1, <1>2, <1>3

LEMMA SumAdd ==
    ASSUME NEW S, IsFiniteSet(S), NEW y, y \notin S, NEW f, \A x \in S \cup {y} : f[x] \in Nat
    PROVE  SumFunctionOnSet(f, S \cup {y}) = f[y] + SumFunctionOnSet(f, S)
<1> DEFINE U == S \cup {y}
<1>1. IsFiniteSet(U) /\ y \in U /\ U \ {y} = S /\ SUBSET S \subseteq SUBSET U
  BY FS_AddElement
<1>2. \A x \in U : f[x] \in Nat
  OBVIOUS
<1> HIDE DEF U
<1>3. PICK d : IsSum(d, f, SUBSET U) /\ SumFunctionOnSet(f, U) = d[U]
  BY <1>1, SumOf
<1>4. PICK e : IsSum(e, f, SUBSET S) /\ SumFunctionOnSet(f, S) = e[S]
  BY SumOf
<1>5. d[U] = f[y] + d[S]
  BY <1>1, <1>2, <1>3, SumExchange
<1>6. d[S] = e[S]
  <2>1. SUBSET S \subseteq SUBSET S /\ \A x \in S : f[x] \in Nat /\ f[x] = f[x]
    OBVIOUS
  <2> QED
    BY <1>1, <1>3, <1>4, <2>1, SumsAgree
<1> QED
  BY <1>3, <1>4, <1>5, <1>6 DEF U

-----------------------------------------------------------------------------
(* The bytes an operation reports *)

(* The data of a vectored operation: the buffers of the first k entries. *)
Buffers(mode, iovs, k) ==
    UNION {Slice(mode, iovs[i].iov_base, iovs[i].iov_len) : i \in 1 .. k}

LEMMA IovEntries ==
    ASSUME NEW n \in Nat, NEW iovs \in IovArrays(n)
    PROVE  \A i \in 1 .. n : iovs[i].iov_len \in Nat /\ iovs[i].iov_base \in {0, 1000 + i}
<1>1. PICK f \in [1 .. n -> [null : BOOLEAN, len : BufLens]] :
        iovs = [i \in 1 .. n |-> [iov_base |-> IF f[i].null THEN 0 ELSE 1000 + i,
                                  iov_len |-> f[i].len]]
  BY DEF IovArrays
<1>2. \A i \in 1 .. n : iovs[i].iov_base \in {0, 1000 + i}
  BY <1>1
<1> QED
  BY <1>2, IovArrayFacts

(* One more entry. *)
LEMMA BuffersStep ==
    ASSUME NEW n \in Nat, NEW iovs \in IovArrays(n), NEW mode, NEW k \in Nat, k + 1 <= n
    PROVE  LET i == k + 1
               a == Access(mode, iovs[i].iov_base, iovs[i].iov_len)
           IN  /\ Buffers(mode, iovs, i) = Buffers(mode, iovs, k)
                      \cup (IF iovs[i].iov_base = 0 \/ iovs[i].iov_len = 0 THEN {} ELSE {a})
               /\ iovs[i].iov_base # 0 => a \notin Buffers(mode, iovs, k)
<1> DEFINE i == k + 1
           slice(j) == Slice(mode, iovs[j].iov_base, iovs[j].iov_len)
           a == Access(mode, iovs[i].iov_base, iovs[i].iov_len)
<1>1. slice(i) = IF iovs[i].iov_base = 0 \/ iovs[i].iov_len = 0 THEN {} ELSE {a}
  BY DEF Slice
<1>2. 1 .. i = (1 .. k) \cup {i}
  OBVIOUS
<1>3. UNION {slice(j) : j \in 1 .. i} = (UNION {slice(j) : j \in 1 .. k}) \cup slice(i)
  <2> HIDE DEF slice, i
  <2> QED
    BY <1>2
<1>4. ASSUME iovs[i].iov_base # 0, NEW j \in 1 .. k, a \in slice(j) PROVE FALSE
  <2>1. i \in 1 .. n /\ j \in 1 .. n /\ i # j
    OBVIOUS
  <2>2. iovs[i].iov_base = 1000 + i /\ iovs[j].iov_base \in {0, 1000 + j}
    BY <1>4, <2>1, IovEntries
  <2>3. a.base = iovs[i].iov_base /\ a.base = iovs[j].iov_base
    BY <1>4 DEF Slice, Access, Part
  <2> QED
    BY <2>1, <2>2, <2>3
<1> HIDE DEF slice, a
<1>5. iovs[i].iov_base # 0 => a \notin UNION {slice(j) : j \in 1 .. k}
  BY <1>4
<1> QED
  BY <1>1, <1>3, <1>5 DEF Buffers, slice, a

(* The loop over the entries and the sum over the buffers count the same. *)
LEMMA BuffersAddUp ==
    ASSUME NEW n \in Nat, NEW iovs \in IovArrays(n), NEW mode,
           NEW len, len = [i \in 1 .. n |-> iovs[i].iov_len],
           NEW size, size = [a \in Buffers(mode, iovs, n) |-> a.bytes]
    PROVE  \A k \in 0 .. n :
              /\ IsFiniteSet(Buffers(mode, iovs, k))
              /\ Buffers(mode, iovs, k) \subseteq Buffers(mode, iovs, n)
              /\ SumFunctionOnSet(size, Buffers(mode, iovs, k))
                    = SumFunctionOnSet(len, {i \in 1 .. k : iovs[i].iov_base # 0})
<1> DEFINE D(k) == Buffers(mode, iovs, k)
           N(k) == {i \in 1 .. k : iovs[i].iov_base # 0}
           T == {k \in Nat : k <= n => /\ IsFiniteSet(D(k))
                                       /\ SumFunctionOnSet(size, D(k)) = SumFunctionOnSet(len, N(k))}
<1>1. \A k \in 0 .. n : IsFiniteSet(N(k)) /\ \A i \in N(k) : len[i] \in Nat
  <2> TAKE k \in 0 .. n
  <2>1. N(k) \in SUBSET (1 .. k) /\ IsFiniteSet(1 .. k)
    BY FS_Interval
  <2>2. \A i \in 1 .. n : len[i] \in Nat
    BY IovEntries
  <2> QED
    BY <2>1, <2>2, FS_Subset
<1>2. \A k \in 0 .. n : D(k) \subseteq D(n)
  BY DEF Buffers
<1>3. \A a \in D(n) : size[a] = a.bytes /\ a.bytes \in Nat
  <2>1. ASSUME NEW i \in 1 .. n, NEW a \in Slice(mode, iovs[i].iov_base, iovs[i].iov_len)
        PROVE  a.bytes \in Nat
    BY IovEntries, InSlice
  <2> QED
    BY <2>1 DEF Buffers
<1>4. 0 \in T
  <2>1. D(0) = {} /\ N(0) = {}
    BY DEF Buffers
  <2> QED
    BY <2>1, SumEmpty, FS_EmptySet
<1>5. ASSUME NEW k \in Nat, k \in T PROVE k + 1 \in T
  <2> SUFFICES ASSUME k + 1 <= n
               PROVE  /\ IsFiniteSet(D(k + 1))
                      /\ SumFunctionOnSet(size, D(k + 1)) = SumFunctionOnSet(len, N(k + 1))
    OBVIOUS
  <2> DEFINE i == k + 1
             a == Access(mode, iovs[i].iov_base, iovs[i].iov_len)
             d == SumFunctionOnSet(size, D(k))
             c == SumFunctionOnSet(len, N(k))
  <2>1. IsFiniteSet(D(k)) /\ d = c
    BY <1>5
  <2>2. k \in 0 .. n /\ i \in 0 .. n /\ i \in 1 .. n /\ i \notin N(k)
    OBVIOUS
  <2>3. c \in Nat
    <3>1. IsFiniteSet(N(k)) /\ (\A j \in N(k) : len[j] \in Nat) /\ \A j \in N(k) : len[j] = len[j]
      BY <1>1, <2>2
    <3> QED
      BY <3>1, SumSame
  <2>4. /\ D(i) = D(k) \cup (IF iovs[i].iov_base = 0 \/ iovs[i].iov_len = 0 THEN {} ELSE {a})
        /\ iovs[i].iov_base # 0 => a \notin D(k)
    BY BuffersStep
  <2>5. N(i) = N(k) \cup (IF iovs[i].iov_base = 0 THEN {} ELSE {i})
    OBVIOUS
  <2>6. a.bytes = iovs[i].iov_len /\ len[i] = iovs[i].iov_len
    BY <2>2 DEF Access, Part
  <2>7. iovs[i].iov_base # 0 => SumFunctionOnSet(len, N(i)) = len[i] + c
    <3> SUFFICES ASSUME iovs[i].iov_base # 0 PROVE SumFunctionOnSet(len, N(i)) = len[i] + c
      OBVIOUS
    <3>1. N(i) = N(k) \cup {i}
      BY <2>5
    <3>2. IsFiniteSet(N(k)) /\ \A j \in N(k) \cup {i} : len[j] \in Nat
      BY <1>1, <2>2, <3>1
    <3> HIDE DEF N, i
    <3> QED
      BY <2>2, <3>1, <3>2, SumAdd
  <2>8. CASE iovs[i].iov_base = 0
    <3>1. D(i) = D(k) /\ N(i) = N(k)
      BY <2>4, <2>5, <2>8
    <3> HIDE DEF N, D
    <3> QED
      BY <2>1, <3>1
  <2>9. CASE iovs[i].iov_base # 0 /\ iovs[i].iov_len = 0
    <3>1. D(i) = D(k)
      BY <2>4, <2>9
    <3>2. len[i] + c = c
      BY <2>3, <2>6, <2>9
    <3> HIDE DEF N, D
    <3> QED
      BY <2>1, <2>7, <2>9, <3>1, <3>2
  <2>10. CASE iovs[i].iov_base # 0 /\ iovs[i].iov_len # 0
    <3>1. D(i) = D(k) \cup {a} /\ a \notin D(k)
      BY <2>4, <2>10
    <3>2. IsFiniteSet(D(i))
      BY <2>1, <3>1, FS_AddElement
    <3>3. \A x \in D(k) \cup {a} : size[x] \in Nat
      BY <1>2, <1>3, <2>2, <3>1
    <3>4. size[a] = len[i]
      BY <1>2, <1>3, <2>2, <2>6, <3>1
    <3>5. SumFunctionOnSet(size, D(i)) = size[a] + d
      <4> DEFINE S == D(k)
      <4>1. /\ IsFiniteSet(S) /\ a \notin S /\ D(i) = S \cup {a}
            /\ \A x \in S \cup {a} : size[x] \in Nat
        BY <2>1, <3>1, <3>3
      <4> HIDE DEF S, a
      <4>2. SumFunctionOnSet(size, S \cup {a}) = size[a] + SumFunctionOnSet(size, S)
        BY <4>1, SumAdd
      <4> QED
        BY <4>1, <4>2 DEF S
    <3> HIDE DEF N, D, a
    <3> QED
      BY <2>1, <2>7, <2>10, <3>2, <3>4, <3>5
  <2> QED
    BY <2>8, <2>9, <2>10
<1> HIDE DEF T
<1>6. Nat \subseteq T
  BY <1>4, <1>5, SetInduction
<1>7. \A k \in 0 .. n : IsFiniteSet(D(k)) /\ SumFunctionOnSet(size, D(k)) = SumFunctionOnSet(len, N(k))
  <2> HIDE DEF D, N
  <2> QED
    BY <1>6 DEF T
<1> QED
  BY <1>2, <1>7

LEMMA VectoredBytes ==
    ASSUME NEW n \in Nat, NEW iovs \in IovArrays(n), NEW mode, NEW p,
           NEW data, data = IF p = 0 THEN {} ELSE Buffers(mode, iovs, n)
    PROVE  /\ SumFunction([a \in data |-> a.bytes]) = IovTotal(p, n, iovs)
           /\ IovTotal(p, n, iovs) \in Nat
<1> DEFINE size == [a \in Buffers(mode, iovs, n) |-> a.bytes]
           len == [i \in 1 .. n |-> iovs[i].iov_len]
           N == {i \in 1 .. n : iovs[i].iov_base # 0}
           counted == [i \in N |-> iovs[i].iov_len]
           empty == [a \in {} |-> a.bytes]
<1>1. CASE p = 0
  <2>1. data = {} /\ [a \in data |-> a.bytes] = empty /\ DOMAIN empty = {}
    BY <1>1
  <2>2. SumFunction(empty) = 0
    <3>1. SumFunction(empty) = SumFunctionOnSet(empty, DOMAIN empty)
      BY DEF SumFunction
    <3> HIDE DEF empty
    <3> QED
      BY <2>1, <3>1, SumEmpty
  <2> QED
    BY <1>1, <2>1, <2>2 DEF IovTotal
<1>2. CASE p # 0
  <2>1. [a \in data |-> a.bytes] = size /\ DOMAIN size = Buffers(mode, iovs, n)
    BY <1>2
  <2>2. SumFunction(size) = SumFunctionOnSet(len, N)
    <3>1. SumFunctionOnSet(size, Buffers(mode, iovs, n)) = SumFunctionOnSet(len, N)
      <4>1. n \in 0 .. n
        OBVIOUS
      <4> QED
        BY <4>1, BuffersAddUp
    <3> HIDE DEF size, len, N
    <3> QED
      BY <2>1, <3>1 DEF SumFunction
  <2>3. /\ IsFiniteSet(N) /\ (\A i \in N : len[i] \in Nat) /\ \A i \in N : counted[i] = len[i]
        /\ DOMAIN counted = N
    <3>1. N \in SUBSET (1 .. n) /\ IsFiniteSet(1 .. n)
      BY FS_Interval
    <3> QED
      BY <3>1, FS_Subset, IovEntries
  <2>4. SumFunction(counted) = SumFunctionOnSet(len, N) /\ SumFunctionOnSet(len, N) \in Nat
    <3> HIDE DEF counted, len, N
    <3> QED
      BY <2>3, SumSame DEF SumFunction
  <2>5. IovTotal(p, n, iovs) = SumFunction(counted)
    BY <1>2 DEF IovTotal
  <2> QED
    BY <2>1, <2>2, <2>4, <2>5
<1> QED
  BY <1>1, <1>2

LEMMA IovTotalFits ==
    ASSUME NEW total \in Nat, total < I32Half
    PROVE  I32(total) = total
<1>1. total \in Int /\ total \in -I32Half .. I32Half - 1
  BY TypesAssumption
<1> QED
  BY <1>1, I32Is

(* One buffer, or none. *)
LEMMA PlainBytes ==
    ASSUME NEW mode, NEW p, NEW n \in Nat, NEW data, data = Slice(mode, p, n)
    PROVE  SumFunction([a \in data |-> a.bytes]) = IF data = {} THEN 0 ELSE n
<1> DEFINE size == [a \in data |-> a.bytes]
<1>1. DOMAIN size = data /\ SumFunction(size) = SumFunctionOnSet(size, DOMAIN size)
  BY DEF SumFunction
<1>2. CASE data = {}
  <2> HIDE DEF size
  <2> QED
    BY <1>1, <1>2, SumEmpty DEF size
<1>3. CASE data # {}
  <2> DEFINE a == Access(mode, p, n)
             E == {}
  <2>1. data = E \cup {a} /\ a.bytes = n
    BY <1>3 DEF Slice, Access, Part
  <2>2. size[a] = n /\ \A x \in E \cup {a} : size[x] \in Nat
    BY <2>1
  <2>3. IsFiniteSet(E) /\ a \notin E /\ SumFunctionOnSet(size, E) = 0
    BY FS_EmptySet, SumEmpty
  <2> HIDE DEF size, a, E
  <2>4. SumFunctionOnSet(size, E \cup {a}) = size[a] + SumFunctionOnSet(size, E)
    BY <2>2, <2>3, SumAdd
  <2>5. SumFunction(size) = n + 0
    BY <1>1, <2>1, <2>2, <2>3, <2>4
  <2> QED
    BY <1>3, <2>5 DEF size
<1> QED
  BY <1>2, <1>3

(* The parts of ResultIsBytes: the buffers an operation moves, which for a *)
(* vectored one are not the iovec array or the msghdr that lead to them,   *)
(* and the sum of their sizes.                                             *)
Vectored == Builders[call.builder].words.addr.is \in {"iov", "msg"}
Data == {a \in out.accesses : Vectored => a.base > 1000}
Bytes == SumFunction([a \in Data |-> a.bytes])
BytesReported == out.result = EFAULT \/ (Bytes < I32Half => out.result = Bytes)

LEMMA PlainReported ==
    ASSUME AsBuilt, ~Vectored, NEW mode,
           out = Ret(Slice(mode, call.sqe.addr, call.sqe.len),
                     IF Slice(mode, call.sqe.addr, call.sqe.len) = {} THEN 0
                     ELSE I32(call.sqe.len))
    PROVE  BytesReported
<1> DEFINE n == call.sqe.len
           p == call.sqe.addr
<1>1. n \in Nat
  BY SqeFacts
<1>2. Data = Slice(mode, p, n)
  BY DEF Data, Ret
<1>3. Bytes = IF Data = {} THEN 0 ELSE n
  BY <1>1, <1>2, PlainBytes DEF Bytes
<1>4. out.result = IF Data = {} THEN 0 ELSE I32(n)
  BY <1>2 DEF Ret
<1>5. n < I32Half => I32(n) = n
  BY <1>1, IovTotalFits
<1> QED
  BY <1>3, <1>4, <1>5 DEF BytesReported

(* Where the bytes of a vectored operation are. *)
LEMMA DataOfWalk ==
    ASSUME NEW n \in Nat, NEW iovs \in IovArrays(n), NEW mode, NEW p \in {0, 300, 800}
    PROVE  {a \in IovWalk(mode, p, n, iovs) : a.base > 1000}
              = IF p = 0 THEN {} ELSE Buffers(mode, iovs, n)
<1>1. \A a \in Buffers(mode, iovs, n) : a.base > 1000
  <2>1. ASSUME NEW i \in 1 .. n, NEW a \in Slice(mode, iovs[i].iov_base, iovs[i].iov_len)
        PROVE  a.base > 1000
    <3>1. a.base = iovs[i].iov_base /\ a.base # 0
      BY DEF Slice, Access, Part
    <3>2. a.base = 1000 + i
      BY <3>1, IovEntries
    <3> QED
      BY <3>2
  <2> QED
    BY <2>1 DEF Buffers
<1> DEFINE head == Access("fields", p, n * IovecSize)
<1>2. ~(head.base > 1000)
  BY DEF Access, Part
<1>3. n = 0 => Buffers(mode, iovs, n) = {}
  BY DEF Buffers
<1>4. IovWalk(mode, p, n, iovs) = IF p = 0 \/ n = 0 THEN {} ELSE {head} \cup Buffers(mode, iovs, n)
  BY DEF IovWalk, Buffers
<1> HIDE DEF head
<1> QED
  BY <1>1, <1>2, <1>3, <1>4

LEMMA TotalReported ==
    ASSUME NEW n \in Nat, NEW iovs \in IovArrays(n), NEW mode, NEW p,
           Data = IF p = 0 THEN {} ELSE Buffers(mode, iovs, n),
           out.result = I32(IovTotal(p, n, iovs))
    PROVE  BytesReported
<1>1. Bytes = IovTotal(p, n, iovs) /\ IovTotal(p, n, iovs) \in Nat
  BY VectoredBytes DEF Bytes
<1> QED
  BY <1>1, IovTotalFits DEF BytesReported

LEMMA IovReported ==
    ASSUME AsBuilt, NEW mode, Builders[call.builder].words.addr = Iov(mode),
           out = Ret(IovWalk(mode, call.sqe.addr, call.sqe.len, call.mem.iovs),
                     I32(IovTotal(call.sqe.addr, call.sqe.len, call.mem.iovs)))
    PROVE  BytesReported
<1> DEFINE b == Builders[call.builder]
           p == call.sqe.addr
           n == call.sqe.len
           iovs == call.mem.iovs
<1>1. b.words.addr.is = "iov" /\ Vectored
  BY DEF Iov, Vectored
<1>2. n \in Nat
  BY SqeFacts
<1>3. iovs \in IovArrays(n)
  BY <1>1 DEF AsBuilt, Mems
<1>4. p \in {0, 300, 800}
  <2>1. p \in Values("addr", b.words.addr)
    BY DEF AsBuilt, Sqes
  <2> QED
    BY <2>1 DEF Values, Pointers, Addresses, Iov
<1>5. Data = {a \in IovWalk(mode, p, n, iovs) : a.base > 1000}
  BY <1>1 DEF Data, Ret
<1>6. Data = IF p = 0 THEN {} ELSE Buffers(mode, iovs, n)
  BY <1>2, <1>3, <1>4, <1>5, DataOfWalk
<1>7. out.result = I32(IovTotal(p, n, iovs))
  BY DEF Ret
<1> QED
  BY <1>2, <1>3, <1>6, <1>7, TotalReported

LEMMA MsgReported ==
    ASSUME AsBuilt, NEW mode, Builders[call.builder].words.addr = Msg(mode),
           out = IF call.sqe.addr = 0 THEN Ret({}, EFAULT)
                 ELSE Ret(MsgWalk(mode, call.sqe, call.mem),
                          I32(IovTotal(call.mem.hdr.iov, Len(call.mem.iovs), call.mem.iovs)))
    PROVE  BytesReported
<1> DEFINE b == Builders[call.builder]
           hdr == call.mem.hdr
           iovs == call.mem.iovs
           n == Len(iovs)
<1>1. b.words.addr.is = "msg" /\ Vectored
  BY DEF Msg, Vectored
<1>2. hdr \in MsgHdrs /\ iovs \in UNION {IovArrays(m) : m \in Counts}
  BY <1>1 DEF AsBuilt, Mems
<1>3. n \in Nat /\ iovs \in IovArrays(n)
  <2>1. PICK m \in Counts : iovs \in IovArrays(m)
    BY <1>2
  <2>2. m \in Nat
    BY OperationsAssumption
  <2>3. n = m
    BY <2>1, <2>2, IovArrayFacts
  <2> QED
    BY <2>1, <2>2, <2>3
<1>4. CASE call.sqe.addr = 0
  BY <1>4 DEF Ret, BytesReported
<1>5. CASE call.sqe.addr # 0
  <2>1. call.sqe.addr = 300
    <3>1. call.sqe.addr \in Values("addr", b.words.addr)
      BY DEF AsBuilt, Sqes
    <3> QED
      BY <1>5, <3>1 DEF Values, Pointers, Addresses, Msg
  <2>2. hdr.name \in {0, 600} /\ hdr.control \in {0, 700} /\ hdr.iov \in {0, 800}
    BY <1>2 DEF MsgHdrs, Pointers
  <2> DEFINE walk == IovWalk(mode, hdr.iov, n, iovs)
             head == Access("fields", call.sqe.addr, MsgHdrSize)
             name == Slice(mode, hdr.name, hdr.namelen)
             control == Slice(mode, hdr.control, hdr.controllen)
  <2>3. out.accesses = {head} \cup name \cup control \cup walk
    BY <1>5 DEF Ret, MsgWalk
  <2>4. ~(head.base > 1000)
    BY <2>1 DEF Access, Part
  <2>5. \A a \in name \cup control : ~(a.base > 1000)
    <3>1. \A a \in name : a.base = hdr.name
      BY DEF Slice, Access, Part
    <3>2. \A a \in control : a.base = hdr.control
      BY DEF Slice, Access, Part
    <3> QED
      BY <2>2, <3>1, <3>2
  <2>6. {a \in walk : a.base > 1000} = IF hdr.iov = 0 THEN {} ELSE Buffers(mode, iovs, n)
    BY <1>3, <2>2, DataOfWalk
  <2> HIDE DEF walk, head, name, control
  <2>7. Data = {a \in walk : a.base > 1000}
    BY <1>1, <2>3, <2>4, <2>5 DEF Data
  <2>8. out.result = I32(IovTotal(hdr.iov, n, iovs))
    BY <1>5 DEF Ret
  <2> QED
    BY <1>3, <2>6, <2>7, <2>8, TotalReported
<1> QED
  BY <1>4, <1>5

(* The builders of the operations that move data. *)
Movers ==
    {"Read", "ReadFixed", "Recv", "RecvMulti", "RecvBundle", "RecvMultiBundle", "ReadMulti",
     "Write", "WriteFixed", "SendBundle", "Send", "SendZc", "Readv", "ReadvFixed", "Writev",
     "WritevFixed", "RecvMsg", "RecvMsgMulti", "SendMsg", "SendMsgZc"}

LEMMA MoversMove ==
    \A name \in DOMAIN Builders : Builders[name].code \in MovesData => name \in Movers
<1> DEFINE Still(name) == Builders[name].code \notin MovesData
<1>1. \A name \in {"Nop", "Fsync", "PollAdd", "PollRemove",
                     "SyncFileRange", "TimeoutRemove", "AsyncCancel",
                     "AsyncCancel2", "Fallocate", "Close", "Splice",
                     "RemoveBuffers", "Tee", "Shutdown", "MsgRing",
                     "MsgRingSendFd", "Socket", "Ftruncate", "Listen",
                     "Fadvise", "Madvise", "UringCmd16", "UringCmd80",
                     "FixedFdInstall", "RecvZc"} : Still(name)
  <2> DEFINE Q == SuccessOps \cup {"NOP", "SOCKET", "FIXED_FD_INSTALL"}
  <2>1. \A c \in Q : c \notin MovesData
    BY DEF MovesData, SuccessOps
  <2> HIDE DEF Q
  <2> QED
    BY <2>1, QuietRow DEF Row, Q
<1>2. \A name \in {"Timeout", "LinkTimeout"} : Still(name)
  BY TimeoutRow DEF Row, MovesData
<1>3. \A name \in {"Connect", "Bind"} : Still(name)
  BY ConnectRow DEF Row, MovesData
<1>4. \A name \in {"UnlinkAt", "MkDirAt"} : Still(name)
  BY PathRow DEF Row, MovesData
<1>5. \A name \in {"RenameAt", "SymlinkAt", "LinkAt"} : Still(name)
  BY Path2Row DEF Row, MovesData
<1>6. \A name \in {"FutexWait", "FutexWake"} : Still(name)
  BY FutexRow DEF Row, MovesData
<1>7. \A name \in {"TimeoutUpdate", "SetSockOpt", "Accept", "AcceptMulti",
                     "OpenAt", "OpenAt2", "Statx", "EpollCtl", "FilesUpdate",
                     "ProvideBuffers", "SetXattr", "FSetXattr", "GetXattr",
                     "FGetXattr", "EpollWait", "FutexWaitV", "WaitId", "Pipe"} : Still(name)
  BY TimeoutUpdateRow, SetSockOptRow, AcceptRow, AcceptMultiRow, OpenAtRow,
     OpenAt2Row, StatxRow, EpollCtlRow, FilesUpdateRow, ProvideBuffersRow,
     SetXattrRow, FSetXattrRow, GetXattrRow, FGetXattrRow, EpollWaitRow,
     FutexWaitVRow, WaitIdRow, PipeRow DEF Row, MovesData
<1> HIDE DEF Still
<1>8. \A name \in DOMAIN Builders : name \notin Movers => Still(name)
  BY BuilderNames, <1>1, <1>2, <1>3, <1>4, <1>5, <1>6, <1>7 DEF Movers
<1> QED
  BY <1>8 DEF Still

LEMMA MoversReport ==
    ASSUME AsBuilt, out = DispatchOp(call.sqe, call.mem), call.builder \in Movers
    PROVE  BytesReported
<1> DEFINE b == Builders[call.builder]
<1>1. call.sqe.code = b.code
  BY SqeFacts
<1>2. CASE call.builder \in {"Read", "ReadFixed", "Recv", "RecvMulti", "RecvBundle",
                             "RecvMultiBundle", "ReadMulti"}
  <2>1. Row(b, {"READ", "READ_FIXED", "RECV", "READ_MULTISHOT"},
            {Zero, Memory({"write"}, 1, "len")}, Plain, Plain)
    BY <1>2, FillRow
  <2>2. ~Vectored
    BY <2>1 DEF Row, Vectored, Zero, Memory
  <2>3. out = DispatchBufFill(call.sqe)
    BY <1>1, <2>1 DEF Row, DispatchOp, SuccessOps
  <2> QED
    BY <2>2, <2>3, PlainReported DEF DispatchBufFill
<1>3. CASE call.builder \in {"Write", "WriteFixed", "SendBundle"}
  <2>1. Row(b, {"WRITE", "WRITE_FIXED", "SEND"},
            {Zero, Memory({"read"}, 1, "len")}, Plain, Plain)
    BY <1>3, SinkRow
  <2>2. ~Vectored
    BY <2>1 DEF Row, Vectored, Zero, Memory
  <2>3. out = DispatchBufSink(call.sqe)
    BY <1>1, <2>1 DEF Row, DispatchOp, SuccessOps
  <2> QED
    BY <2>2, <2>3, PlainReported DEF DispatchBufSink
<1>4. CASE call.builder \in {"Send", "SendZc"}
  <2>1. Row(b, {"SEND", "SEND_ZC"}, {Memory({"read"}, 1, "len")}, Plain, {In(16)})
    BY <1>4, SendRow
  <2>2. ~Vectored
    BY <2>1 DEF Row, Vectored, Memory
  <2>3. out = DispatchBufSink(call.sqe)
    BY <1>1, <2>1 DEF Row, DispatchOp, SuccessOps
  <2> QED
    BY <2>2, <2>3, PlainReported DEF DispatchBufSink
<1>5. CASE call.builder \in {"Readv", "ReadvFixed"}
  <2>1. Row(b, {"READV", "READV_FIXED"}, {Iov("write")}, Plain, Plain)
    BY <1>5, ReadvRow
  <2>2. out = DispatchReadv(call.sqe, call.mem) /\ b.words.addr = Iov("write")
    BY <1>1, <2>1 DEF Row, DispatchOp, SuccessOps
  <2> QED
    BY <2>2, IovReported DEF DispatchReadv
<1>6. CASE call.builder \in {"Writev", "WritevFixed"}
  <2>1. Row(b, {"WRITEV", "WRITEV_FIXED"}, {Iov("read")}, Plain, Plain)
    BY <1>6, WritevRow
  <2>2. out = DispatchWritev(call.sqe, call.mem) /\ b.words.addr = Iov("read")
    BY <1>1, <2>1 DEF Row, DispatchOp, SuccessOps
  <2> QED
    BY <2>2, IovReported DEF DispatchWritev
<1>7. CASE call.builder \in {"RecvMsg", "RecvMsgMulti"}
  <2>1. Row(b, {"RECVMSG"}, {Msg("write")}, Plain, Plain)
    BY <1>7, RecvMsgRow
  <2>2. out = DispatchRecvMsg(call.sqe, call.mem) /\ b.words.addr = Msg("write")
    BY <1>1, <2>1 DEF Row, DispatchOp, SuccessOps
  <2> QED
    BY <2>2, MsgReported DEF DispatchRecvMsg
<1>8. CASE call.builder \in {"SendMsg", "SendMsgZc"}
  <2>1. Row(b, {"SENDMSG", "SENDMSG_ZC"}, {Msg("read")}, Plain, Plain)
    BY <1>8, SendMsgRow
  <2>2. out = DispatchSendMsg(call.sqe, call.mem) /\ b.words.addr = Msg("read")
    BY <1>1, <2>1 DEF Row, DispatchOp, SuccessOps
  <2> QED
    BY <2>2, MsgReported DEF DispatchSendMsg
<1> QED
  BY <1>2, <1>3, <1>4, <1>5, <1>6, <1>7, <1>8 DEF Movers

-----------------------------------------------------------------------------
(* Theorems *)

(* Whatever an access of a handler that walks what was lent is, it is lent. *)
LEMMA WalkedIsLent ==
    ASSUME NEW a \in WalkedLent
    PROVE  \E w \in PointerWords : a \in Lent(w)
  BY DEF WalkedLent

(* What is lent is lent from where the pointer points to, and not empty. *)
LEMMA LentWhole ==
    ASSUME NEW w, NEW l \in Lent(w)
    PROVE  l.at = 0 /\ l.bytes # 0
<1> DEFINE kind == Builders[call.builder].words[w]
<1>1. \A mode, base, bytes : Access(mode, base, bytes).at = 0
  BY DEF Access, Part
<1>2. \A mode, p, n, iovs : \A a \in LentIovs(mode, p, n, iovs) : a.at = 0 /\ a.bytes # 0
  BY <1>1 DEF LentIovs, NonEmpty
<1>3. CASE kind.is = "memory"
  BY <1>1, <1>3 DEF Lent, NonEmpty
<1>4. CASE kind.is = "iov"
  BY <1>2, <1>4 DEF Lent
<1>5. CASE kind.is = "msg"
  BY <1>1, <1>2, <1>5 DEF Lent, NonEmpty
<1> QED
  BY <1>3, <1>4, <1>5 DEF Lent

(* The entries of futex_waitv fill what was lent. *)
LEMMA EntriesLent ==
    ASSUME AsBuilt, call.builder = "FutexWaitV", NEW l \in WalkedLent
    PROVE  call.sqe.len \in Nat /\ l.bytes = call.sqe.len * 24
<1>1. Row(Builders[call.builder], {"FUTEX_WAITV"}, {Memory({"read"}, 24, "len")}, Plain, Plain)
  BY FutexWaitVRow
<1>2. call.sqe.len \in Nat
  BY SqeFacts
<1>3. Lent("addr") = Slice("read", call.sqe.addr, call.sqe.len * 24)
  BY <1>1, <1>2, LentBuffer DEF Row
<1>4. Lent("off") = {} /\ Lent("addr3") = {}
  BY <1>1, LentNothing DEF Row
<1>5. l \in Slice("read", call.sqe.addr, call.sqe.len * 24)
  BY <1>3, <1>4, WalkedWords
<1> QED
  BY <1>2, <1>5, InSlice

(* A walk stays inside what it walks. *)
LEMMA WalkInside ==
    ASSUME AsBuilt, NEW l \in WalkedLent, l.bytes \in Nat, NEW a \in Walk(l)
    PROVE  l.mode = a.mode /\ l.base = a.base /\ a.at + a.bytes <= l.bytes
<1>1. l.at = 0 /\ l.bytes # 0
  BY WalkedIsLent, LentWhole
<1>2. CASE call.builder = "ProvideBuffers"
  <2>1. a \in {Part(l.mode, l.base, 0, 1), Part(l.mode, l.base, l.bytes - 1, 1)}
    BY <1>2 DEF Walk, Ends
  <2>2. a.mode = l.mode /\ a.base = l.base /\ a.bytes = 1 /\ a.at \in {0, l.bytes - 1}
    BY <2>1 DEF Part
  <2> QED
    BY <1>1, <2>2
<1>3. CASE call.builder = "FutexWaitV"
  <2>1. call.sqe.len \in Nat /\ l.bytes = call.sqe.len * 24
    BY <1>3, EntriesLent
  <2>2. PICK i \in 0 .. call.sqe.len - 1 : a = Part(l.mode, l.base, 24 * i, 20)
    BY <1>3 DEF Walk, Entries, FutexWaitVSize
  <2>3. a.mode = l.mode /\ a.base = l.base /\ a.at = 24 * i /\ a.bytes = 20
    BY <2>2 DEF Part
  <2>4. 24 * i + 20 <= call.sqe.len * 24
    BY <2>1
  <2> QED
    BY <2>1, <2>3, <2>4
<1>4. CASE call.builder \notin {"ProvideBuffers", "FutexWaitV"}
  <2>1. a = l
    BY <1>4 DEF Walk
  <2> QED
    BY <1>1, <2>1
<1> QED
  BY <1>2, <1>3, <1>4

LEMMA InvConfines == OpInv => Confined
<1> SUFFICES ASSUME OpInv PROVE Confined
  OBVIOUS
<1>1. CASE out = Ret({}, 0)
  BY <1>1 DEF Confined, Ret
<1>2. CASE AsBuilt /\ out = DispatchOp(call.sqe, call.mem)
  <2>1. HandlerCorrect
    BY <1>2, EveryHandler
  <2> SUFFICES ASSUME NEW a \in out.accesses
               PROVE  \E w \in PointerWords : \E l \in Lent(w) :
                         l.mode = a.mode /\ l.base = a.base /\ a.at + a.bytes <= l.bytes
    BY DEF Confined
  <2>2. PICK l \in WalkedLent : a \in Walk(l) /\ l.bytes \in Nat
    BY <2>1 DEF HandlerCorrect, Faulted, Ret
  <2>3. PICK w \in PointerWords : l \in Lent(w)
    BY WalkedIsLent
  <2>4. l.mode = a.mode /\ l.base = a.base /\ a.at + a.bytes <= l.bytes
    BY <1>2, <2>2, WalkInside
  <2> QED
    BY <2>3, <2>4
<1> QED
  BY <1>1, <1>2 DEF OpInv

(* Behind the four pointers nobody looks at, nothing is touched. *)
LEMMA NotTouched ==
    ASSUME AsBuilt, out = DispatchOp(call.sqe, call.mem), NEW w \in PointerWords,
           <<call.builder, w>> \in NotWalked, NEW l \in Lent(w), NEW a \in out.accesses
    PROVE  a.base # l.base
<1> DEFINE b == Builders[call.builder]
<1>1. call.sqe.code = b.code
  BY SqeFacts
<1>2. CASE call.builder = "TimeoutUpdate"
  <2>1. b.code = "TIMEOUT_REMOVE"
    BY <1>2, TimeoutUpdateRow DEF Row
  <2>2. out = Ret({}, 0)
    BY <1>1, <2>1 DEF DispatchOp, SuccessOps
  <2> QED
    BY <2>2 DEF Ret
<1>3. CASE call.builder = "SetSockOpt"
  <2>1. b.code = "URING_CMD"
    BY <1>3, SetSockOptRow DEF Row
  <2>2. out = Ret({}, 0)
    BY <1>1, <2>1 DEF DispatchOp, SuccessOps
  <2> QED
    BY <2>2 DEF Ret
<1>4. CASE call.builder \in {"Send", "SendZc"}
  <2>1. Row(b, {"SEND", "SEND_ZC"}, {Memory({"read"}, 1, "len")}, Plain, {In(16)})
    BY <1>4, SendRow
  <2>2. out = DispatchBufSink(call.sqe)
    BY <1>1, <2>1 DEF Row, DispatchOp, SuccessOps
  <2>3. a.base = call.sqe.addr
    BY <2>2, InSlice DEF DispatchBufSink, Ret
  <2>4. w = "addr3"
    BY <1>4 DEF NotWalked
  <2>5. Lent("addr3") = Slice("read", call.sqe.addr3, 16)
    BY <2>1, LentIn DEF Row
  <2>6. l.base = call.sqe.addr3 /\ call.sqe.addr3 # 0
    BY <2>4, <2>5, InSlice
  <2>7. b.slot # "send_fd"
    <3>1. Send.slot = "none" /\ SendZc.slot = "none"
      BY DEF Send, SendZc, Builder, Words
    <3>2. Builders["Send"] = Send /\ Builders["SendZc"] = SendZc
      BY DEF Builders
    <3> QED
      BY <1>4, <3>1, <3>2
  <2>8. /\ call.sqe.addr \in Values("addr", b.words.addr)
        /\ call.sqe.addr3 \in Values("addr3", b.words.addr3)
    BY <2>7 DEF AsBuilt, Sqes
  <2>9. call.sqe.addr \in {0, 300} /\ call.sqe.addr3 \in {0, 500}
    BY <2>1, <2>8 DEF Row, Values, Pointers, Addresses, In, Memory
  <2> QED
    BY <2>3, <2>6, <2>9
<1> QED
  BY <1>2, <1>3, <1>4 DEF NotWalked

LEMMA InvWalks == OpInv => WalksPointers
<1> SUFFICES ASSUME OpInv, call.stage = "done", out.result # EFAULT,
                    NEW w \in PointerWords, NEW l \in Lent(w)
             PROVE  IF <<call.builder, w>> \in NotWalked
                    THEN \A a \in out.accesses : a.base # l.base
                    ELSE Walk(l) \subseteq out.accesses
  BY DEF WalksPointers
<1>1. AsBuilt /\ out = DispatchOp(call.sqe, call.mem)
  BY DEF OpInv
<1>2. CASE <<call.builder, w>> \in NotWalked
  BY <1>1, <1>2, NotTouched
<1>3. CASE <<call.builder, w>> \notin NotWalked
  <2>1. HandlerCorrect
    BY <1>1, EveryHandler
  <2>2. out.accesses = UNION {Walk(m) : m \in WalkedLent}
    BY <2>1 DEF HandlerCorrect, Faulted, Ret
  <2>3. l \in WalkedLent
    BY <1>3 DEF WalkedLent
  <2> QED
    BY <1>3, <2>2, <2>3
<1> QED
  BY <1>2, <1>3

LEMMA InvFails == OpInv => FailsCleanly
<1> SUFFICES ASSUME OpInv, LengthsFit, out.result < 0
             PROVE  \/ InjectsResult /\ out = Ret({}, I32(call.sqe.len))
                    \/ out.result = ETIME /\ call.sqe.code \in {"TIMEOUT", "LINK_TIMEOUT"}
                    \/ Faulted
  BY DEF FailsCleanly, Faulted
<1>1. CASE out = Ret({}, 0)
  BY <1>1 DEF Ret
<1>2. CASE AsBuilt /\ out = DispatchOp(call.sqe, call.mem)
  <2>1. HandlerCorrect
    BY <1>2, EveryHandler
  <2>2. out.result \notin Nat
    OBVIOUS
  <2> QED
    BY <2>1, <2>2 DEF HandlerCorrect
<1> QED
  BY <1>1, <1>2 DEF OpInv

LEMMA InvProbes == OpInv => ProbeAccurate
<1> SUFFICES ASSUME OpInv, LengthsFit, ~InjectsResult
             PROVE  IsSupported(OpcodeNumber[call.sqe.code]) /\ out.result # ENOSYS
  BY DEF ProbeAccurate
<1>1. call.sqe.code \in HandledOpcodes
  <2>1. CASE call.sqe = ZeroedSqe
    BY <2>1 DEF ZeroedSqe, HandledOpcodes, TouchingOpcodes
  <2>2. CASE AsBuilt
    <3>1. call.sqe.code = Builders[call.builder].code /\ call.builder \in DOMAIN Builders
      BY <2>2, SqeFacts DEF AsBuilt
    <3> QED
      BY <3>1, EveryRow
  <2> QED
    BY <2>1, <2>2 DEF OpInv
<1>2. out.result # ENOSYS
  <2>1. CASE out = Ret({}, 0)
    BY <2>1 DEF Ret, ENOSYS
  <2>2. CASE AsBuilt /\ out = DispatchOp(call.sqe, call.mem)
    <3>1. HandlerCorrect
      BY <2>2, EveryHandler
    <3>2. out.result \in Nat \/ out.result = ETIME \/ out.result = EFAULT
      BY <3>1 DEF HandlerCorrect, Faulted, Ret
    <3> QED
      BY <3>2 DEF EFAULT, ENOSYS, ETIME
  <2> QED
    BY <2>1, <2>2 DEF OpInv
<1> QED
  BY <1>1, <1>2, HandledIsSupported

LEMMA InvReports == OpInv => ResultIsBytes
<1> SUFFICES ASSUME OpInv, call.stage = "done", call.sqe.code \in MovesData,
                    out.result # EFAULT, Bytes < I32Half
             PROVE  out.result = Bytes
  BY DEF ResultIsBytes, Bytes, Data, Vectored
<1>1. AsBuilt /\ out = DispatchOp(call.sqe, call.mem)
  BY DEF OpInv
<1>2. call.builder \in DOMAIN Builders /\ call.sqe.code = Builders[call.builder].code
  BY <1>1, SqeFacts DEF AsBuilt
<1>3. BytesReported
  BY <1>1, <1>2, MoversMove, MoversReport
<1> QED
  BY <1>3 DEF BytesReported

LEMMA InvEncodes == OpInv => SlotEncoding
<1> DEFINE b == Builders[call.builder]
           kind == b.slot
           word == IF kind = "send_fd" THEN call.sqe.addr3 ELSE call.sqe.splice_fd_in
<1> SUFFICES ASSUME OpInv, call.stage \in {"built", "done"},
                    kind = "raw" => call.slot.index < AutoAlloc - 1
             PROVE  DecodedSlot(word) = call.slot
  BY DEF SlotEncoding
<1>1. /\ call.builder \in DOMAIN Builders /\ call.slot \in SlotRequests(kind)
      /\ call.sqe \in Sqes(b, call.target, SlotWord(kind, call.slot))
  BY DEF OpInv, AsBuilt
<1>2. kind \in {"none", "raw", "alloc", "option", "send_fd"}
  BY <1>1, EveryRow DEF SlotKinds
<1>3. word = SlotWord(kind, call.slot)
  BY <1>1 DEF Sqes
<1>4. DecodedSlot(SlotWord(kind, call.slot)) = call.slot
  <2> HIDE DEF kind
  <2> QED
    BY <1>1, <1>2, SlotSurvives
<1> QED
  BY <1>3, <1>4

LEMMA InvParses == OpInv => ParseInBounds
<1> SUFFICES ASSUME OpInv PROVE ParseInBounds
  OBVIOUS
<1>1. CASE call.stage = "parsed"
  <2>1. PICK p \in Parses :
          parsed = [of |-> p, got |-> Parse(p.len, p.header, p.name_len, p.control_len)]
    BY <1>1 DEF OpInv
  <2> QED
    BY <2>1, ParseKeepsBounds
<1>2. CASE call.stage # "parsed"
  BY <1>2 DEF ParseInBounds
<1> QED
  BY <1>1, <1>2

(* A handler of dispatch_op touches only memory that the caller of the     *)
(* opcode's builder lent, whatever numbers the SQE holds and however long  *)
(* the buffers are: the tables of opcode.rs and submit.rs agree.           *)
THEOREM HandlersConfined == OpSpec => []Confined
  BY OpInvariance, InvConfines, PTL

(* A handler of dispatch_op that does not report a fault touches nothing   *)
(* behind the four pointers named in NotWalked and walks all else that was *)
(* lent to it: of provided buffers both ends, of a futex_waitv, msghdr or  *)
(* iovec the fields, and of everything else every byte.                    *)
THEOREM HandlersWalk == OpSpec => []WalksPointers
  BY OpInvariance, InvWalks, PTL

(* An operation of dispatch_op fails only because it is a Nop told to      *)
(* report that very result, because it is a timeout, or because a pointer  *)
(* it needs is null or its length zero, and in this last case before it    *)
(* touched any memory.  This holds for every builder and all lengths that  *)
(* fit into the i32 of a result: no byte count, however large the sum,     *)
(* passes for an error in a chain.                                         *)
THEOREM FailuresAreClean == OpSpec => []FailsCleanly
  BY OpInvariance, InvFails, PTL

(* The result of an operation that moves data, vectored or not, is the     *)
(* number of bytes of the caller's data it touched, however many entries   *)
(* an iovec array has, whichever of them are null and however long they    *)
(* are, as long as an i32 holds the sum.                                   *)
THEOREM BytesAreReported == OpSpec => []ResultIsBytes
  BY OpInvariance, InvReports, PTL

(* The probe reports what dispatch_op handles, by its number: no operation *)
(* it lists answers -ENOSYS, unless it is a Nop told to.                   *)
THEOREM ProbeMatches == OpSpec => []ProbeAccurate
  BY OpInvariance, InvProbes, PTL

(* Every file slot survives the encoding its builder chooses, for every    *)
(* width of i32: none, any and each number stay apart.                     *)
THEOREM SlotsSurvive == OpSpec => []SlotEncoding
  BY OpInvariance, InvEncodes, PTL

(* RecvMsgOut::parse returns slices inside the buffer, and refuses exactly *)
(* the buffers its fields do not fit into, for every width of usize.       *)
THEOREM ParsesInBounds == OpSpec => []ParseInBounds
  BY OpInvariance, InvParses, PTL
=============================================================================
