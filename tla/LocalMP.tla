------------------------------ MODULE LocalMP ------------------------------
(***************************************************************************)
(* Local multiplayer between emulator processes (frontend/qt_sdl/          *)
(* LocalMP.cpp): one shared memory segment with a header, a ring for       *)
(* frames (regular, CMD, ack) and a ring for MP replies, guarded by one    *)
(* lock, and two named semaphores per instance that count what it has yet  *)
(* to read.  A critical section of the segment's lock is one step; waiting *)
(* on and posting a semaphore happen outside it and are steps of their     *)
(* own.  The caller is Wifi.cpp: one emulator thread per process.          *)
(*                                                                         *)
(* One cell of a ring stands for sizeof(MPPacketHeader) bytes.             *)
(***************************************************************************)
EXTENDS Integers, Sequences, FiniteSets

CONSTANTS
  Procs,         \* emulator processes, numbered from 0
  Joined,        \* the ones already attached when the behaviour starts
  Resident,      \* those of them that outlive the behaviour
  MaxInstances,  \* instance IDs the bitmasks have room for (16)
  kStart, kEnd,  \* bounds of each ring: kPacketStart/kReplyStart, kPacketEnd/kReplyEnd
  Data,          \* payloads a frame can carry
  Lengths,       \* payload lengths, in cells
  FrameTypes,    \* which of SendPacket (0) and SendAck (3) are called
  StartOffsets,  \* write offsets an attached process may find
  StaleWindow,   \* age in microseconds beyond which a reply is stale (32)
  TSMod,         \* timestamps are unsigned (2^64)
  Times,         \* timestamps the host's CMD frames may take
  Hosts,         \* processes that run a host game
  SemMax,        \* a Windows semaphore refuses posts above this count (64)
  MaxInits,      \* bound: times a process may construct its console
  MaxBegins,     \* bound: times a process may switch its wifi on
  MaxBacklog,    \* bound: cells a sender may be ahead of a reader
  MaxFrames      \* bound: frames sent

Packet == 0      \* the frame ring; semaphores 0-15
Reply == 1       \* the reply ring; semaphores 16-31
Rings == {Packet, Reply}

Area(f) == kStart[f] .. kEnd[f] - 1
IDs == 0 .. MaxInstances - 1
Sems == Rings \X IDs          \* <<Reply, i>> is semaphore 16+i

ASSUME RingAssumption ==
  /\ kStart \in [Rings -> Nat]
  /\ kEnd \in [Rings -> Nat]
  /\ Lengths \subseteq Nat
  /\ \A f \in Rings : /\ kStart[f] + 1 < kEnd[f]
                      /\ \A l \in Lengths : l < kEnd[f] - kStart[f]
                      /\ \A o \in StartOffsets : o[f] \in Area(f)
  /\ StartOffsets \subseteq [Rings -> Nat]
  /\ FrameTypes \subseteq {0, 3}
ASSUME ProcsAssumption ==
  /\ Procs \subseteq Nat
  /\ Joined \subseteq Procs
  /\ MaxInstances \in Nat \ {0}
  /\ Joined \subseteq IDs /\ Resident \subseteq Joined
  /\ Hosts \subseteq Procs
ASSUME BoundsAssumption ==
  /\ MaxFrames \in Nat /\ MaxInits \in Nat /\ MaxBegins \in Nat /\ MaxBacklog \in Nat
  /\ SemMax \in Nat \ {0} /\ StaleWindow \in Nat /\ TSMod \in Nat \ {0}
  /\ Times \subseteq 1 .. TSMod - 1

VARIABLES
  \* the shared segment
  shm,                \* "absent", "raw" (created and zero) or "ready" (formatted)
  NumInstances, InstanceBitmask, ConnectedBitmask,
  WriteOffset,        \* PacketWriteOffset and ReplyWriteOffset
  MPHostInstanceID, MPReplyBitmask,
  mem,                \* the two rings
  sem,                \* the named semaphores
  \* per process
  pc,                 \* where its thread is
  InstanceID,
  ReadOffset,         \* PacketReadOffset and ReplyReadOffset
  LastHostID,
  pend,               \* instances SendPacketGeneric has still to post
  col,                \* locals of RecvReplies; .ret is its result
  out,                \* the frame last received, header and payload
  \* the caller, Wifi.cpp
  PowerOn,
  duty,               \* "reply" to a CMD received, "collect" the replies to a CMD sent
  cmd,                \* timestamp of the last CMD received
  clock,              \* timestamp of the last CMD sent
  inits, begins, sent \* counts for the bounds

members == <<shm, NumInstances, InstanceBitmask, ConnectedBitmask>>
rings == <<WriteOffset, mem, MPHostInstanceID, MPReplyBitmask>>
locals == <<InstanceID, LastHostID, pend, col, out>>
wifi == <<PowerOn, duty, cmd, clock>>
counts == <<inits, begins, sent>>
vars == <<members, rings, sem, pc, ReadOffset, locals, wifi, counts>>

-----------------------------------------------------------------------------
(* Cells and packets *)

None == -1       \* LastHostID before any CMD was received

HeaderCell == [magic : {TRUE}, SenderID : IDs, Type : 0 .. 3, aid : Nat,
               Length : Lengths, Timestamp : Nat, data : Data]
BodyCell == [magic : {FALSE}, data : Data, k : Nat]
Blank == [magic |-> FALSE]
NoFrame == [h |-> Blank, body |-> <<>>]

\* The payload of a packet: `data' tells packets apart, k its cells.
Body(h) == [k \in 1 .. h.Length |-> [magic |-> FALSE, data |-> h.data, k |-> k]]

-----------------------------------------------------------------------------
(* Ring arithmetic *)

\* Mutants: the comparison misses the packet that ends exactly at the end of
\* the ring; the wrap forgets the part already copied.
NextOffsetNoPart(f, off, len) ==
  IF off + len >= kEnd[f] THEN kStart[f] ELSE off + len
NextOffsetLate(f, off, len) ==
  IF off + len > kEnd[f] THEN kStart[f] + len - (kEnd[f] - off) ELSE off + len

\* Where FIFORead and FIFOWrite leave an offset after `len' cells.
NextOffset(f, off, len) ==
  IF off + len >= kEnd[f] THEN kStart[f] + len - (kEnd[f] - off) ELSE off + len

\* How the receivers step over a payload they do not want.
SkipOffset(f, off, len) ==
  IF off + len >= kEnd[f] THEN off + len + (kStart[f] - kEnd[f]) ELSE off + len

\* The cell that byte k of a copy in two parts lands on.
Place(f, off, k) ==
  IF off + k >= kEnd[f] THEN kStart[f] + (k - (kEnd[f] - off)) ELSE off + k

FIFOWrite(m, f, off, buf) ==
  [o \in Area(f) |->
     IF \E k \in DOMAIN buf : Place(f, off, k - 1) = o
     THEN buf[CHOOSE k \in DOMAIN buf : Place(f, off, k - 1) = o]
     ELSE m[o]]

FIFORead(f, off, len) == [k \in 1 .. len |-> mem[f][Place(f, off, k - 1)]]

-----------------------------------------------------------------------------
(* Semaphores *)

SemPost(s) == sem' = [sem EXCEPT ![s] = IF @ < SemMax THEN @ + 1 ELSE @]

-----------------------------------------------------------------------------
(* Attaching and detaching *)

Init ==
  /\ shm = IF Joined = {} THEN "absent" ELSE "ready"
  /\ NumInstances = Cardinality(Joined)
  /\ InstanceBitmask = Joined
  /\ ConnectedBitmask = {}
  /\ WriteOffset \in IF Joined = {} THEN {[f \in Rings |-> 0]} ELSE StartOffsets
  /\ MPHostInstanceID = 0
  /\ MPReplyBitmask = {}
  /\ mem = [f \in Rings |-> [o \in Area(f) |-> Blank]]
  /\ sem = [s \in Sems |-> 0]
  /\ pc = [p \in Procs |-> IF p \in Joined THEN "idle" ELSE "off"]
  /\ ReadOffset = [p \in Procs |-> WriteOffset]
  /\ InstanceID = [p \in Procs |-> IF p \in Joined THEN p ELSE 0]
  /\ LastHostID = [p \in Procs |-> None]
  /\ pend = [p \in Procs |-> {}]
  /\ col = [p \in Procs |-> [ret |-> {}, my |-> {}, cur |-> {}, ts |-> 0,
                             aids |-> {}, packets |-> <<>>]]
  /\ out = [p \in Procs |-> NoFrame]
  /\ PowerOn = [p \in Procs |-> FALSE]
  /\ duty = [p \in Procs |-> "none"]
  /\ cmd = [p \in Procs |-> 0]
  /\ clock = 0
  /\ inits = [p \in Procs |-> IF p \in Joined THEN 1 ELSE 0]
  /\ begins = [p \in Procs |-> 0]
  /\ sent = 0

\* Init(): attach to the segment; without one, go and create it.
Attach(p) ==
  /\ pc[p] = "off"
  /\ inits[p] < MaxInits
  /\ inits' = [inits EXCEPT ![p] = @ + 1]
  /\ pc' = [pc EXCEPT ![p] = IF shm = "absent" THEN "create" ELSE "join"]
  /\ UNCHANGED <<members, rings, sem, ReadOffset, locals, wifi, begins, sent>>

\* A segment nobody has joined, with the given write offsets.
EmptySegment(offsets) ==
  /\ NumInstances' = 0
  /\ InstanceBitmask' = {}
  /\ ConnectedBitmask' = {}
  /\ WriteOffset' = offsets
  /\ MPHostInstanceID' = 0
  /\ MPReplyBitmask' = {}
  /\ mem' = [f \in Rings |-> [o \in Area(f) |-> Blank]]

\* The new segment is zero.  Creating fails if another process created it
\* since: no multiplayer then.
Create(p) ==
  /\ pc[p] = "create"
  /\ \/ /\ shm = "absent"
        /\ shm' = "raw"
        /\ EmptySegment([f \in Rings |-> 0])
        /\ pc' = [pc EXCEPT ![p] = "format"]
     \/ /\ shm # "absent"
        /\ pc' = [pc EXCEPT ![p] = "off"]
        /\ UNCHANGED <<members, rings>>
  /\ UNCHANGED <<sem, ReadOffset, locals, wifi, counts>>

\* The creator's critical section: clear everything and set the offsets.
Format(p) ==
  /\ pc[p] = "format"
  /\ shm' = "ready"
  /\ EmptySegment(kStart)
  /\ pc' = [pc EXCEPT ![p] = "join"]
  /\ UNCHANGED <<sem, ReadOffset, locals, wifi, counts>>

FreeIDs == IDs \ InstanceBitmask
LowestFree == CHOOSE i \in FreeIDs : \A j \in FreeIDs : i <= j

\* The second critical section of Init(): take the lowest free instance ID.
\* With none free InstanceID keeps its old value.
Join(p) ==
  /\ pc[p] = "join"
  /\ \/ /\ FreeIDs # {}
        /\ InstanceID' = [InstanceID EXCEPT ![p] = LowestFree]
        /\ InstanceBitmask' = InstanceBitmask \cup {LowestFree}
     \/ /\ FreeIDs = {}
        /\ UNCHANGED <<InstanceID, InstanceBitmask>>
  /\ NumInstances' = NumInstances + 1
  /\ ReadOffset' = [ReadOffset EXCEPT ![p] = WriteOffset]
  /\ LastHostID' = [LastHostID EXCEPT ![p] = None]
  /\ pc' = [pc EXCEPT ![p] = "idle"]
  /\ UNCHANGED <<shm, ConnectedBitmask, rings, sem, pend, col, out, wifi, counts>>

\* The system removes the segment with its last user (QSharedMemory::detach).
Users == {p \in Procs : pc[p] \notin {"off", "create"}}

\* Mutant: the destructor forgets to give the instance ID back.
KeepID(p) == InstanceBitmask

ReleaseID(p) == InstanceBitmask \ {InstanceID[p]}

DeInit(p) ==
  /\ pc[p] = "idle" /\ p \notin Resident
  /\ ConnectedBitmask' = ConnectedBitmask \ {InstanceID[p]}
  /\ InstanceBitmask' = ReleaseID(p)
  /\ NumInstances' = NumInstances - 1
  /\ shm' = IF Users = {p} THEN "absent" ELSE shm
  /\ pc' = [pc EXCEPT ![p] = "off"]
  /\ PowerOn' = [PowerOn EXCEPT ![p] = FALSE]
  /\ duty' = [duty EXCEPT ![p] = "none"]
  /\ UNCHANGED <<rings, sem, ReadOffset, locals, cmd, clock, counts>>

-----------------------------------------------------------------------------
(* Connecting: Wifi::UpdatePowerOn and Wifi::Reset *)

\* A console needs longer to boot than the creator to format the segment, so
\* wifi is never switched on before.
Begin(p) ==
  /\ pc[p] = "idle" /\ ~PowerOn[p] /\ begins[p] < MaxBegins /\ shm = "ready"
  /\ PowerOn' = [PowerOn EXCEPT ![p] = TRUE]
  /\ begins' = [begins EXCEPT ![p] = @ + 1]
  /\ ReadOffset' = [ReadOffset EXCEPT ![p] = WriteOffset]
  /\ sem' = [s \in Sems |-> IF s[2] = InstanceID[p] THEN 0 ELSE sem[s]]
  /\ ConnectedBitmask' = ConnectedBitmask \cup {InstanceID[p]}
  /\ UNCHANGED <<shm, NumInstances, InstanceBitmask, rings, pc, locals,
                 duty, cmd, clock, inits, sent>>

End(p) ==
  /\ pc[p] = "idle" /\ PowerOn[p]
  /\ PowerOn' = [PowerOn EXCEPT ![p] = FALSE]
  /\ ConnectedBitmask' = ConnectedBitmask \ {InstanceID[p]}
  /\ UNCHANGED <<shm, NumInstances, InstanceBitmask, rings, sem, pc, ReadOffset,
                 locals, duty, cmd, clock, counts>>

\* Wifi::Reset forgets that wifi is on without calling MP_End.
WifiReset(p) ==
  /\ pc[p] = "idle" /\ PowerOn[p]
  /\ PowerOn' = [PowerOn EXCEPT ![p] = FALSE]
  /\ duty' = [duty EXCEPT ![p] = "none"]
  /\ UNCHANGED <<members, rings, sem, pc, ReadOffset, locals, cmd, clock, counts>>

-----------------------------------------------------------------------------
(* Sending *)

\* Cells written since p's read offset (the writers never check for room; the
\* bound MaxBacklog says how far readers let them get ahead).
Backlog(p, f) == (WriteOffset[f] - ReadOffset[p][f]) % (kEnd[f] - kStart[f])
Fits(f, len) == \A q \in Procs :
  PowerOn[q] /\ (f = Reply => q \in Hosts) => Backlog(q, f) + 1 + len <= MaxBacklog

Header(p, type, aid, len, ts, d) ==
  [magic |-> TRUE, SenderID |-> InstanceID[p], Type |-> type, aid |-> aid,
   Length |-> len, Timestamp |-> ts, data |-> d]

\* The critical section's writes: the header, then the payload if there is one.
PutPacket(f, h) ==
  LET off == NextOffset(f, WriteOffset[f], 1)
      m == FIFOWrite(mem[f], f, WriteOffset[f], <<h>>)
  IN /\ mem' = [mem EXCEPT ![f] = FIFOWrite(m, f, off, Body(h))]
     /\ WriteOffset' = [WriteOffset EXCEPT
          ![f] = IF h.Length = 0 THEN off ELSE NextOffset(f, off, h.Length)]

\* Mutant: the sender does not post itself.
MaskOthers(p) == ConnectedBitmask \ {InstanceID[p]}

\* Whom a frame will be posted to: the mask is read before the unlock.
Mask(p) == ConnectedBitmask

\* SendPacket, SendAck.
SendFrame(p, type, len, d) ==
  /\ pc[p] = "idle" /\ PowerOn[p] /\ len > 0 /\ Fits(Packet, len)
  /\ sent < MaxFrames /\ sent' = sent + 1
  /\ PutPacket(Packet, Header(p, type, 0, len, clock, d))
  /\ pend' = [pend EXCEPT ![p] = Mask(p)]
  /\ pc' = [pc EXCEPT ![p] = "post"]
  /\ UNCHANGED <<members, MPHostInstanceID, MPReplyBitmask, sem, ReadOffset,
                 InstanceID, LastHostID, col, out, wifi, inits, begins>>

\* SendCmd also opens a round of replies: earlier ones are dropped.
SendCmd(p, len, ts, d) ==
  /\ pc[p] = "idle" /\ PowerOn[p] /\ p \in Hosts /\ ts > clock
  /\ len > 0 /\ Fits(Packet, len)
  /\ sent < MaxFrames /\ sent' = sent + 1
  /\ PutPacket(Packet, Header(p, 1, 0, len, ts, d))
  /\ MPHostInstanceID' = InstanceID[p]
  /\ MPReplyBitmask' = {}
  /\ ReadOffset' = [ReadOffset EXCEPT ![p][Reply] = WriteOffset[Reply]]
  /\ sem' = [sem EXCEPT ![<<Reply, InstanceID[p]>>] = 0]
  /\ pend' = [pend EXCEPT ![p] = Mask(p)]
  /\ pc' = [pc EXCEPT ![p] = "post"]
  /\ clock' = ts
  /\ duty' = [duty EXCEPT ![p] = "collect"]
  /\ UNCHANGED <<members, InstanceID, LastHostID, col, out, PowerOn, cmd,
                 inits, begins>>

\* SendReply answers the CMD last received: with data under the client's
\* association ID (its number here), or blank under AID 0.
SendReply(p, len) ==
  /\ pc[p] = "idle" /\ PowerOn[p] /\ duty[p] = "reply" /\ Fits(Reply, len)
  /\ \E d \in Data :
       PutPacket(Reply, Header(p, 2, IF len = 0 THEN 0 ELSE p, len, cmd[p], d))
  /\ MPReplyBitmask' = MPReplyBitmask \cup {InstanceID[p]}
  /\ pc' = [pc EXCEPT ![p] = "postreply"]
  /\ duty' = [duty EXCEPT ![p] = "none"]
  /\ UNCHANGED <<members, MPHostInstanceID, sem, ReadOffset, locals, PowerOn, cmd,
                 clock, counts>>

\* After the unlock: post every instance that was connected, lowest first.
PostFrame(p) ==
  /\ pc[p] = "post"
  /\ \/ /\ pend[p] = {}
        /\ pc' = [pc EXCEPT ![p] = "idle"]
        /\ UNCHANGED <<sem, pend>>
     \/ \E i \in pend[p] :
        /\ \A j \in pend[p] : i <= j
        /\ SemPost(<<Packet, i>>)
        /\ pend' = [pend EXCEPT ![p] = @ \ {i}]
        /\ UNCHANGED pc
  /\ UNCHANGED <<members, rings, ReadOffset, InstanceID, LastHostID, col, out, wifi,
                 counts>>

\* After the unlock: post the host, read from the header without the lock.
PostReply(p) ==
  /\ pc[p] = "postreply"
  /\ SemPost(<<Reply, MPHostInstanceID>>)
  /\ pc' = [pc EXCEPT ![p] = "idle"]
  /\ UNCHANGED <<members, rings, ReadOffset, locals, wifi, counts>>

-----------------------------------------------------------------------------
(* Receiving frames *)

\* RecvPacket, and RecvHostPacket while the last host is still connected.
RecvStart(p) ==
  /\ pc[p] = "idle" /\ PowerOn[p]
  /\ pc' = [pc EXCEPT ![p] = "recv"]
  /\ UNCHANGED <<members, rings, sem, ReadOffset, locals, wifi, counts>>

\* RecvHostPacket finds its host gone and returns -1: Wifi leaves MP mode.
HostGone(p) ==
  /\ pc[p] = "idle" /\ PowerOn[p]
  /\ LastHostID[p] # None /\ LastHostID[p] \notin ConnectedBitmask
  /\ duty' = [duty EXCEPT ![p] = "none"]
  /\ UNCHANGED <<members, rings, sem, pc, ReadOffset, locals, PowerOn, cmd, clock,
                 counts>>

\* SemWait on the frame semaphore: taken, or timed out while it is zero.
RecvWait(p) ==
  /\ pc[p] = "recv"
  /\ LET s == <<Packet, InstanceID[p]>> IN
     \/ /\ sem[s] > 0
        /\ sem' = [sem EXCEPT ![s] = @ - 1]
        /\ pc' = [pc EXCEPT ![p] = "got"]
     \/ /\ sem[s] = 0
        /\ pc' = [pc EXCEPT ![p] = "idle"]
        /\ UNCHANGED sem
  /\ UNCHANGED <<members, rings, ReadOffset, locals, wifi, counts>>

\* The critical section of RecvPacketGeneric.
RecvFrame(p) ==
  LET off == ReadOffset[p][Packet]
      h == FIFORead(Packet, off, 1)[1]
      off1 == NextOffset(Packet, off, 1)
  IN /\ pc[p] = "got"
     /\ \/ /\ ~h.magic                  \* PACKET FIFO OVERFLOW
           /\ ReadOffset' = [ReadOffset EXCEPT ![p][Packet] = WriteOffset[Packet]]
           /\ sem' = [sem EXCEPT ![<<Packet, InstanceID[p]>>] = 0]
           /\ pc' = [pc EXCEPT ![p] = "idle"]
           /\ UNCHANGED <<LastHostID, out, duty, cmd>>
        \/ /\ h.magic /\ h.SenderID = InstanceID[p]
           /\ ReadOffset' = [ReadOffset EXCEPT
                ![p][Packet] = SkipOffset(Packet, off1, h.Length)]
           /\ pc' = [pc EXCEPT ![p] = "recv"]
           /\ UNCHANGED <<sem, LastHostID, out, duty, cmd>>
        \/ /\ h.magic /\ h.SenderID # InstanceID[p]
           /\ ReadOffset' = [ReadOffset EXCEPT ![p][Packet] =
                IF h.Length = 0 THEN off1 ELSE NextOffset(Packet, off1, h.Length)]
           /\ LET host == h.Length > 0 /\ h.Type = 1
              IN /\ LastHostID' = [LastHostID EXCEPT ![p] = IF host THEN h.SenderID ELSE @]
                 /\ duty' = [duty EXCEPT ![p] = IF host THEN "reply" ELSE @]
                 /\ cmd' = [cmd EXCEPT ![p] = IF host THEN h.Timestamp ELSE @]
           /\ out' = [out EXCEPT ![p] =
                [h |-> h, body |-> FIFORead(Packet, off1, h.Length)]]
           /\ pc' = [pc EXCEPT ![p] = "idle"]
           /\ UNCHANGED sem
     /\ UNCHANGED <<members, rings, InstanceID, pend, col, PowerOn, clock, counts>>

-----------------------------------------------------------------------------
(* Receiving replies *)

\* RecvReplies reads who is connected; alone, it returns at once.
RepliesStart(p, aids) ==
  /\ pc[p] = "idle" /\ PowerOn[p] /\ duty[p] = "collect"
  /\ duty' = [duty EXCEPT ![p] = "none"]
  /\ col' = [col EXCEPT ![p] = [ret |-> {}, my |-> {InstanceID[p]},
                               cur |-> ConnectedBitmask, ts |-> clock,
                               aids |-> aids, packets |-> [a \in aids |-> <<>>]]]
  /\ pc' = [pc EXCEPT ![p] =
       IF ConnectedBitmask \subseteq {InstanceID[p]} THEN "idle" ELSE "replies"]
  /\ UNCHANGED <<members, rings, sem, ReadOffset, InstanceID, LastHostID, pend, out,
                 PowerOn, cmd, clock, counts>>

RepliesWait(p) ==
  /\ pc[p] = "replies"
  /\ LET s == <<Reply, InstanceID[p]>> IN
     \/ /\ sem[s] > 0
        /\ sem' = [sem EXCEPT ![s] = @ - 1]
        /\ pc' = [pc EXCEPT ![p] = "gotreply"]
     \/ /\ sem[s] = 0
        /\ pc' = [pc EXCEPT ![p] = "idle"]
        /\ UNCHANGED sem
  /\ UNCHANGED <<members, rings, ReadOffset, locals, wifi, counts>>

\* Mutant: replies of any age are taken.
StaleNever(h, ts) == FALSE

\* The subtraction is unsigned: it wraps for timestamps below the window.
Stale(h, ts) == h.Timestamp < (ts - StaleWindow) % TSMod

\* The critical section of RecvReplies.
RecvReply(p) ==
  LET off == ReadOffset[p][Reply]
      h == FIFORead(Reply, off, 1)[1]
      off1 == NextOffset(Reply, off, 1)
      c == col[p]
  IN /\ pc[p] = "gotreply"
     /\ \/ /\ ~h.magic                  \* REPLY FIFO OVERFLOW: returns 0
           /\ ReadOffset' = [ReadOffset EXCEPT ![p][Reply] = WriteOffset[Reply]]
           /\ sem' = [sem EXCEPT ![<<Reply, InstanceID[p]>>] = 0]
           /\ col' = [col EXCEPT ![p].ret = {}]
           /\ pc' = [pc EXCEPT ![p] = "idle"]
        \/ /\ h.magic
           /\ h.SenderID = InstanceID[p] \/ Stale(h, c.ts)
           /\ ReadOffset' = [ReadOffset EXCEPT
                ![p][Reply] = SkipOffset(Reply, off1, h.Length)]
           /\ pc' = [pc EXCEPT ![p] = "replies"]
           /\ UNCHANGED <<sem, col>>
        \/ /\ h.magic /\ h.SenderID # InstanceID[p] /\ ~Stale(h, c.ts)
           /\ ReadOffset' = [ReadOffset EXCEPT ![p][Reply] =
                IF h.Length = 0 THEN off1 ELSE NextOffset(Reply, off1, h.Length)]
           /\ LET ret == IF h.Length = 0 THEN c.ret ELSE c.ret \cup {h.aid}
                  my == c.my \cup {h.SenderID}
              IN /\ col' = [col EXCEPT
                      ![p].ret = ret, ![p].my = my,
                      ![p].packets = [a \in DOMAIN @ \cup (ret \ c.ret) |->
                         IF h.Length > 0 /\ a = h.aid
                         THEN FIFORead(Reply, off1, h.Length) ELSE @[a]]]
                 /\ pc' = [pc EXCEPT ![p] =
                      IF c.cur \subseteq my \/ c.aids \subseteq ret
                      THEN "idle" ELSE "replies"]
           /\ UNCHANGED sem
     /\ UNCHANGED <<members, rings, InstanceID, LastHostID, pend, out, wifi, counts>>

-----------------------------------------------------------------------------

Step(p) ==
  \/ Attach(p) \/ Create(p) \/ Format(p) \/ Join(p) \/ DeInit(p)
  \/ Begin(p) \/ End(p) \/ WifiReset(p)
  \/ \E type \in FrameTypes, len \in Lengths, d \in Data : SendFrame(p, type, len, d)
  \/ \E len \in Lengths, ts \in Times, d \in Data : SendCmd(p, len, ts, d)
  \/ \E len \in Lengths : SendReply(p, len)
  \/ PostFrame(p) \/ PostReply(p)
  \/ RecvStart(p) \/ HostGone(p) \/ RecvWait(p) \/ RecvFrame(p)
  \/ \E aids \in SUBSET (Procs \ {0}) : RepliesStart(p, aids)
  \/ RepliesWait(p) \/ RecvReply(p)

Next == \E p \in Procs : Step(p)

Spec == Init /\ [][Next]_vars

-----------------------------------------------------------------------------
(* Properties *)

\* The packet whose header lies at an offset, and where the next one begins.
PacketAt(f, off) ==
  LET h == mem[f][off]
  IN [h |-> h, body |-> FIFORead(f, NextOffset(f, off, 1), h.Length)]
After(f, off) == NextOffset(f, NextOffset(f, off, 1), mem[f][off].Length)

\* The packets of these senders between an offset and the write offset, oldest
\* first.  A region that does not parse into packets ends in a Blank.
UnreadOf(p, f, senders) ==
  LET n == kEnd[f] - kStart[f]
      parse[fuel \in 0 .. n] ==
        [off \in Area(f) |->
           IF off = WriteOffset[f] THEN <<>>
           ELSE IF fuel = 0 \/ ~mem[f][off].magic THEN <<Blank>>
           ELSE (IF mem[f][off].SenderID \in senders THEN <<PacketAt(f, off)>> ELSE <<>>)
                \o parse[fuel - 1][After(f, off)]]
  IN parse[n][ReadOffset[p][f]]
Unread(p, f) == UnreadOf(p, f, IDs)

TypeOK ==
  /\ shm \in {"absent", "raw", "ready"}
  /\ NumInstances \in Int
  /\ InstanceBitmask \subseteq IDs /\ ConnectedBitmask \subseteq IDs
  /\ MPHostInstanceID \in IDs /\ MPReplyBitmask \subseteq IDs
  /\ sem \in [Sems -> 0 .. SemMax]
  /\ InstanceID \in [Procs -> IDs]
  /\ \A p \in Procs : PowerOn[p] => \A f \in Rings : ReadOffset[p][f] \in Area(f)
  /\ shm = "ready" => \A f \in Rings : WriteOffset[f] \in Area(f)

\* Processes that went through Init().
Running == {p \in Procs : pc[p] \notin {"off", "create", "format", "join"}}

\* InstanceBitmask is, as its declaration says, the "bitmask of all instances
\* present": a joined instance never loses its bit.
PresentInBitmask == \A p \in Running : InstanceID[p] \in InstanceBitmask

\* No two running instances share an instance ID, each holds its bit, no bit
\* outlives its instance, and the count agrees: semaphores, sender IDs and the
\* connected mask rely on it.
InstancesPresent ==
  /\ InstanceBitmask = {InstanceID[p] : p \in Running}
  /\ \A p, q \in Running : InstanceID[p] = InstanceID[q] => p = q
  /\ NumInstances = Cardinality(Running)

\* Posts to a semaphore on their way, and a wait that succeeded.
InFlight(i) == Cardinality({p \in Procs : pc[p] = "post" /\ i \in pend[p]})
FramesDue(p) == sem[<<Packet, InstanceID[p]>>] + InFlight(InstanceID[p])
                + (IF pc[p] = "got" THEN 1 ELSE 0)

\* An instance is woken exactly once for every frame it has yet to read: with
\* fewer it lags behind for good, with more it reads memory nobody wrote.  A
\* frame's write and its post are separate steps; so are the wait and the read.
OneWakeupPerFrame ==
  \A p \in Procs : PowerOn[p] => FramesDue(p) = Len(Unread(p, Packet))

\* What RecvReplies hands to the host: only replies to the CMD it is
\* collecting for (the client has received that CMD), whole.
RepliesAnswerCmd ==
  \A p \in Hosts : \A a \in col[p].ret :
     /\ cmd[a] >= col[p].ts
     /\ \E d \in Data, l \in Lengths :
          col[p].packets[a] = Body([Length |-> l, data |-> d])

\* What a connected instance has yet to receive from the others.
Inbox == [p \in Procs |-> IF PowerOn[p] THEN UnreadOf(p, Packet, IDs \ {InstanceID[p]})
                         ELSE <<>>]
Frames == {[h |-> h, body |-> Body(h)] :
             h \in [magic : {TRUE}, SenderID : IDs, Type : FrameTypes \cup {1}, aid : {0},
                    Length : Lengths, Timestamp : Times \cup {0}, data : Data]}
Channel == INSTANCE BroadcastChannel WITH
             Nodes <- Procs, inbox <- Inbox, on <- PowerOn, last <- out

\* The rings and semaphores implement a broadcast channel: every connected
\* instance receives every frame the others send, once, in order, whole.
ImplementsChannel == Channel!Spec

-----------------------------------------------------------------------------
(* Fairness: the poster finishes its loop, and a console that is on polls for *)
(* frames (Wifi::USTimer runs every few microseconds of emulated time).       *)
Fairness == \A p \in Procs : /\ WF_vars(PostFrame(p))
                            /\ WF_vars(RecvStart(p))
                            /\ WF_vars(RecvWait(p))
                            /\ WF_vars(RecvFrame(p))
FairSpec == Spec /\ Fairness

\* No frame gets stuck: a frame the others sent is read, or the reader switches
\* its wifi off.  One post too few would strand the last frame.
EveryFrameRead ==
  \A p \in Procs : PowerOn[p] /\ Inbox[p] # <<>>
                     ~> (~PowerOn[p] \/ Inbox[p] = <<>>)
=============================================================================
