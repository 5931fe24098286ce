--------------------------- MODULE LocalMP_proofs ---------------------------
(***************************************************************************)
(* Of local multiplayer, for any number of processes, any size of the      *)
(* rings and any lengths of the packets: the offsets stay in the rings and *)
(* the semaphores count within their limits; while one process keeps the   *)
(* segment and there are IDs for all, no two instances share an ID; and    *)
(* while readers keep up, each has one wakeup for each frame it has yet to *)
(* read, the rings implement a broadcast channel, and the replies a host   *)
(* collects are for the CMD it sent.                                       *)
(***************************************************************************)
EXTENDS LocalMP, SequenceTheorems, FiniteSetTheorems, WellFoundedInduction, TLAPS

-----------------------------------------------------------------------------
(* Lists.  Kept(G, s, k, senders): G[j] is what is kept of s[j], ..., s[k].    *)

\* Counting up to n.
LEMMA CountUp ==
  ASSUME NEW n \in Nat, NEW S, 0 \in S, \A k \in 0 .. n - 1 : k \in S => k + 1 \in S
  PROVE  \A k \in 0 .. n : k \in S
<1> DEFINE M == {k \in 0 .. n : k \notin S}
<1> SUFFICES ASSUME M # {} PROVE FALSE
  OBVIOUS
<1>1. M \subseteq Nat
  OBVIOUS
<1>2. \E m \in M : \A k \in M : ~(<<k, m>> \in OpToRel(<, Nat))
  <2> HIDE DEF M
  <2> QED BY <1>1, NatLessThanWellFounded, WFMin
<1>3. PICK m \in M : \A k \in M : ~(k < m)
  <2> HIDE DEF M
  <2> QED BY <1>1, <1>2 DEF OpToRel
<1>4. m - 1 \in 0 .. n - 1 /\ m - 1 \notin M
  BY <1>3
<1> QED BY <1>4

One(x, senders) == IF x.h.SenderID \in senders THEN <<x>> ELSE <<>>
Kept(G, s, k, senders) ==
  /\ G[k + 1] = <<>>
  /\ \A j \in 1 .. k : G[j] = One(s[j], senders) \o G[j + 1]

LEMMA KeptTypes ==
  ASSUME NEW P, NEW senders, NEW k \in Nat, NEW s \in [1 .. k -> P], NEW G, Kept(G, s, k, senders)
  PROVE  \A j \in 1 .. k + 1 : G[j] \in Seq(P)
<1> DEFINE S == {i \in 0 .. k : G[k + 1 - i] \in Seq(P)}
<1>1. 0 \in S
  <2>1. k + 1 - 0 = k + 1 /\ G[k + 1] = <<>> /\ 0 \in 0 .. k
    BY DEF Kept
  <2>2. <<>> \in Seq(P)
    OBVIOUS
  <2> QED BY <2>1, <2>2
<1>2. ASSUME NEW i \in 0 .. k - 1, i \in S PROVE i + 1 \in S
  <2>1. PICK j \in 1 .. k : j = k + 1 - (i + 1) /\ j + 1 = k + 1 - i /\ i + 1 \in 0 .. k
    <3>1. k - i \in 1 .. k /\ k - i = k + 1 - (i + 1) /\ (k - i) + 1 = k + 1 - i /\ i + 1 \in 0 .. k
      BY <1>2
    <3> QED BY <3>1
  <2>2. G[j] = One(s[j], senders) \o G[j + 1]
    BY <2>1 DEF Kept
  <2>3. G[j + 1] \in Seq(P) /\ One(s[j], senders) \in Seq(P)
    BY <1>2, <2>1 DEF One
  <2>4. G[j] \in Seq(P)
    BY <2>2, <2>3, ConcatProperties
  <2> QED BY <2>1, <2>4
<1>3. \A i \in 0 .. k : i \in S
  <2> HIDE DEF S
  <2> QED BY <1>1, <1>2, CountUp
<1>4. ASSUME NEW j \in 1 .. k + 1 PROVE G[j] \in Seq(P)
  <2>1. k + 1 - j \in 0 .. k /\ k + 1 - (k + 1 - j) = j
    OBVIOUS
  <2>2. k + 1 - j \in S
    <3> HIDE DEF S
    <3> QED BY <1>3, <2>1
  <2> QED BY <2>1, <2>2
<1> QED BY <1>4

\* z is x and then y; t begins as s; t is s without its first.
IsConcat(z, x, y) == z = x \o y
Begins(t, s, k) == \A j \in 1 .. k : t[j] = s[j]
Shifted(t, s, k) == \A j \in 1 .. k : t[j] = s[j + 1]

\* Nothing is left out.
LEMMA KeptAll ==
  ASSUME NEW P, NEW senders, NEW k \in Nat, NEW s \in [1 .. k -> P], NEW G, Kept(G, s, k, senders),
         \A j \in 1 .. k : s[j].h.SenderID \in senders
  PROVE  Len(G[1]) = k
<1> DEFINE S == {i \in 0 .. k : Len(G[k + 1 - i]) = i}
<1>1. 0 \in S
  <2>1. k + 1 - 0 = k + 1 /\ G[k + 1] = <<>> /\ 0 \in 0 .. k
    BY DEF Kept
  <2> QED BY <2>1
<1>2. ASSUME NEW i \in 0 .. k - 1, i \in S PROVE i + 1 \in S
  <2>1. PICK j \in 1 .. k : j = k + 1 - (i + 1) /\ j + 1 = k + 1 - i /\ i + 1 \in 0 .. k
    <3>1. k - i \in 1 .. k /\ k - i = k + 1 - (i + 1) /\ (k - i) + 1 = k + 1 - i /\ i + 1 \in 0 .. k
      BY <1>2
    <3> QED BY <3>1
  <2>2. G[j] = <<s[j]>> \o G[j + 1]
    BY <2>1 DEF Kept, One
  <2>3. G[j + 1] \in Seq(P) /\ <<s[j]>> \in Seq(P) /\ Len(<<s[j]>>) = 1
    <3>1. j + 1 \in 1 .. k + 1 /\ s[j] \in P
      OBVIOUS
    <3>2. \A l \in 1 .. k + 1 : G[l] \in Seq(P)
      BY KeptTypes
    <3> QED BY <3>1, <3>2
  <2>4. Len(G[j]) = 1 + Len(G[j + 1])
    BY <2>2, <2>3, ConcatProperties
  <2>5. Len(G[j + 1]) = i
    BY <1>2, <2>1
  <2>6. Len(G[j]) = i + 1
    BY <2>4, <2>5
  <2> QED BY <2>1, <2>6
<1>3. \A i \in 0 .. k : i \in S
  <2> HIDE DEF S
  <2> QED BY <1>1, <1>2, CountUp
<1>4. k \in 0 .. k /\ k + 1 - k = 1
  OBVIOUS
<1>5. k \in S
  <2> HIDE DEF S
  <2> QED BY <1>3, <1>4
<1> QED BY <1>4, <1>5

\* One more at the end.
LEMMA KeptAppended ==
  ASSUME NEW P, NEW senders, NEW k \in Nat, NEW s \in [1 .. k -> P], NEW G, Kept(G, s, k, senders),
         NEW t \in [1 .. k + 1 -> P], NEW H, Kept(H, t, k + 1, senders),
         Begins(t, s, k)
  PROVE  IsConcat(H[1], G[1], One(t[k + 1], senders))
<1> DEFINE x == One(t[k + 1], senders)
           S == {i \in 0 .. k : H[k + 1 - i] = G[k + 1 - i] \o x}
<1>0. x \in Seq(P) /\ \A a, b, c \in Seq(P) : (a \o b) \o c = a \o (b \o c)
  <2>1. \A a, b, c \in Seq(P) : (a \o b) \o c = a \o (b \o c)
    BY ConcatAssociative
  <2> QED BY <2>1 DEF One
<1>1. 0 \in S
  <2>1. H[k + 1] = x \o H[k + 2] /\ H[k + 2] = <<>> /\ G[k + 1] = <<>>
    <3>1. k + 1 \in 1 .. k + 1 /\ (k + 1) + 1 = k + 2
      OBVIOUS
    <3> QED BY <3>1 DEF Kept
  <2> HIDE DEF x
  <2>2. H[k + 1] = G[k + 1] \o x
    BY <1>0, <2>1
  <2> QED BY <2>2
<1>2. ASSUME NEW i \in 0 .. k - 1, i \in S PROVE i + 1 \in S
  <2>1. PICK j \in 1 .. k : /\ j = k + 1 - (i + 1) /\ j + 1 = k + 1 - i /\ i + 1 \in 0 .. k
                            /\ j \in 1 .. k + 1 /\ j + 1 \in 1 .. k + 1
    <3>1. /\ k - i \in 1 .. k /\ k - i = k + 1 - (i + 1) /\ (k - i) + 1 = k + 1 - i /\ i + 1 \in 0 .. k
          /\ k - i \in 1 .. k + 1 /\ (k - i) + 1 \in 1 .. k + 1
      BY <1>2
    <3> QED BY <3>1
  <2> DEFINE y == One(s[j], senders)
  <2>2. G[j] = y \o G[j + 1] /\ H[j] = y \o H[j + 1]
    BY <2>1 DEF Kept, Begins
  <2>3. G[j + 1] \in Seq(P) /\ H[j + 1] = G[j + 1] \o x
    BY <1>2, <2>1, KeptTypes
  <2>4. y \in Seq(P)
    BY <2>1 DEF One
  <2> HIDE DEF x, y
  <2>5. (y \o G[j + 1]) \o x = y \o (G[j + 1] \o x)
    BY <2>3, <2>4, <1>0, Zenon
  <2>6. H[j] = G[j] \o x
    BY <2>2, <2>3, <2>5
  <2> QED BY <2>1, <2>6
<1>3. \A i \in 0 .. k : i \in S
  <2> HIDE DEF S
  <2> QED BY <1>1, <1>2, CountUp
<1>4. k \in 0 .. k /\ k + 1 - k = 1
  OBVIOUS
<1>5. k \in S
  <2> HIDE DEF S
  <2> QED BY <1>3, <1>4
<1> QED BY <1>4, <1>5 DEF IsConcat

\* One less in front.
LEMMA KeptTail ==
  ASSUME NEW senders, NEW k \in Nat, NEW s, NEW G, Kept(G, s, k + 1, senders),
         NEW t, NEW H, Kept(H, t, k, senders), Shifted(t, s, k)
  PROVE  IsConcat(G[1], One(s[1], senders), H[1])
<1> DEFINE S == {i \in 0 .. k : H[k + 1 - i] = G[k + 2 - i]}
<1>1. 0 \in S
  <2>1. (k + 1) + 1 = k + 2 /\ k + 1 - 0 = k + 1 /\ k + 2 - 0 = k + 2
    OBVIOUS
  <2> QED BY <2>1 DEF Kept
<1>2. ASSUME NEW i \in 0 .. k - 1, i \in S PROVE i + 1 \in S
  <2> DEFINE j == k - i
  <2>1. /\ j \in 1 .. k /\ j + 1 \in 1 .. k + 1 /\ i + 1 \in 0 .. k
        /\ j = k + 1 - (i + 1) /\ j + 1 = k + 2 - (i + 1) /\ j + 1 = k + 1 - i /\ (j + 1) + 1 = k + 2 - i
    BY <1>2
  <2> HIDE DEF j
  <2>2. H[j] = One(t[j], senders) \o H[j + 1] /\ G[j + 1] = One(s[j + 1], senders) \o G[(j + 1) + 1]
    BY <2>1 DEF Kept
  <2>3. H[j + 1] = G[(j + 1) + 1] /\ t[j] = s[j + 1]
    BY <1>2, <2>1 DEF Shifted
  <2>4. H[j] = G[j + 1]
    BY <2>2, <2>3
  <2> QED BY <2>1, <2>4
<1>3. \A i \in 0 .. k : i \in S
  <2> HIDE DEF S
  <2> QED BY <1>1, <1>2, CountUp
<1>4. k \in 0 .. k /\ k + 1 - k = 1 /\ k + 2 - k = 2 /\ 1 \in 1 .. k + 1 /\ 1 + 1 = 2
  OBVIOUS
<1>5. k \in S
  <2> HIDE DEF S
  <2> QED BY <1>3, <1>4
<1>6. H[1] = G[2]
  BY <1>4, <1>5
<1> QED BY <1>4, <1>6 DEF Kept, IsConcat

\* What is kept is a matter of what there is.
LEMMA KeptSame ==
  ASSUME NEW senders, NEW k \in Nat, NEW s, NEW G, Kept(G, s, k, senders),
         NEW t, NEW H, Kept(H, t, k, senders), \A j \in 1 .. k : t[j] = s[j]
  PROVE  H[1] = G[1]
<1> DEFINE S == {i \in 0 .. k : H[k + 1 - i] = G[k + 1 - i]}
<1>1. 0 \in S
  <2>1. k + 1 - 0 = k + 1 /\ 0 \in 0 .. k
    OBVIOUS
  <2> QED BY <2>1 DEF Kept
<1>2. ASSUME NEW i \in 0 .. k - 1, i \in S PROVE i + 1 \in S
  <2> DEFINE j == k - i
  <2>1. j \in 1 .. k /\ i + 1 \in 0 .. k /\ j = k + 1 - (i + 1) /\ j + 1 = k + 1 - i
    BY <1>2
  <2> HIDE DEF j
  <2>2. H[j] = One(t[j], senders) \o H[j + 1] /\ G[j] = One(s[j], senders) \o G[j + 1]
    BY <2>1 DEF Kept
  <2>3. H[j + 1] = G[j + 1] /\ t[j] = s[j]
    BY <1>2, <2>1
  <2> QED BY <2>1, <2>2, <2>3
<1>3. \A i \in 0 .. k : i \in S
  <2> HIDE DEF S
  <2> QED BY <1>1, <1>2, CountUp
<1>4. k \in 0 .. k /\ k + 1 - k = 1
  OBVIOUS
<1>5. k \in S
  <2> HIDE DEF S
  <2> QED BY <1>3, <1>4
<1> QED BY <1>4, <1>5

\* x is what is kept of k packets.
Keeps(x, s, k, senders) == \E G : Kept(G, s, k, senders) /\ x = G[1]

LEMMA KeepsFacts ==
  ASSUME NEW P, NEW senders, NEW k \in Nat, NEW s \in [1 .. k -> P], NEW x, Keeps(x, s, k, senders)
  PROVE  x \in Seq(P) /\ (k = 0 => x = <<>>)
<1>1. PICK G : Kept(G, s, k, senders) /\ x = G[1]
  BY DEF Keeps
<1>2. G[1] \in Seq(P)
  <2>1. 1 \in 1 .. k + 1
    OBVIOUS
  <2> QED BY <1>1, <2>1, KeptTypes
<1>3. k = 0 => x = <<>>
  BY <1>1 DEF Kept
<1> QED BY <1>1, <1>2, <1>3

LEMMA KeepsSame ==
  ASSUME NEW senders, NEW k \in Nat, NEW s, NEW x, Keeps(x, s, k, senders),
         NEW t, NEW y, Keeps(y, t, k, senders), \A j \in 1 .. k : t[j] = s[j]
  PROVE  x = y
  BY KeptSame DEF Keeps

LEMMA KeepsMore ==
  ASSUME NEW P, NEW senders, NEW k \in Nat, NEW s \in [1 .. k -> P], NEW x, Keeps(x, s, k, senders),
         NEW t \in [1 .. k + 1 -> P], NEW y, Keeps(y, t, k + 1, senders), Begins(t, s, k)
  PROVE  IsConcat(y, x, One(t[k + 1], senders))
<1>1. PICK G : Kept(G, s, k, senders) /\ x = G[1]
  BY DEF Keeps
<1>2. PICK H : Kept(H, t, k + 1, senders) /\ y = H[1]
  BY DEF Keeps
<1> QED BY <1>1, <1>2, KeptAppended

LEMMA KeepsLess ==
  ASSUME NEW senders, NEW k \in Nat, NEW s, NEW x, Keeps(x, s, k + 1, senders),
         NEW t, NEW y, Keeps(y, t, k, senders), Shifted(t, s, k)
  PROVE  IsConcat(x, One(s[1], senders), y)
<1>1. PICK G : Kept(G, s, k + 1, senders) /\ x = G[1]
  BY DEF Keeps
<1>2. PICK H : Kept(H, t, k, senders) /\ y = H[1]
  BY DEF Keeps
<1> QED BY <1>1, <1>2, KeptTail

Labels == {"off", "create", "format", "join", "idle", "post", "postreply", "recv", "got",
           "replies", "gotreply"}

LEMMA FirstID == 0 \in IDs
  BY ProcsAssumption DEF IDs, ProcsAssumption

LEMMA LowestIsFree == FreeIDs # {} => LowestFree \in FreeIDs
<1>1. FreeIDs \subseteq Nat
  BY DEF FreeIDs, IDs
<1>2. FreeIDs # {} => \E i \in FreeIDs : \A j \in FreeIDs : ~(<<j, i>> \in OpToRel(<, Nat))
  BY <1>1, NatLessThanWellFounded, WFMin
<1>3. \A i, j \in FreeIDs : ~(<<j, i>> \in OpToRel(<, Nat)) => i <= j
  BY <1>1 DEF OpToRel
<1> QED BY <1>2, <1>3 DEF LowestFree

-----------------------------------------------------------------------------
(* The rings *)

\* What a receiver takes for a header has a length that was sent.
CellOK(c) == c.magic \in BOOLEAN /\ (c.magic => c.Length \in Lengths /\ c.SenderID \in IDs)

LEMMA AreaFacts ==
  ASSUME NEW f \in Rings
  PROVE  /\ kStart[f] \in Nat /\ kEnd[f] \in Nat /\ kStart[f] \in Area(f)
         /\ 1 < kEnd[f] - kStart[f] /\ \A l \in Lengths : l \in Nat /\ l < kEnd[f] - kStart[f]
  BY RingAssumption DEF Area, RingAssumption

\* A packet that fits leaves an offset in the ring, stepped over or copied.
LEMMA OffsetStays ==
  ASSUME NEW f \in Rings, NEW off \in Area(f), NEW len \in Nat, len < kEnd[f] - kStart[f]
  PROVE  NextOffset(f, off, len) \in Area(f) /\ SkipOffset(f, off, len) \in Area(f)
  BY AreaFacts DEF NextOffset, SkipOffset, Area

\* Past the header and past the payload.
LEMMA PacketStays ==
  ASSUME NEW f \in Rings, NEW off \in Area(f), NEW len \in Lengths
  PROVE  /\ NextOffset(f, off, 1) \in Area(f)
         /\ NextOffset(f, NextOffset(f, off, 1), len) \in Area(f)
         /\ SkipOffset(f, NextOffset(f, off, 1), len) \in Area(f)
<1>1. NextOffset(f, off, 1) \in Area(f)
  BY AreaFacts, OffsetStays
<1>2. len \in Nat /\ len < kEnd[f] - kStart[f]
  BY AreaFacts
<1> HIDE DEF NextOffset
<1> DEFINE off1 == NextOffset(f, off, 1)
<1> HIDE DEF off1
<1>3. off1 \in Area(f)
  BY <1>1 DEF off1
<1>4. NextOffset(f, off1, len) \in Area(f) /\ SkipOffset(f, off1, len) \in Area(f)
  BY <1>2, <1>3, OffsetStays
<1> QED BY <1>1, <1>4 DEF off1

LEMMA WriteKeepsCells ==
  ASSUME NEW f \in Rings, NEW m, NEW off, NEW buf,
         \A o \in Area(f) : CellOK(m[o]), \A k \in DOMAIN buf : CellOK(buf[k])
  PROVE  LET w == FIFOWrite(m, f, off, buf)
         IN  w = [o \in Area(f) |-> w[o]] /\ \A o \in Area(f) : CellOK(w[o])
<1> DEFINE w == FIFOWrite(m, f, off, buf)
<1>1. w = [o \in Area(f) |-> w[o]]
  BY DEF FIFOWrite
<1>2. ASSUME NEW o \in Area(f) PROVE CellOK(w[o])
  <2>1. CASE \E k \in DOMAIN buf : Place(f, off, k - 1) = o
    <3>1. \E k \in DOMAIN buf : w[o] = buf[k]
      BY <2>1 DEF FIFOWrite
    <3> QED BY <3>1
  <2>2. CASE ~\E k \in DOMAIN buf : Place(f, off, k - 1) = o
    <3>1. w[o] = m[o]
      BY <2>2 DEF FIFOWrite
    <3> QED BY <3>1
  <2> QED BY <2>1, <2>2
<1> QED BY <1>1, <1>2

-----------------------------------------------------------------------------
(* The types *)

\* A console with its wifi on is attached to a formatted segment, and found the
\* write offsets in its rings.
Segment ==
  /\ shm \in {"absent", "raw", "ready"} /\ NumInstances \in Int
  /\ InstanceBitmask \subseteq IDs /\ ConnectedBitmask \subseteq IDs
  /\ MPHostInstanceID \in IDs /\ MPReplyBitmask \subseteq IDs
  /\ sem \in [Sems -> 0 .. SemMax]
  /\ shm = "ready" => \A f \in Rings : WriteOffset[f] \in Area(f)
RingsOK ==
  /\ WriteOffset = [f \in Rings |-> WriteOffset[f]]
  /\ mem = [f \in Rings |-> mem[f]]
  /\ \A f \in Rings : \A o \in Area(f) : CellOK(mem[f][o])
Processes ==
  /\ pc \in [Procs -> Labels] /\ PowerOn \in [Procs -> BOOLEAN]
  /\ InstanceID \in [Procs -> IDs] /\ pend \in [Procs -> SUBSET IDs]
  /\ ReadOffset = [p \in Procs |-> ReadOffset[p]]
  /\ \A p \in Procs : ReadOffset[p] = [f \in Rings |-> ReadOffset[p][f]]
Attached ==
  /\ \A p \in Procs : PowerOn[p] =>
       /\ shm = "ready" /\ pc[p] \notin {"off", "create", "format", "join"}
       /\ \A f \in Rings : ReadOffset[p][f] \in Area(f)
  /\ \A p \in Procs : pc[p] \in Labels \ {"off", "create", "format", "join", "idle"} => PowerOn[p]

MPTypes == Segment /\ RingsOK /\ Processes /\ Attached

LEMMA InitMPTypes == Init => MPTypes
<1> SUFFICES ASSUME Init PROVE MPTypes
  OBVIOUS
<1>1. /\ \A f \in Rings : \A o \in Area(f) : CellOK(mem[f][o])
      /\ mem = [f \in Rings |-> mem[f]]
  BY DEF Init, Blank, CellOK
<1>2. WriteOffset \in [Rings -> Nat]
  BY RingAssumption DEF Init, RingAssumption
<1>3. /\ ReadOffset = [p \in Procs |-> ReadOffset[p]]
      /\ \A p \in Procs : ReadOffset[p] = [f \in Rings |-> ReadOffset[p][f]]
  BY <1>2 DEF Init
<1>4. shm = "ready" => \A f \in Rings : WriteOffset[f] \in Area(f)
  BY RingAssumption DEF Init, RingAssumption
<1>5. IsFiniteSet(IDs)
  BY FS_Interval, ProcsAssumption DEF IDs, ProcsAssumption
<1>6. NumInstances \in Int
  <2>1. IsFiniteSet(Joined)
    BY <1>5, FS_Subset, ProcsAssumption DEF ProcsAssumption
  <2>2. Cardinality(Joined) \in Nat
    BY <2>1, FS_CardinalityType
  <2> QED BY <2>2 DEF Init
<1>7. Segment
  BY <1>4, <1>6, FirstID, BoundsAssumption, ProcsAssumption
  DEF Init, Segment, BoundsAssumption, ProcsAssumption
<1>8. RingsOK
  BY <1>1, <1>2 DEF RingsOK
<1>9. Processes
  BY <1>3, FirstID, ProcsAssumption DEF Init, Processes, Labels, ProcsAssumption
<1>10. Attached
  BY DEF Init, Attached, Labels
<1> QED BY <1>7, <1>8, <1>9, <1>10 DEF MPTypes

\* A packet is written to a formatted segment.
LEMMA PutKeeps ==
  ASSUME MPTypes, shm = "ready", NEW f \in Rings, NEW h, CellOK(h), h.Length \in Lengths,
         PutPacket(f, h)
  PROVE  RingsOK' /\ \A g \in Rings : WriteOffset'[g] \in Area(g)
<1> DEFINE off == NextOffset(f, WriteOffset[f], 1)
           m == FIFOWrite(mem[f], f, WriteOffset[f], <<h>>)
           w == FIFOWrite(m, f, off, Body(h))
<1>1. \A o \in Area(f) : CellOK(mem[f][o])
  BY DEF MPTypes, RingsOK
<1>2. \A k \in DOMAIN <<h>> : CellOK(<<h>>[k])
  OBVIOUS
<1>3. \A k \in DOMAIN Body(h) : CellOK(Body(h)[k])
  BY DEF Body, CellOK
<1>4. \A o \in Area(f) : CellOK(m[o])
  <2> DEFINE one == <<h>>
  <2>1. \A k \in DOMAIN one : CellOK(one[k])
    BY <1>2
  <2> HIDE DEF one
  <2>2. LET x == FIFOWrite(mem[f], f, WriteOffset[f], one)
        IN  \A o \in Area(f) : CellOK(x[o])
    BY <1>1, <2>1, WriteKeepsCells
  <2> QED BY <2>2 DEF one
<1> HIDE DEF m
<1>5. \A o \in Area(f) : CellOK(w[o])
  BY <1>3, <1>4, WriteKeepsCells
<1>6. mem' = [mem EXCEPT ![f] = w]
  BY DEF PutPacket, m
<1> HIDE DEF w
<1>7. mem' = [g \in Rings |-> mem'[g]] /\ \A g \in Rings : \A o \in Area(g) : CellOK(mem'[g][o])
  BY <1>5, <1>6 DEF MPTypes, RingsOK
<1>8. WriteOffset[f] \in Area(f)
  BY DEF MPTypes, Segment
<1>9. off \in Area(f) /\ NextOffset(f, off, h.Length) \in Area(f)
  BY <1>8, PacketStays
<1>10. WriteOffset' = [WriteOffset EXCEPT ![f] = IF h.Length = 0 THEN off
                                                ELSE NextOffset(f, off, h.Length)]
  BY DEF PutPacket
<1> HIDE DEF off
<1>11. /\ WriteOffset' = [g \in Rings |-> WriteOffset'[g]]
       /\ \A g \in Rings : WriteOffset'[g] \in Area(g)
  BY <1>9, <1>10 DEF MPTypes, Segment, RingsOK
<1> QED BY <1>7, <1>11 DEF RingsOK

\* A reader moves on in one ring.
LEMMA ReaderMoves ==
  ASSUME MPTypes, NEW p \in Procs, NEW f \in Rings, NEW v,
         ReadOffset' = [ReadOffset EXCEPT ![p][f] = v]
  PROVE  /\ ReadOffset' = [q \in Procs |-> ReadOffset'[q]]
         /\ \A q \in Procs : ReadOffset'[q] = [g \in Rings |-> ReadOffset'[q][g]]
         /\ v \in Area(f) => \A q \in Procs : \A g \in Rings :
               ReadOffset[q][g] \in Area(g) => ReadOffset'[q][g] \in Area(g)
  BY DEF MPTypes, Processes

\* Attaching and detaching.
LEMMA MembersKeepTypes ==
  ASSUME MPTypes, NEW p \in Procs,
         Attach(p) \/ Create(p) \/ Format(p) \/ Join(p) \/ DeInit(p)
  PROVE  MPTypes'
<1> USE DEF members, rings, locals, wifi, counts
<1>0. MPTypes
  OBVIOUS
<1>1. CASE Attach(p)
  <2>1. Segment' /\ RingsOK'
    BY <1>0, <1>1 DEF MPTypes, Attach, Segment, RingsOK
  <2>2. Processes'
    BY <1>0, <1>1 DEF MPTypes, Attach, Processes, Labels
  <2>3. Attached'
    BY <1>0, <1>1 DEF MPTypes, Attach, Processes, Attached, Labels
  <2> QED BY <2>1, <2>2, <2>3 DEF MPTypes
<1>2. ASSUME NEW offsets, offsets \in [Rings -> Nat], EmptySegment(offsets) PROVE RingsOK'
  BY <1>2 DEF EmptySegment, RingsOK, Blank, CellOK
<1>3. CASE Create(p) /\ shm = "absent"
  <2>1. /\ shm' = "raw" /\ EmptySegment([f \in Rings |-> 0]) /\ pc' = [pc EXCEPT ![p] = "format"]
        /\ UNCHANGED <<sem, ReadOffset, InstanceID, pend, PowerOn>>
    BY <1>3 DEF Create
  <2>2. RingsOK'
    BY <1>2, <2>1
  <2>3. Segment'
    BY <1>0, <2>1, FirstID DEF MPTypes, Segment, EmptySegment
  <2>4. Processes'
    BY <1>0, <2>1 DEF MPTypes, Processes, Labels
  <2>5. Attached'
    BY <1>0, <1>3, <2>1 DEF MPTypes, Processes, Attached, Labels
  <2> QED BY <2>2, <2>3, <2>4, <2>5 DEF MPTypes
<1>4. CASE Create(p) /\ shm # "absent"
  <2>1. /\ pc[p] = "create" /\ pc' = [pc EXCEPT ![p] = "off"]
        /\ UNCHANGED <<members, rings, sem, ReadOffset, InstanceID, pend, PowerOn>>
    BY <1>4 DEF Create
  <2>2. Segment' /\ RingsOK'
    BY <1>0, <2>1 DEF MPTypes, Segment, RingsOK
  <2>3. Processes'
    BY <1>0, <2>1 DEF MPTypes, Processes, Labels
  <2>4. Attached'
    BY <1>0, <2>1 DEF MPTypes, Processes, Attached, Labels
  <2> QED BY <2>2, <2>3, <2>4 DEF MPTypes
<1>5. CASE Format(p)
  <2>1. /\ pc[p] = "format" /\ shm' = "ready" /\ EmptySegment(kStart) /\ pc' = [pc EXCEPT ![p] = "join"]
        /\ UNCHANGED <<sem, ReadOffset, InstanceID, pend, PowerOn>>
    BY <1>5 DEF Format
  <2>2. RingsOK'
    BY <1>2, <2>1, RingAssumption DEF RingAssumption
  <2>3. Segment'
    BY <1>0, <2>1, FirstID, AreaFacts DEF MPTypes, Segment, EmptySegment
  <2>4. Processes'
    BY <1>0, <2>1 DEF MPTypes, Processes, Labels
  <2>5. Attached'
    BY <1>0, <2>1 DEF MPTypes, Processes, Attached, Labels
  <2> QED BY <2>2, <2>3, <2>4, <2>5 DEF MPTypes
<1>6. CASE Join(p)
  <2>1. /\ pc[p] = "join" /\ pc' = [pc EXCEPT ![p] = "idle"] /\ NumInstances' = NumInstances + 1
        /\ ReadOffset' = [ReadOffset EXCEPT ![p] = WriteOffset]
        /\ UNCHANGED <<shm, ConnectedBitmask, rings, sem, pend, PowerOn>>
    BY <1>6 DEF Join
  <2>2. \/ /\ FreeIDs # {} /\ InstanceID' = [InstanceID EXCEPT ![p] = LowestFree]
           /\ InstanceBitmask' = InstanceBitmask \cup {LowestFree}
        \/ UNCHANGED <<InstanceID, InstanceBitmask>>
    BY <1>6 DEF Join
  <2>3. FreeIDs # {} => LowestFree \in IDs
    BY LowestIsFree DEF FreeIDs
  <2> HIDE DEF FreeIDs, LowestFree
  <2>4. InstanceBitmask' \subseteq IDs /\ InstanceID' \in [Procs -> IDs]
    BY <1>0, <2>2, <2>3 DEF MPTypes, Segment, Processes
  <2>5. Segment' /\ RingsOK'
    BY <1>0, <2>1, <2>4 DEF MPTypes, Segment, RingsOK
  <2>6. Processes'
    <3>1. pc' \in [Procs -> Labels]
      BY <1>0, <2>1 DEF MPTypes, Processes, Labels
    <3>2. /\ ReadOffset' = [q \in Procs |-> ReadOffset'[q]]
          /\ \A q \in Procs : ReadOffset'[q] = [f \in Rings |-> ReadOffset'[q][f]]
      BY <1>0, <2>1 DEF MPTypes, Processes, RingsOK
    <3> QED BY <1>0, <2>1, <2>4, <3>1, <3>2 DEF MPTypes, Processes
  <2>7. Attached'
    BY <1>0, <2>1 DEF MPTypes, Processes, Attached, Labels
  <2> QED BY <2>5, <2>6, <2>7 DEF MPTypes
<1>7. CASE DeInit(p)
  <2>1. /\ pc[p] = "idle" /\ pc' = [pc EXCEPT ![p] = "off"] /\ PowerOn' = [PowerOn EXCEPT ![p] = FALSE]
        /\ ConnectedBitmask' \subseteq ConnectedBitmask /\ InstanceBitmask' \subseteq InstanceBitmask
        /\ NumInstances' = NumInstances - 1
        /\ shm' = IF Users = {p} THEN "absent" ELSE shm
        /\ UNCHANGED <<rings, sem, ReadOffset, InstanceID, pend>>
    BY <1>7 DEF DeInit, ReleaseID
  <2>2. Segment' /\ RingsOK'
    BY <1>0, <2>1 DEF MPTypes, Segment, RingsOK
  <2>3. Processes'
    BY <1>0, <2>1 DEF MPTypes, Processes, Labels
  <2>4. \A q \in Procs : PowerOn'[q] => PowerOn[q] /\ q # p
    BY <1>0, <2>1 DEF MPTypes, Processes
  <2>5. \A q \in Procs : PowerOn[q] => q \in Users
    BY <1>0 DEF MPTypes, Attached, Users
  <2>6. \A q \in Procs : PowerOn'[q] => shm' = shm
    BY <2>1, <2>4, <2>5
  <2>7. \A q \in Procs : q # p => pc'[q] = pc[q] /\ PowerOn'[q] = PowerOn[q]
    BY <1>0, <2>1 DEF MPTypes, Processes
  <2>8. pc'[p] = "off"
    BY <1>0, <2>1 DEF MPTypes, Processes
  <2>9. Attached'
    <3>1. \A q \in Procs : PowerOn'[q] =>
            /\ shm' = "ready" /\ pc'[q] \notin {"off", "create", "format", "join"}
            /\ \A f \in Rings : ReadOffset'[q][f] \in Area(f)
      BY <1>0, <2>1, <2>4, <2>6, <2>7 DEF MPTypes, Attached
    <3>2. \A q \in Procs : pc'[q] \in Labels \ {"off", "create", "format", "join", "idle"} => PowerOn'[q]
      BY <1>0, <2>7, <2>8 DEF MPTypes, Attached
    <3> QED BY <3>1, <3>2 DEF Attached
  <2> QED BY <2>2, <2>3, <2>9 DEF MPTypes
<1> QED BY <1>1, <1>3, <1>4, <1>5, <1>6, <1>7

\* Connecting.
LEMMA WifiKeepsTypes ==
  ASSUME MPTypes, NEW p \in Procs, Begin(p) \/ End(p) \/ WifiReset(p)
  PROVE  MPTypes'
<1> USE DEF members, rings, locals, wifi, counts
<1>0. MPTypes
  OBVIOUS
<1>1. CASE Begin(p)
  <2>1. /\ pc[p] = "idle" /\ shm = "ready" /\ PowerOn' = [PowerOn EXCEPT ![p] = TRUE]
        /\ ReadOffset' = [ReadOffset EXCEPT ![p] = WriteOffset]
        /\ sem' = [s \in Sems |-> IF s[2] = InstanceID[p] THEN 0 ELSE sem[s]]
        /\ ConnectedBitmask' = ConnectedBitmask \cup {InstanceID[p]}
        /\ UNCHANGED <<shm, NumInstances, InstanceBitmask, rings, pc, InstanceID, pend>>
    BY <1>1 DEF Begin
  <2>2. Segment' /\ RingsOK'
    BY <1>0, <2>1, BoundsAssumption DEF MPTypes, Segment, RingsOK, Processes, BoundsAssumption
  <2>3. Processes'
    BY <1>0, <2>1 DEF MPTypes, Processes, RingsOK
  <2>4. Attached'
    BY <1>0, <2>1 DEF MPTypes, Processes, Attached, Segment
  <2> QED BY <2>2, <2>3, <2>4 DEF MPTypes
<1>2. CASE End(p) \/ WifiReset(p)
  <2>1. /\ pc[p] = "idle" /\ PowerOn' = [PowerOn EXCEPT ![p] = FALSE]
        /\ ConnectedBitmask' \subseteq ConnectedBitmask
        /\ UNCHANGED <<shm, NumInstances, InstanceBitmask, rings, sem, ReadOffset, pc, InstanceID, pend>>
    BY <1>2 DEF End, WifiReset
  <2>2. Segment' /\ RingsOK'
    BY <1>0, <2>1 DEF MPTypes, Segment, RingsOK
  <2>3. Processes'
    BY <1>0, <2>1 DEF MPTypes, Processes
  <2>4. Attached'
    BY <1>0, <2>1 DEF MPTypes, Processes, Attached, Labels
  <2> QED BY <2>2, <2>3, <2>4 DEF MPTypes
<1> QED BY <1>1, <1>2

\* Sending; the semaphores are posted afterwards.
LEMMA PostKeeps ==
  ASSUME MPTypes, NEW s, SemPost(s)
  PROVE  sem' \in [Sems -> 0 .. SemMax]
<1>1. sem \in [Sems -> 0 .. SemMax] /\ SemMax \in Nat
  BY BoundsAssumption DEF MPTypes, Segment, BoundsAssumption
<1>2. CASE s \in Sems
  <2>1. sem[s] \in 0 .. SemMax
    BY <1>1, <1>2
  <2>2. (IF sem[s] < SemMax THEN sem[s] + 1 ELSE sem[s]) \in 0 .. SemMax
    BY <1>1, <2>1
  <2> QED BY <1>1, <2>2 DEF SemPost
<1>3. CASE s \notin Sems
  BY <1>1, <1>3 DEF SemPost
<1> QED BY <1>2, <1>3

LEMMA SendKeepsTypes ==
  ASSUME MPTypes, NEW p \in Procs,
         \/ \E type \in FrameTypes, len \in Lengths, d \in Data : SendFrame(p, type, len, d)
         \/ \E len \in Lengths, ts \in Times, d \in Data : SendCmd(p, len, ts, d)
         \/ \E len \in Lengths : SendReply(p, len)
         \/ PostFrame(p) \/ PostReply(p)
  PROVE  MPTypes'
<1> USE DEF members, locals, counts
<1>0. MPTypes /\ InstanceID[p] \in IDs
  BY DEF MPTypes, Processes
<1>1. Packet \in Rings /\ Reply \in Rings
  BY DEF Rings
<1>2. \A type, aid, ts, d : \A len \in Lengths :
        CellOK(Header(p, type, aid, len, ts, d)) /\ Header(p, type, aid, len, ts, d).Length = len
  BY <1>0 DEF Header, CellOK
<1>3. PowerOn[p] => shm = "ready" /\ \A f \in Rings : ReadOffset[p][f] \in Area(f)
  BY DEF MPTypes, Attached
<1>4. ASSUME NEW type \in FrameTypes, NEW len \in Lengths, NEW d \in Data, SendFrame(p, type, len, d)
      PROVE  MPTypes'
  <2> DEFINE h == Header(p, type, 0, len, clock, d)
  <2>1. /\ pc[p] = "idle" /\ PowerOn[p] /\ PutPacket(Packet, h)
        /\ pend' = [pend EXCEPT ![p] = ConnectedBitmask] /\ pc' = [pc EXCEPT ![p] = "post"]
        /\ UNCHANGED <<members, MPHostInstanceID, MPReplyBitmask, sem, ReadOffset, InstanceID, PowerOn>>
    BY <1>4 DEF SendFrame, Mask, wifi
  <2>2. CellOK(h) /\ h.Length \in Lengths
    BY <1>2
  <2> HIDE DEF h
  <2>3. RingsOK' /\ \A g \in Rings : WriteOffset'[g] \in Area(g)
    BY <1>1, <1>3, <2>1, <2>2, PutKeeps
  <2>4. Segment'
    BY <1>0, <2>1, <2>3 DEF MPTypes, Segment
  <2>5. Processes'
    BY <1>0, <2>1 DEF MPTypes, Processes, Segment, Labels
  <2>6. Attached'
    BY <1>0, <2>1 DEF MPTypes, Processes, Attached, Labels
  <2> QED BY <2>3, <2>4, <2>5, <2>6 DEF MPTypes
<1>5. ASSUME NEW len \in Lengths, NEW ts \in Times, NEW d \in Data, SendCmd(p, len, ts, d)
      PROVE  MPTypes'
  <2> DEFINE h == Header(p, 1, 0, len, ts, d)
  <2>1. /\ pc[p] = "idle" /\ PowerOn[p] /\ PutPacket(Packet, h)
        /\ MPHostInstanceID' = InstanceID[p] /\ MPReplyBitmask' = {}
        /\ ReadOffset' = [ReadOffset EXCEPT ![p][Reply] = WriteOffset[Reply]]
        /\ sem' = [sem EXCEPT ![<<Reply, InstanceID[p]>>] = 0]
        /\ pend' = [pend EXCEPT ![p] = ConnectedBitmask] /\ pc' = [pc EXCEPT ![p] = "post"]
        /\ UNCHANGED <<members, InstanceID, PowerOn>>
    BY <1>5 DEF SendCmd, Mask
  <2>2. CellOK(h) /\ h.Length \in Lengths
    BY <1>2
  <2> HIDE DEF h
  <2>3. RingsOK' /\ \A g \in Rings : WriteOffset'[g] \in Area(g)
    BY <1>1, <1>3, <2>1, <2>2, PutKeeps
  <2>4. Segment'
    <3>1. sem' \in [Sems -> 0 .. SemMax]
      <4> DEFINE own == <<Reply, InstanceID[p]>>
      <4>1. sem' = [sem EXCEPT ![own] = 0] /\ 0 \in 0 .. SemMax
        BY <2>1, BoundsAssumption DEF BoundsAssumption
      <4> HIDE DEF own
      <4> QED BY <1>0, <4>1 DEF MPTypes, Segment
    <3>2. MPHostInstanceID' \in IDs /\ MPReplyBitmask' \subseteq IDs
      BY <1>0, <2>1
    <3> QED BY <1>0, <2>1, <2>3, <3>1, <3>2 DEF MPTypes, Segment
  <2>5. WriteOffset[Reply] \in Area(Reply)
    BY <1>1, <1>3, <2>1 DEF MPTypes, Segment
  <2>6. /\ ReadOffset' = [q \in Procs |-> ReadOffset'[q]]
        /\ \A q \in Procs : ReadOffset'[q] = [g \in Rings |-> ReadOffset'[q][g]]
        /\ \A q \in Procs : \A g \in Rings :
              ReadOffset[q][g] \in Area(g) => ReadOffset'[q][g] \in Area(g)
    BY <1>1, <2>1, <2>5, ReaderMoves
  <2>7. Processes'
    BY <1>0, <2>1, <2>6 DEF MPTypes, Processes, Segment, Labels
  <2>8. Attached'
    BY <1>0, <2>1, <2>6 DEF MPTypes, Processes, Attached, Labels
  <2> QED BY <2>3, <2>4, <2>7, <2>8 DEF MPTypes
<1>6. ASSUME NEW len \in Lengths, SendReply(p, len) PROVE MPTypes'
  <2>1. PICK d \in Data : PutPacket(Reply, Header(p, 2, IF len = 0 THEN 0 ELSE p, len, cmd[p], d))
    BY <1>6 DEF SendReply
  <2> DEFINE h == Header(p, 2, IF len = 0 THEN 0 ELSE p, len, cmd[p], d)
  <2>2. /\ pc[p] = "idle" /\ PowerOn[p] /\ PutPacket(Reply, h)
        /\ MPReplyBitmask' = MPReplyBitmask \cup {InstanceID[p]} /\ pc' = [pc EXCEPT ![p] = "postreply"]
        /\ UNCHANGED <<members, MPHostInstanceID, sem, ReadOffset, InstanceID, pend, PowerOn>>
    BY <1>6, <2>1 DEF SendReply
  <2>3. CellOK(h) /\ h.Length \in Lengths
    BY <1>2
  <2> HIDE DEF h
  <2>4. RingsOK' /\ \A g \in Rings : WriteOffset'[g] \in Area(g)
    BY <1>1, <1>3, <2>2, <2>3, PutKeeps
  <2>5. Segment'
    BY <1>0, <2>2, <2>4 DEF MPTypes, Segment
  <2>6. Processes'
    BY <1>0, <2>2 DEF MPTypes, Processes, Labels
  <2>7. Attached'
    BY <1>0, <2>2 DEF MPTypes, Processes, Attached, Labels
  <2> QED BY <2>4, <2>5, <2>6, <2>7 DEF MPTypes
<1>7. CASE PostFrame(p) \/ PostReply(p)
  <2>1. /\ pc[p] \in {"post", "postreply"} /\ (pc' = pc \/ pc' = [pc EXCEPT ![p] = "idle"])
        /\ sem' = sem \/ \E s : SemPost(s)
        /\ pend' = pend \/ \E i : pend' = [pend EXCEPT ![p] = @ \ {i}]
        /\ UNCHANGED <<members, rings, ReadOffset, InstanceID, PowerOn>>
    BY <1>7 DEF PostFrame, PostReply, wifi
  <2>2. sem' \in [Sems -> 0 .. SemMax]
    BY <1>0, <2>1, PostKeeps DEF MPTypes, Segment
  <2>3. pend' \in [Procs -> SUBSET IDs]
    BY <1>0, <2>1 DEF MPTypes, Processes
  <2>4. Segment' /\ RingsOK'
    BY <1>0, <2>1, <2>2 DEF MPTypes, Segment, RingsOK, rings
  <2>5. Processes'
    BY <1>0, <2>1, <2>3 DEF MPTypes, Processes, Labels
  <2>6. Attached'
    BY <1>0, <2>1 DEF MPTypes, Processes, Attached, Labels
  <2> QED BY <2>4, <2>5, <2>6 DEF MPTypes
<1> QED BY <1>4, <1>5, <1>6, <1>7

\* A receiver's steps that read no packet.
LEMMA WaitKeepsTypes ==
  ASSUME MPTypes, NEW p \in Procs,
         \/ RecvStart(p) \/ HostGone(p) \/ RecvWait(p) \/ RepliesWait(p)
         \/ \E aids \in SUBSET (Procs \ {0}) : RepliesStart(p, aids)
  PROVE  MPTypes'
<1>1. PICK l \in Labels \ {"off", "create", "format", "join"} :
        /\ pc' = [pc EXCEPT ![p] = l]
        /\ PowerOn[p] /\ UNCHANGED <<members, rings, ReadOffset, InstanceID, pend, PowerOn>>
  <2>1. PowerOn[p] /\ pc[p] \in Labels \ {"off", "create", "format", "join"}
    BY DEF MPTypes, Attached, Processes, RecvStart, HostGone, RecvWait, RepliesWait, RepliesStart, Labels
  <2>2. pc' = pc => pc' = [pc EXCEPT ![p] = pc[p]]
    BY DEF MPTypes, Processes
  <2> QED BY <2>1, <2>2 DEF RecvStart, HostGone, RecvWait, RepliesWait, RepliesStart, Labels, locals, wifi
<1>2. sem' = sem \/ \E s : sem[s] > 0 /\ sem' = [sem EXCEPT ![s] = @ - 1]
  BY DEF RecvStart, HostGone, RecvWait, RepliesWait, RepliesStart
<1>3. sem' \in [Sems -> 0 .. SemMax]
  <2>1. ASSUME NEW s, sem[s] > 0, sem' = [sem EXCEPT ![s] = @ - 1] PROVE sem' \in [Sems -> 0 .. SemMax]
    <3>1. s \in Sems => sem[s] - 1 \in 0 .. SemMax
      BY <2>1, BoundsAssumption DEF MPTypes, Segment, BoundsAssumption
    <3> QED BY <2>1, <3>1 DEF MPTypes, Segment
  <2> QED BY <1>2, <2>1 DEF MPTypes, Segment
<1>4. Segment' /\ RingsOK'
  BY <1>1, <1>3 DEF MPTypes, Segment, RingsOK, rings, members
<1>5. Processes'
  BY <1>1 DEF MPTypes, Processes
<1>6. Attached'
  BY <1>1 DEF MPTypes, Processes, Attached, members
<1> QED BY <1>4, <1>5, <1>6 DEF MPTypes

\* A packet is taken from a ring, or all of them are given up.
LEMMA TakeKeepsTypes ==
  ASSUME MPTypes, NEW p \in Procs, RecvFrame(p) \/ RecvReply(p)
  PROVE  MPTypes'
<1>1. Packet \in Rings /\ Reply \in Rings
  BY DEF Rings
<1>2. /\ PowerOn[p] /\ shm = "ready" /\ \A f \in Rings : ReadOffset[p][f] \in Area(f)
      /\ \A f \in Rings : WriteOffset[f] \in Area(f)
  BY DEF MPTypes, Attached, Segment, RecvFrame, RecvReply, Labels
<1>3. ASSUME NEW f \in Rings
      PROVE  LET off == ReadOffset[p][f]
                 h == FIFORead(f, off, 1)[1]
             IN  h.magic => h.Length \in Lengths
  <2>1. FIFORead(f, ReadOffset[p][f], 1)[1] = mem[f][Place(f, ReadOffset[p][f], 0)]
    BY DEF FIFORead
  <2>2. Place(f, ReadOffset[p][f], 0) = ReadOffset[p][f]
    BY <1>2, AreaFacts DEF Place, Area
  <2> QED BY <1>2, <2>1, <2>2 DEF MPTypes, RingsOK, CellOK
<1>4. PICK f \in Rings, v \in Nat :
        /\ ReadOffset' = [ReadOffset EXCEPT ![p][f] = v] /\ v \in Area(f)
        /\ sem' = sem \/ sem' = [sem EXCEPT ![<<f, InstanceID[p]>>] = 0]
  <2> DEFINE h(f) == FIFORead(f, ReadOffset[p][f], 1)[1]
             off1(f) == NextOffset(f, ReadOffset[p][f], 1)
  <2>1. ASSUME NEW f \in Rings, h(f).magic
        PROVE  /\ off1(f) \in Area(f) /\ NextOffset(f, off1(f), h(f).Length) \in Area(f)
               /\ SkipOffset(f, off1(f), h(f).Length) \in Area(f)
    <3>1. h(f).Length \in Lengths
      BY <1>3, <2>1
    <3> QED BY <1>2, <3>1, PacketStays
  <2>2. \A f \in Rings : Area(f) \subseteq Nat
    BY AreaFacts DEF Area
  <2> HIDE DEF NextOffset, SkipOffset, FIFORead, Area
  <2>3. CASE RecvFrame(p)
    <3>1. \/ /\ ReadOffset' = [ReadOffset EXCEPT ![p][Packet] = WriteOffset[Packet]]
             /\ sem' = [sem EXCEPT ![<<Packet, InstanceID[p]>>] = 0]
          \/ /\ h(Packet).magic /\ sem' = sem
             /\ ReadOffset' = [ReadOffset EXCEPT
                  ![p][Packet] = SkipOffset(Packet, off1(Packet), h(Packet).Length)]
          \/ /\ h(Packet).magic /\ sem' = sem
             /\ ReadOffset' = [ReadOffset EXCEPT ![p][Packet] = IF h(Packet).Length = 0 THEN off1(Packet)
                                          ELSE NextOffset(Packet, off1(Packet), h(Packet).Length)]
      BY <2>3 DEF RecvFrame
    <3> HIDE DEF h, off1
    <3> QED BY <1>1, <1>2, <2>1, <2>2, <3>1
  <2>4. CASE RecvReply(p)
    <3>1. \/ /\ ReadOffset' = [ReadOffset EXCEPT ![p][Reply] = WriteOffset[Reply]]
             /\ sem' = [sem EXCEPT ![<<Reply, InstanceID[p]>>] = 0]
          \/ /\ h(Reply).magic /\ sem' = sem
             /\ ReadOffset' = [ReadOffset EXCEPT
                  ![p][Reply] = SkipOffset(Reply, off1(Reply), h(Reply).Length)]
          \/ /\ h(Reply).magic /\ sem' = sem
             /\ ReadOffset' = [ReadOffset EXCEPT ![p][Reply] = IF h(Reply).Length = 0 THEN off1(Reply)
                                          ELSE NextOffset(Reply, off1(Reply), h(Reply).Length)]
      BY <2>4 DEF RecvReply
    <3> HIDE DEF h, off1
    <3> QED BY <1>1, <1>2, <2>1, <2>2, <3>1
  <2> QED BY <2>3, <2>4
<1>5. /\ ReadOffset' = [q \in Procs |-> ReadOffset'[q]]
      /\ \A q \in Procs : ReadOffset'[q] = [g \in Rings |-> ReadOffset'[q][g]]
      /\ \A q \in Procs : \A g \in Rings :
            ReadOffset[q][g] \in Area(g) => ReadOffset'[q][g] \in Area(g)
  BY <1>4, ReaderMoves
<1>6. PICK l \in Labels \ {"off", "create", "format", "join"} :
        /\ pc' = [pc EXCEPT ![p] = l]
        /\ UNCHANGED <<members, rings, InstanceID, pend, PowerOn>>
  <2>1. /\ pc' \in {[pc EXCEPT ![p] = "idle"], [pc EXCEPT ![p] = "recv"], [pc EXCEPT ![p] = "replies"]}
        /\ UNCHANGED <<members, rings, InstanceID, pend, PowerOn>>
    BY DEF RecvFrame, RecvReply, wifi
  <2> QED BY <2>1 DEF Labels
<1>7. sem' \in [Sems -> 0 .. SemMax]
  BY <1>4, BoundsAssumption DEF MPTypes, Segment, BoundsAssumption
<1>8. Segment' /\ RingsOK'
  BY <1>6, <1>7 DEF MPTypes, Segment, RingsOK, rings, members
<1>9. Processes'
  BY <1>5, <1>6 DEF MPTypes, Processes
<1>10. Attached'
  BY <1>2, <1>5, <1>6 DEF MPTypes, Processes, Attached, members
<1> QED BY <1>8, <1>9, <1>10 DEF MPTypes

LEMMA StepKeepsTypes == MPTypes /\ [Next]_vars => MPTypes'
<1>1. MPTypes /\ UNCHANGED vars => MPTypes'
  BY DEF vars, members, rings, locals, wifi, MPTypes, Segment, RingsOK, Processes, Attached
<1>2. ASSUME MPTypes, NEW p \in Procs, Step(p) PROVE MPTypes'
  BY <1>2, MembersKeepTypes, WifiKeepsTypes, SendKeepsTypes, WaitKeepsTypes, TakeKeepsTypes DEF Step
<1> QED BY <1>1, <1>2 DEF Next

\* The header of the segment, the semaphores and the offsets of every process keep
\* their types: whatever lengths FIFOWrite and FIFORead copy in one part or in two, and
\* the receivers step over (LocalMP.cpp), no offset of a reader leaves its ring.
THEOREM OffsetsStayInRings == Spec => []TypeOK
<1>1. MPTypes => TypeOK
  BY DEF MPTypes, Segment, Processes, Attached, TypeOK
<1> QED BY InitMPTypes, StepKeepsTypes, <1>1, PTL DEF Spec

-----------------------------------------------------------------------------
(* The members *)

\* One process keeps the segment, so that it is never created and formatted while
\* others join; and the bitmasks have room for all processes.
SegmentStays == Resident # {}
RoomForAll == IsFiniteSet(Procs) /\ Cardinality(Procs) <= MaxInstances

MembersInv ==
  /\ shm = "ready" /\ \A p \in Procs : pc[p] \in Labels \ {"create", "format"}
  /\ Resident \subseteq Running
  /\ InstancesPresent

LEMMA InitMembers == Init /\ SegmentStays => MembersInv
<1> SUFFICES ASSUME Init, SegmentStays PROVE MembersInv
  OBVIOUS
<1>1. Joined # {} /\ Running = Joined
  BY ProcsAssumption DEF Init, SegmentStays, Running, ProcsAssumption
<1>2. \A p \in Joined : InstanceID[p] = p
  BY ProcsAssumption DEF Init, ProcsAssumption
<1>3. InstancesPresent
  <2>1. {InstanceID[p] : p \in Running} = Joined
    BY <1>1, <1>2
  <2> QED BY <1>1, <1>2, <2>1 DEF Init, InstancesPresent
<1> QED BY <1>1, <1>3, ProcsAssumption DEF Init, MembersInv, Labels, ProcsAssumption

\* There is an ID for who joins: the others have one each.
LEMMA SomeIDFree ==
  ASSUME MPTypes, MembersInv, RoomForAll, NEW p \in Procs, p \notin Running
  PROVE  FreeIDs # {}
<1> SUFFICES ASSUME FreeIDs = {} PROVE FALSE
  OBVIOUS
<1>1. IDs \subseteq InstanceBitmask
  BY DEF FreeIDs
<1> DEFINE holds == [q \in Running |-> InstanceID[q]]
<1>2. holds \in Surjection(Running, IDs)
  BY <1>1 DEF MembersInv, InstancesPresent, MPTypes, Processes, Running, Surjection
<1>3. IsFiniteSet(Running) /\ Cardinality(Running) <= Cardinality(Procs \ {p})
  <2>1. Running \in SUBSET (Procs \ {p})
    BY DEF Running
  <2>2. IsFiniteSet(Procs \ {p})
    BY FS_RemoveElement DEF RoomForAll
  <2> QED BY <2>1, <2>2, FS_Subset
<1>4. Cardinality(Procs \ {p}) = Cardinality(Procs) - 1 /\ Cardinality(Procs) \in Nat
  BY FS_RemoveElement, FS_CardinalityType DEF RoomForAll
<1>5. Cardinality(IDs) = MaxInstances
  BY FS_Interval, ProcsAssumption DEF IDs, ProcsAssumption
<1>6. Cardinality(IDs) <= Cardinality(Running)
  BY <1>2, <1>3, FS_Surjection
<1>7. Cardinality(Running) \in Nat
  BY <1>3, FS_CardinalityType
<1> QED BY <1>3, <1>4, <1>5, <1>6, <1>7, ProcsAssumption DEF RoomForAll, ProcsAssumption

LEMMA JoinKeepsMembers ==
  ASSUME MPTypes, MembersInv, RoomForAll, NEW p \in Procs, Join(p)
  PROVE  MembersInv'
<1>1. /\ pc[p] = "join" /\ pc' = [pc EXCEPT ![p] = "idle"] /\ NumInstances' = NumInstances + 1
      /\ shm' = shm
  BY DEF Join
<1>2. p \notin Running /\ Running' = Running \cup {p}
  BY <1>1 DEF Running, MPTypes, Processes
<1>3. FreeIDs # {}
  BY <1>2, SomeIDFree
<1>4. /\ InstanceID' = [InstanceID EXCEPT ![p] = LowestFree]
      /\ InstanceBitmask' = InstanceBitmask \cup {LowestFree}
  BY <1>3 DEF Join
<1>5. LowestFree \notin InstanceBitmask
  BY <1>3, LowestIsFree DEF FreeIDs
<1> HIDE DEF LowestFree
<1>6. InstanceID'[p] = LowestFree /\ \A q \in Procs \ {p} : InstanceID'[q] = InstanceID[q]
  BY <1>4 DEF MPTypes, Processes
<1>7. IsFiniteSet(Running)
  BY FS_Subset DEF RoomForAll, Running
<1>8. Cardinality(Running') = Cardinality(Running) + 1
  BY <1>2, <1>7, FS_AddElement
<1>9. \A q \in Running : q \in Procs \ {p} /\ InstanceID[q] \in InstanceBitmask
  BY <1>2 DEF Running, MembersInv, InstancesPresent
<1>10. InstanceBitmask' = {InstanceID'[q] : q \in Running'}
  <2>1. InstanceBitmask = {InstanceID[q] : q \in Running}
    BY DEF MembersInv, InstancesPresent
  <2>2. {InstanceID'[q] : q \in Running'} = {InstanceID[q] : q \in Running} \cup {LowestFree}
    <3>1. \A q \in Running : InstanceID'[q] = InstanceID[q]
      BY <1>6, <1>9
    <3>2. {InstanceID'[q] : q \in Running'} = {InstanceID'[q] : q \in Running} \cup {InstanceID'[p]}
      BY <1>2
    <3> QED BY <1>6, <3>1, <3>2
  <2> QED BY <1>4, <2>1, <2>2
<1>11. \A q, r \in Running' : InstanceID'[q] = InstanceID'[r] => q = r
  <2>1. \A q, r \in Running : InstanceID[q] = InstanceID[r] => q = r
    BY DEF MembersInv, InstancesPresent
  <2> QED BY <1>2, <1>5, <1>6, <1>9, <2>1
<1>12. InstancesPresent'
  BY <1>1, <1>8, <1>10, <1>11 DEF InstancesPresent, MembersInv
<1> QED BY <1>1, <1>2, <1>12 DEF MembersInv, MPTypes, Processes, Labels

LEMMA DeInitKeepsMembers ==
  ASSUME MPTypes, MembersInv, SegmentStays, RoomForAll, NEW p \in Procs, DeInit(p)
  PROVE  MembersInv'
<1>1. /\ pc[p] = "idle" /\ p \notin Resident /\ pc' = [pc EXCEPT ![p] = "off"]
      /\ NumInstances' = NumInstances - 1 /\ InstanceID' = InstanceID
      /\ InstanceBitmask' = InstanceBitmask \ {InstanceID[p]}
      /\ shm' = IF Users = {p} THEN "absent" ELSE shm
  BY DEF DeInit, ReleaseID, locals
<1>2. p \in Running /\ Running' = Running \ {p}
  BY <1>1 DEF Running, MPTypes, Processes
<1>3. shm' = "ready"
  <2>1. \E r \in Resident : r \in Users /\ r # p
    BY <1>1 DEF SegmentStays, MembersInv, Running, Users
  <2> QED BY <1>1, <2>1 DEF MembersInv
<1>4. IsFiniteSet(Running)
  BY FS_Subset DEF RoomForAll, Running
<1>5. Cardinality(Running') = Cardinality(Running) - 1
  BY <1>2, <1>4, FS_RemoveElement
<1>6. \A q, r \in Running : InstanceID[q] = InstanceID[r] => q = r
  BY DEF MembersInv, InstancesPresent
<1>7. InstanceBitmask' = {InstanceID'[q] : q \in Running'}
  <2>1. InstanceBitmask = {InstanceID[q] : q \in Running}
    BY DEF MembersInv, InstancesPresent
  <2> QED BY <1>1, <1>2, <1>6, <2>1
<1>8. InstancesPresent'
  BY <1>1, <1>2, <1>5, <1>6, <1>7 DEF InstancesPresent, MembersInv
<1> QED BY <1>1, <1>2, <1>3, <1>8 DEF MembersInv, MPTypes, Processes, Labels

\* Nothing else changes who is there.
LEMMA SameMembers ==
  ASSUME MPTypes, MembersInv, UNCHANGED <<shm, NumInstances, InstanceBitmask, InstanceID>>,
         NEW p \in Procs, NEW l, pc' = [pc EXCEPT ![p] = l],
         \/ pc[p] \in Labels \ {"off", "join"} /\ l \in Labels \ {"off", "create", "format", "join"}
         \/ pc[p] = "off" /\ l = "join"
  PROVE  MembersInv'
<1>1. \A q \in Procs : q # p => pc'[q] = pc[q]
  BY DEF MPTypes, Processes
<1>2. pc'[p] = l
  BY DEF MPTypes, Processes
<1>3. pc[p] \notin {"create", "format"}
  BY DEF MembersInv
<1>4. Running' = Running
  BY <1>1, <1>2, <1>3 DEF Running, Labels
<1>5. InstancesPresent'
  BY <1>4 DEF MembersInv, InstancesPresent
<1>6. \A q \in Procs : pc'[q] \in Labels \ {"create", "format"}
  BY <1>1, <1>2 DEF MembersInv, Labels
<1> QED BY <1>4, <1>5, <1>6 DEF MembersInv

LEMMA StepKeepsMembers ==
  MPTypes /\ MembersInv /\ SegmentStays /\ RoomForAll /\ [Next]_vars => MembersInv'
<1> SUFFICES ASSUME MPTypes, MembersInv, SegmentStays, RoomForAll, [Next]_vars PROVE MembersInv'
  OBVIOUS
<1>1. CASE UNCHANGED vars
  BY <1>1 DEF vars, members, locals, MembersInv, InstancesPresent, Running
<1>2. ASSUME NEW p \in Procs, Step(p) PROVE MembersInv'
  <2>1. pc[p] \notin {"create", "format"} /\ shm = "ready"
    BY DEF MembersInv
  <2>2. pc = [pc EXCEPT ![p] = pc[p]] /\ pc[p] \in Labels
    BY DEF MPTypes, Processes
  <2>3. CASE Attach(p)
    <3>1. /\ pc[p] = "off" /\ pc' = [pc EXCEPT ![p] = "join"]
          /\ UNCHANGED <<shm, NumInstances, InstanceBitmask, InstanceID>>
      BY <2>1, <2>3 DEF Attach, members, locals
    <3> QED BY <3>1, SameMembers
  <2>4. CASE Create(p) \/ Format(p)
    BY <2>1, <2>4 DEF Create, Format
  <2>5. CASE Begin(p) \/ End(p) \/ WifiReset(p) \/ PostFrame(p) \/ PostReply(p)
             \/ RecvStart(p) \/ HostGone(p) \/ RecvWait(p) \/ RecvFrame(p)
             \/ (\E type \in FrameTypes, len \in Lengths, d \in Data : SendFrame(p, type, len, d))
             \/ (\E len \in Lengths, ts \in Times, d \in Data : SendCmd(p, len, ts, d))
             \/ (\E len \in Lengths : SendReply(p, len))
             \/ (\E aids \in SUBSET (Procs \ {0}) : RepliesStart(p, aids))
             \/ RepliesWait(p) \/ RecvReply(p)
    <3>1. pc[p] \in Labels \ {"off", "join"}
      BY <2>5 DEF Begin, End, WifiReset, PostFrame, PostReply, RecvStart, HostGone, RecvWait, RecvFrame,
                  SendFrame, SendCmd, SendReply, RepliesStart, RepliesWait, RecvReply, Labels
    <3>2. UNCHANGED <<shm, NumInstances, InstanceBitmask, InstanceID>>
      BY <2>5 DEF Begin, End, WifiReset, PostFrame, PostReply, RecvStart, HostGone, RecvWait, RecvFrame,
                  SendFrame, SendCmd, SendReply, RepliesStart, RepliesWait, RecvReply, members, locals
    <3>3. \E l \in Labels \ {"off", "create", "format", "join"} : pc' = [pc EXCEPT ![p] = l]
      <4>1. pc[p] \in Labels \ {"off", "create", "format", "join"}
        BY <2>1, <3>1
      <4>2. pc' = pc \/ \E l \in {"idle", "post", "postreply", "recv", "got", "replies", "gotreply"} :
                           pc' = [pc EXCEPT ![p] = l]
        BY <2>5 DEF Begin, End, WifiReset, PostFrame, PostReply, RecvStart, HostGone, RecvWait,
                    RecvFrame, SendFrame, SendCmd, SendReply, RepliesStart, RepliesWait, RecvReply
      <4> QED BY <2>2, <4>1, <4>2 DEF Labels
    <3> QED BY <3>1, <3>2, <3>3, SameMembers
  <2> QED BY <1>2, <2>3, <2>4, <2>5, JoinKeepsMembers, DeInitKeepsMembers DEF Step
<1> QED BY <1>1, <1>2 DEF Next

\* While one process stays and no more processes come than the bitmasks have room for,
\* whatever order they attach and detach in: every instance that went through LocalMP's
\* Init and not its DeInit has an ID that is its own and marked as taken, and no other
\* ID is.  Without a process that stays it is not so: see PresentInBitmask.
THEOREM InstancesHoldTheirIDs == SegmentStays /\ RoomForAll /\ Spec => []InstancesPresent
<1>1. MembersInv => InstancesPresent
  BY DEF MembersInv
<1> DEFINE I == MPTypes /\ MembersInv /\ SegmentStays /\ RoomForAll
<1>2. SegmentStays /\ RoomForAll /\ Init => I
  BY InitMPTypes, InitMembers
<1>3. I /\ [Next]_vars => I'
  BY StepKeepsTypes, StepKeepsMembers DEF SegmentStays, RoomForAll
<1>4. I => InstancesPresent
  BY <1>1
<1> HIDE DEF I
<1> QED BY <1>2, <1>3, <1>4, PTL DEF Spec

-----------------------------------------------------------------------------
(* Round the ring *)

Span(f) == kEnd[f] - kStart[f]

LEMMA SpanFacts ==
  ASSUME NEW f \in Rings
  PROVE  Span(f) \in Nat /\ Span(f) > 1 /\ \A l \in Lengths : l \in Nat /\ 1 + l <= Span(f)
  BY AreaFacts DEF Span

\* The cell d cells on, counted from any cell of the ring.
LEMMA PlaceFacts ==
  ASSUME NEW f \in Rings, NEW r \in Area(f)
  PROVE  /\ \A d \in 0 .. Span(f) : Place(f, r, d) \in Area(f)
         /\ \A d, e \in 0 .. Span(f) - 1 : Place(f, r, d) = Place(f, r, e) => d = e
         /\ \A d, e \in Nat : d + e <= Span(f) => Place(f, Place(f, r, d), e) = Place(f, r, d + e)
         /\ Place(f, r, 0) = r /\ Place(f, r, Span(f)) = r
         /\ \A o \in Area(f) : \E d \in 0 .. Span(f) - 1 : o = Place(f, r, d)
<1>1. kStart[f] \in Nat /\ kEnd[f] \in Nat /\ kStart[f] + 1 < kEnd[f] /\ r \in kStart[f] .. kEnd[f] - 1
  BY AreaFacts DEF Area
<1>2. \A d \in 0 .. Span(f) : Place(f, r, d) \in Area(f)
  BY <1>1 DEF Place, Span, Area
<1>3. \A d, e \in 0 .. Span(f) - 1 : Place(f, r, d) = Place(f, r, e) => d = e
  BY <1>1 DEF Place, Span
<1>4. \A d, e \in Nat : d + e <= Span(f) => Place(f, Place(f, r, d), e) = Place(f, r, d + e)
  BY <1>1 DEF Place, Span
<1>5. Place(f, r, 0) = r /\ Place(f, r, Span(f)) = r
  BY <1>1 DEF Place, Span
<1>6. ASSUME NEW o \in Area(f) PROVE \E d \in 0 .. Span(f) - 1 : o = Place(f, r, d)
  <2>1. o \in kStart[f] .. kEnd[f] - 1
    BY DEF Area
  <2>2. CASE o >= r
    <3>1. o - r \in 0 .. Span(f) - 1 /\ o = Place(f, r, o - r)
      BY <1>1, <2>1, <2>2 DEF Place, Span
    <3> QED BY <3>1
  <2>3. CASE o < r
    <3>1. o - r + Span(f) \in 0 .. Span(f) - 1 /\ o = Place(f, r, o - r + Span(f))
      BY <1>1, <2>1, <2>3 DEF Place, Span
    <3> QED BY <3>1
  <2> QED BY <1>1, <2>1, <2>2, <2>3
<1> QED BY <1>2, <1>3, <1>4, <1>5, <1>6

\* FIFORead, FIFOWrite and the receivers that step over a payload cut in the same place.
LEMMA StepsArePlaces ==
  ASSUME NEW f \in Rings, NEW r \in Area(f), NEW l \in Nat
  PROVE  NextOffset(f, r, l) = Place(f, r, l) /\ SkipOffset(f, r, l) = Place(f, r, l)
  BY AreaFacts DEF NextOffset, SkipOffset, Place, Area

\* Past a header, and past the packet.
LEMMA Onward ==
  ASSUME NEW f \in Rings, NEW r \in Area(f), NEW l \in Lengths
  PROVE  /\ NextOffset(f, r, 1) = Place(f, r, 1)
         /\ NextOffset(f, NextOffset(f, r, 1), l) = Place(f, r, 1 + l)
         /\ SkipOffset(f, NextOffset(f, r, 1), l) = Place(f, r, 1 + l)
<1>1. l \in Nat /\ 1 + l <= Span(f) /\ Span(f) \in Nat /\ Span(f) > 1
  BY SpanFacts
<1>2. NextOffset(f, r, 1) = Place(f, r, 1)
  BY StepsArePlaces
<1>3. Place(f, r, 1) \in Area(f) /\ Place(f, Place(f, r, 1), l) = Place(f, r, 1 + l)
  BY <1>1, PlaceFacts
<1> QED BY <1>1, <1>2, <1>3, StepsArePlaces

\* How far the writer is ahead.
LEMMA BacklogIs ==
  ASSUME NEW p, NEW f \in Rings, ReadOffset[p][f] \in Area(f), NEW d \in 0 .. Span(f) - 1,
         WriteOffset[f] = Place(f, ReadOffset[p][f], d)
  PROVE  Backlog(p, f) = d
<1> DEFINE n == Span(f)
           a == WriteOffset[f] - ReadOffset[p][f]
<1>1. n \in Nat \ {0} /\ kStart[f] \in Nat /\ kEnd[f] \in Nat /\ n = kEnd[f] - kStart[f]
  BY SpanFacts, AreaFacts DEF Span
<1>2. a = d \/ a = d - n
  BY <1>1, AreaFacts DEF Place, Area
<1>3. d % n = d
  BY <1>1
<1>4. (d - n) % n = d
  BY <1>1
<1> QED BY <1>1, <1>2, <1>3, <1>4 DEF Backlog, Span

-----------------------------------------------------------------------------
(* Writing a packet *)

\* What FIFOWrite leaves in the cell d cells on.
LEMMA WrittenCells ==
  ASSUME NEW f \in Rings, NEW off \in Area(f), NEW m, NEW buf, NEW n \in 0 .. Span(f),
         DOMAIN buf = 1 .. n, NEW d \in 0 .. Span(f) - 1
  PROVE  FIFOWrite(m, f, off, buf)[Place(f, off, d)]
           = IF d < n THEN buf[d + 1] ELSE m[Place(f, off, d)]
<1> DEFINE o == Place(f, off, d)
<1>1. Span(f) \in Nat /\ o \in Area(f)
  BY SpanFacts, PlaceFacts
<1>2. \A k \in 1 .. n : Place(f, off, k - 1) = o => k = d + 1
  <2>1. \A k \in 1 .. n : k - 1 \in 0 .. Span(f) - 1
    BY <1>1
  <2>2. \A k \in 1 .. n : Place(f, off, k - 1) = o => k - 1 = d
    BY <2>1, PlaceFacts
  <2> QED BY <2>1, <2>2, <1>1
<1>3. CASE d < n
  <2>1. d + 1 \in 1 .. n /\ Place(f, off, (d + 1) - 1) = o
    BY <1>1, <1>3
  <2>2. \E k \in DOMAIN buf : Place(f, off, k - 1) = o
    BY <2>1
  <2>3. (CHOOSE k \in DOMAIN buf : Place(f, off, k - 1) = o) = d + 1
    BY <2>2, <1>2
  <2> HIDE DEF o
  <2>4. FIFOWrite(m, f, off, buf)[o] = buf[d + 1]
    BY <1>1, <2>2, <2>3 DEF FIFOWrite
  <2> QED BY <2>4, <1>3 DEF o
<1>4. CASE ~(d < n)
  <2>1. ~\E k \in DOMAIN buf : Place(f, off, k - 1) = o
    BY <1>1, <1>2, <1>4
  <2> HIDE DEF o
  <2>2. FIFOWrite(m, f, off, buf)[o] = m[o]
    BY <1>1, <2>1 DEF FIFOWrite
  <2> QED BY <2>2, <1>4 DEF o
<1> QED BY <1>3, <1>4

\* The header, the payload behind it, and the rest of the ring as it was.
LEMMA PutWrites ==
  ASSUME MPTypes, shm = "ready", NEW f \in Rings, NEW h, h.Length \in Lengths, PutPacket(f, h)
  PROVE  /\ mem'[f][WriteOffset[f]] = h
         /\ \A k \in 1 .. h.Length : mem'[f][Place(f, WriteOffset[f], k)] = Body(h)[k]
         /\ \A d \in 1 + h.Length .. Span(f) - 1 :
              mem'[f][Place(f, WriteOffset[f], d)] = mem[f][Place(f, WriteOffset[f], d)]
         /\ WriteOffset'[f] = Place(f, WriteOffset[f], 1 + h.Length)
         /\ \A g \in Rings : g # f => mem'[g] = mem[g] /\ WriteOffset'[g] = WriteOffset[g]
<1> DEFINE w == WriteOffset[f]
           n == Span(f)
           len == h.Length
           off == NextOffset(f, w, 1)
           m1 == FIFOWrite(mem[f], f, w, <<h>>)
           m2 == FIFOWrite(m1, f, off, Body(h))
<1>1. w \in Area(f) /\ mem = [g \in Rings |-> mem[g]] /\ WriteOffset = [g \in Rings |-> WriteOffset[g]]
  BY DEF MPTypes, Segment, RingsOK
<1>2. n \in Nat /\ n > 1 /\ len \in Nat /\ 1 + len <= n
  BY SpanFacts
<1>3. off = Place(f, w, 1) /\ NextOffset(f, off, len) = Place(f, w, 1 + len)
  BY <1>1, Onward
<1>4. /\ mem' = [mem EXCEPT ![f] = m2]
      /\ WriteOffset' = [WriteOffset EXCEPT ![f] = IF len = 0 THEN off ELSE NextOffset(f, off, len)]
  BY DEF PutPacket
<1> HIDE DEF m2, off, w, n, len
<1>5. off \in Area(f)
  <2>1. 1 \in 0 .. Span(f)
    BY <1>2 DEF n
  <2>2. Place(f, w, 1) \in Area(f)
    BY <1>1, <2>1, PlaceFacts
  <2> QED BY <2>2, <1>3
<1>6. \A d \in 0 .. n - 1 : m1[Place(f, w, d)] = IF d < 1 THEN h ELSE mem[f][Place(f, w, d)]
  <2>1. DOMAIN <<h>> = 1 .. 1 /\ 1 \in 0 .. Span(f)
    BY <1>2 DEF n
  <2>2. \A d \in 0 .. n - 1 : m1[Place(f, w, d)] = IF d < 1 THEN <<h>>[d + 1] ELSE mem[f][Place(f, w, d)]
    <3>1. ASSUME NEW buf, DOMAIN buf = 1 .. 1, NEW d \in 0 .. n - 1
          PROVE  FIFOWrite(mem[f], f, w, buf)[Place(f, w, d)]
                   = IF d < 1 THEN buf[d + 1] ELSE mem[f][Place(f, w, d)]
      BY <1>1, <2>1, <3>1, WrittenCells DEF n
    <3> QED BY <2>1, <3>1
  <2>3. <<h>>[1] = h /\ \A d \in 0 .. n - 1 : d < 1 => d + 1 = 1
    BY <1>2
  <2> QED BY <2>2, <2>3
<1> HIDE DEF m1
<1>7. \A e \in 0 .. n - 1 : m2[Place(f, off, e)] = IF e < len THEN Body(h)[e + 1] ELSE m1[Place(f, off, e)]
  <2>1. DOMAIN Body(h) = 1 .. len /\ len \in 0 .. Span(f)
    BY <1>2 DEF n, Body, len
  <2> QED BY <1>5, <2>1, WrittenCells DEF n, m2
<1>8. \A d \in 1 .. n : Place(f, w, d) = Place(f, off, d - 1)
  <2>1. \A d \in 1 .. n : d - 1 \in Nat /\ 1 + (d - 1) <= Span(f) /\ 1 + (d - 1) = d /\ 1 \in Nat
    BY <1>2 DEF n
  <2>2. \A d \in 1 .. n : Place(f, Place(f, w, 1), d - 1) = Place(f, w, 1 + (d - 1))
    BY <1>1, <2>1, PlaceFacts
  <2> QED BY <2>1, <2>2, <1>3
<1>9. \A d \in 1 .. n : m2[Place(f, w, d)] = IF d <= len THEN Body(h)[d] ELSE m1[Place(f, w, d)]
  <2>1. \A d \in 1 .. n : d - 1 \in 0 .. n - 1 /\ (d - 1) + 1 = d /\ (d - 1 < len <=> d <= len)
    BY <1>2
  <2> QED BY <2>1, <1>7, <1>8
<1>10. m2[w] = h
  <2>1. Place(f, w, n) = w /\ Place(f, w, 0) = w
    BY <1>1, PlaceFacts DEF n
  <2>2. m2[w] = m1[w]
    BY <1>2, <1>9, <2>1
  <2>3. m1[w] = h
    BY <1>2, <1>6, <2>1
  <2> QED BY <2>2, <2>3
<1>11. \A k \in 1 .. len : m2[Place(f, w, k)] = Body(h)[k]
  BY <1>2, <1>9
<1>12. \A d \in 1 + len .. n - 1 : m2[Place(f, w, d)] = mem[f][Place(f, w, d)]
  <2>1. \A d \in 1 + len .. n - 1 : d \in 1 .. n /\ d \in 0 .. n - 1 /\ ~(d <= len) /\ ~(d < 1)
    BY <1>2
  <2> QED BY <2>1, <1>6, <1>9
<1>13. mem'[f] = m2 /\ \A g \in Rings : g # f => mem'[g] = mem[g] /\ WriteOffset'[g] = WriteOffset[g]
  BY <1>1, <1>4
<1>14. WriteOffset'[f] = Place(f, w, 1 + len)
  <2>1. WriteOffset'[f] = IF len = 0 THEN off ELSE NextOffset(f, off, len)
    BY <1>1, <1>4
  <2>2. len = 0 => off = Place(f, w, 1 + len)
    BY <1>3
  <2> QED BY <2>1, <2>2, <1>3
<1> QED BY <1>10, <1>11, <1>12, <1>13, <1>14 DEF w, len, n

-----------------------------------------------------------------------------
(* A header is followed by its whole payload.  The writer never checks for     *)
(* room, so a packet may be overwritten before all have read it; but from its  *)
(* header on, since each packet is written where the one before it ends.       *)

WholeAt(f, o) ==
  mem[f][o].magic =>
    \A k \in 1 .. mem[f][o].Length : /\ mem[f][Place(f, o, k)] = Body(mem[f][o])[k]
                                     /\ WriteOffset[f] # Place(f, o, k)
HeadersWhole == \A f \in Rings : \A o \in Area(f) : WholeAt(f, o)

LEMMA PutKeepsWhole ==
  ASSUME MPTypes, shm = "ready", HeadersWhole, NEW f \in Rings, NEW h, h.Length \in Lengths,
         PutPacket(f, h)
  PROVE  HeadersWhole'
<1> DEFINE w == WriteOffset[f]
           n == Span(f)
           len == h.Length
<1>1. /\ mem'[f][w] = h
      /\ \A k \in 1 .. len : mem'[f][Place(f, w, k)] = Body(h)[k]
      /\ \A d \in 1 + len .. n - 1 : mem'[f][Place(f, w, d)] = mem[f][Place(f, w, d)]
      /\ WriteOffset'[f] = Place(f, w, 1 + len)
      /\ \A g \in Rings : g # f => mem'[g] = mem[g] /\ WriteOffset'[g] = WriteOffset[g]
  BY PutWrites
<1>2. w \in Area(f) /\ n \in Nat /\ n > 1 /\ len \in Nat /\ 1 + len <= n
  BY SpanFacts DEF MPTypes, Segment
<1>3. \A d, e \in 0 .. n - 1 : Place(f, w, d) = Place(f, w, e) => d = e
  BY <1>2, PlaceFacts
<1>4. Place(f, w, 0) = w /\ Place(f, w, n) = w
  BY <1>2, PlaceFacts
<1>5. ASSUME NEW o \in Area(f), NEW d \in 0 .. n - 1, o = Place(f, w, d) PROVE WholeAt(f, o)'
  <2>1. CASE d = 0
    <3>1. o = w /\ mem'[f][o] = h
      BY <1>1, <1>4, <1>5, <2>1
    <3>2. \A k \in 1 .. len : Place(f, w, 1 + len) # Place(f, w, k)
      <4>1. CASE 1 + len = n
        <5>1. \A k \in 1 .. len : k \in 0 .. n - 1 /\ 0 \in 0 .. n - 1 /\ k # 0
          BY <1>2
        <5> QED BY <5>1, <4>1, <1>3, <1>4
      <4>2. CASE 1 + len < n
        <5>1. \A k \in 1 .. len : k \in 0 .. n - 1 /\ 1 + len \in 0 .. n - 1 /\ k # 1 + len
          BY <1>2, <4>2
        <5> QED BY <5>1, <1>3
      <4> QED BY <4>1, <4>2, <1>2
    <3> QED BY <3>1, <3>2, <1>1 DEF WholeAt
  <2>2. CASE d \in 1 .. len
    <3>1. mem'[f][o] = Body(h)[d]
      BY <1>1, <1>5, <2>2
    <3>2. Body(h)[d].magic = FALSE
      BY <2>2 DEF Body
    <3> QED BY <3>1, <3>2 DEF WholeAt
  <2>3. CASE d \in 1 + len .. n - 1
    <3>1. mem'[f][o] = mem[f][o] /\ o \in Area(f)
      BY <1>1, <1>5, <2>3
    <3> DEFINE l == mem[f][o].Length
    <3>2. SUFFICES ASSUME mem[f][o].magic, NEW k \in 1 .. l
                   PROVE  mem'[f][Place(f, o, k)] = Body(mem[f][o])[k] /\ WriteOffset'[f] # Place(f, o, k)
      BY <3>1 DEF WholeAt
    <3>3. /\ mem[f][Place(f, o, k)] = Body(mem[f][o])[k]
          /\ \A i \in 1 .. l : w # Place(f, o, i)
      BY <3>1, <3>2 DEF HeadersWhole, WholeAt
    <3>4. l \in Nat
      BY <3>1, <3>2, SpanFacts DEF MPTypes, RingsOK, CellOK
    <3>5. \A i \in 1 .. l : d + i <= n => Place(f, o, i) = Place(f, w, d + i)
      BY <1>2, <1>5, <3>4, <2>3, PlaceFacts
    <3>6. d + l < n
      <4>1. n - d \in Nat /\ d + (n - d) = n /\ n - d >= 1
        BY <1>2, <2>3
      <4>2. SUFFICES ASSUME n - d \in 1 .. l PROVE FALSE
        BY <1>2, <3>4, <4>1, <2>3
      <4>3. Place(f, o, n - d) = Place(f, w, n)
        BY <4>1, <4>2, <3>5
      <4> QED BY <4>2, <4>3, <3>3, <1>4
    <3>7. d + k \in 1 + len .. n - 1 /\ d + k <= n /\ k \in Nat
      BY <1>2, <3>2, <3>4, <3>6, <2>3
    <3>8. Place(f, o, k) = Place(f, w, d + k)
      BY <3>5, <3>7
    <3>9. mem'[f][Place(f, o, k)] = Body(mem[f][o])[k]
      BY <3>3, <3>7, <3>8, <1>1
    <3>10. Place(f, w, 1 + len) # Place(f, w, d + k)
      <4>1. 1 + len \in 0 .. n - 1 /\ d + k \in 0 .. n - 1 /\ 1 + len # d + k
        BY <1>2, <3>7, <3>4, <3>2, <2>3
      <4> QED BY <4>1, <1>3
    <3> QED BY <3>8, <3>9, <3>10, <1>1
  <2> QED BY <2>1, <2>2, <2>3, <1>2
<1>6. \A o \in Area(f) : WholeAt(f, o)'
  BY <1>2, <1>5, PlaceFacts
<1>7. \A g \in Rings : g # f => \A o \in Area(g) : WholeAt(g, o)'
  BY <1>1 DEF HeadersWhole, WholeAt
<1>8. \A g \in Rings : \A o \in Area(g) : WholeAt(g, o)'
  BY <1>6, <1>7
<1> QED BY <1>8 DEF HeadersWhole

LEMMA InitWhole == Init => HeadersWhole
  BY DEF Init, HeadersWhole, WholeAt, Blank

\* Who writes into the rings.
LEMMA Writers ==
  ASSUME NEW p \in Procs, Step(p)
  PROVE  \/ mem' = mem /\ WriteOffset' = WriteOffset
         \/ \E offsets : EmptySegment(offsets)
         \/ \E f \in Rings : \E h : PowerOn[p] /\ h.Length \in Lengths /\ PutPacket(f, h)
<1> DEFINE Same == mem' = mem /\ WriteOffset' = WriteOffset
           Clears == \E offsets : EmptySegment(offsets)
           Puts == \E f \in Rings : \E h : PowerOn[p] /\ h.Length \in Lengths /\ PutPacket(f, h)
<1> SUFFICES Same \/ Clears \/ Puts
  OBVIOUS
<1>1. Packet \in Rings /\ Reply \in Rings
  BY DEF Rings
<1>2. \A type, aid, len, ts, d : Header(p, type, aid, len, ts, d).Length = len
  BY DEF Header
<1>3. CASE Create(p)
  BY <1>3 DEF Create, rings
<1>4. CASE Format(p)
  BY <1>4 DEF Format
<1>5. ASSUME NEW type, NEW len \in Lengths, NEW d, SendFrame(p, type, len, d) PROVE Puts
  BY <1>1, <1>2, <1>5 DEF SendFrame
<1>6. ASSUME NEW len \in Lengths, NEW ts, NEW d, SendCmd(p, len, ts, d) PROVE Puts
  BY <1>1, <1>2, <1>6 DEF SendCmd
<1>7. ASSUME NEW len \in Lengths, SendReply(p, len) PROVE Puts
  BY <1>1, <1>2, <1>7 DEF SendReply
<1>8. CASE Attach(p) \/ Join(p) \/ DeInit(p) \/ Begin(p) \/ End(p) \/ WifiReset(p)
  BY <1>8 DEF Attach, Join, DeInit, Begin, End, WifiReset, rings
<1>9. CASE PostFrame(p) \/ PostReply(p) \/ RecvStart(p) \/ HostGone(p) \/ RecvWait(p) \/ RecvFrame(p)
  BY <1>9 DEF PostFrame, PostReply, RecvStart, HostGone, RecvWait, RecvFrame, rings
<1>10. CASE (\E aids \in SUBSET (Procs \ {0}) : RepliesStart(p, aids)) \/ RepliesWait(p) \/ RecvReply(p)
  BY <1>10 DEF RepliesStart, RepliesWait, RecvReply, rings
<1> HIDE DEF Same, Clears, Puts
<1> QED BY <1>3, <1>4, <1>5, <1>6, <1>7, <1>8, <1>9, <1>10 DEF Step, Same, Clears

LEMMA StepKeepsWhole == MPTypes /\ HeadersWhole /\ [Next]_vars => HeadersWhole'
<1> SUFFICES ASSUME MPTypes, HeadersWhole, [Next]_vars PROVE HeadersWhole'
  OBVIOUS
<1>1. ASSUME mem' = mem, WriteOffset' = WriteOffset PROVE HeadersWhole'
  BY <1>1 DEF HeadersWhole, WholeAt
<1>2. ASSUME NEW offsets, EmptySegment(offsets) PROVE HeadersWhole'
  BY <1>2 DEF EmptySegment, HeadersWhole, WholeAt, Blank
<1>3. ASSUME NEW p \in Procs, Step(p) PROVE HeadersWhole'
  <2>1. PowerOn[p] => shm = "ready"
    BY DEF MPTypes, Attached
  <2> QED BY <1>1, <1>2, <1>3, <2>1, Writers, PutKeepsWhole
<1>4. CASE UNCHANGED vars
  BY <1>1, <1>4 DEF vars, rings
<1> QED BY <1>3, <1>4 DEF Next

-----------------------------------------------------------------------------
(* What a reader has yet to read: a chain of k packets, of which the j-th      *)
(* begins D[j] cells from its offset and the last one ends where the writer is. *)

Chain(f, r, k, D) ==
  /\ k \in Nat /\ D \in [1 .. k + 1 -> 0 .. Span(f) - 1]
  /\ D[1] = 0 /\ WriteOffset[f] = Place(f, r, D[k + 1])
  /\ \A j \in 1 .. k : LET h == mem[f][Place(f, r, D[j])]
                       IN  h.magic /\ h.Length \in Lengths /\ D[j + 1] = D[j] + 1 + h.Length

\* A chain has no more packets than cells, and ends behind all of them.
LEMMA ChainGrows ==
  ASSUME NEW f \in Rings, NEW r \in Area(f), NEW k, NEW D, Chain(f, r, k, D)
  PROVE  /\ k \in Nat /\ k <= D[k + 1] /\ D[k + 1] \in 0 .. Span(f) - 1
         /\ \A j \in 1 .. k : /\ D[j] \in 0 .. Span(f) - 1 /\ D[j + 1] \in 0 .. Span(f) - 1
                              /\ D[j + 1] <= D[k + 1] /\ D[j] < D[j + 1]
                              /\ D[j] < D[k + 1]
                              /\ Place(f, r, D[j]) # WriteOffset[f]
<1> DEFINE n == Span(f)
<1>0. n \in Nat /\ k \in Nat /\ D \in [1 .. k + 1 -> 0 .. n - 1]
  BY SpanFacts DEF Chain
<1>1. \A j \in 1 .. k : /\ j \in 1 .. k + 1 /\ j + 1 \in 1 .. k + 1 /\ D[j] \in 0 .. n - 1
                        /\ D[j + 1] \in 0 .. n - 1 /\ D[j] < D[j + 1]
  <2>1. \A j \in 1 .. k : \E l \in Lengths : D[j + 1] = D[j] + 1 + l
    BY DEF Chain
  <2>2. \A j \in 1 .. k : j \in 1 .. k + 1 /\ j + 1 \in 1 .. k + 1
    BY <1>0
  <2>3. \A j \in 1 .. k : D[j] \in 0 .. n - 1 /\ D[j + 1] \in 0 .. n - 1
    BY <1>0, <2>2
  <2>4. \A l \in Lengths : l \in Nat
    BY SpanFacts
  <2> HIDE DEF n
  <2>5. ASSUME NEW j \in 1 .. k PROVE D[j] < D[j + 1]
    <3>1. PICK l \in Lengths : D[j + 1] = D[j] + 1 + l
      BY <2>1
    <3> QED BY <3>1, <2>3, <2>4, <1>0
  <2> QED BY <2>2, <2>3, <2>5
<1> DEFINE S == {i \in 0 .. k : D[i + 1] >= i /\ \A j \in 1 .. i : D[j + 1] <= D[i + 1]}
<1>2. 0 \in S
  BY <1>0 DEF Chain
<1>3. ASSUME NEW i \in 0 .. k - 1, i \in S PROVE i + 1 \in S
  <2>1. i + 1 \in 1 .. k /\ i + 1 \in 0 .. k /\ i \in 0 .. k
    BY <1>0
  <2>2. /\ D[i + 1] \in 0 .. n - 1 /\ D[(i + 1) + 1] \in 0 .. n - 1 /\ D[i + 1] < D[(i + 1) + 1]
        /\ D[i + 1] >= i /\ \A j \in 1 .. i : D[j + 1] <= D[i + 1]
    BY <1>1, <1>3, <2>1
  <2>3. D[(i + 1) + 1] >= i + 1
    BY <2>1, <2>2, <1>0
  <2>4. ASSUME NEW j \in 1 .. i + 1 PROVE D[j + 1] <= D[(i + 1) + 1]
    <3>1. j \in 1 .. k /\ D[j + 1] \in 0 .. n - 1
      <4>1. j \in 1 .. k
        BY <2>1, <1>0
      <4> QED BY <1>1, <4>1
    <3>2. j = i + 1 \/ j \in 1 .. i
      BY <2>1
    <3> QED BY <3>1, <3>2, <2>2, <1>0
  <2> QED BY <2>1, <2>3, <2>4
<1>4. \A i \in 0 .. k : i \in S
  <2> HIDE DEF S
  <2> QED BY <1>0, <1>2, <1>3, CountUp
<1>5. k \in S /\ D[k + 1] \in 0 .. n - 1
  <2>1. k \in 0 .. k /\ k + 1 \in 1 .. k + 1
    BY <1>0
  <2> HIDE DEF S
  <2> QED BY <1>0, <1>4, <2>1
<1>6. D[k + 1] >= k /\ \A j \in 1 .. k : D[j + 1] <= D[k + 1]
  BY <1>5
<1> HIDE DEF S
<1>7. ASSUME NEW j \in 1 .. k PROVE D[j] < D[k + 1] /\ Place(f, r, D[j]) # WriteOffset[f]
  <2>1. D[j] \in 0 .. n - 1 /\ D[k + 1] \in 0 .. n - 1 /\ D[j] < D[k + 1]
    <3>1. D[j] \in 0 .. n - 1 /\ D[j + 1] \in 0 .. n - 1 /\ D[j] < D[j + 1] /\ D[j + 1] <= D[k + 1]
      BY <1>1, <1>6
    <3> QED BY <3>1, <1>0, <1>5
  <2>2. Place(f, r, D[j]) # Place(f, r, D[k + 1])
    <3>1. D[j] # D[k + 1]
      BY <2>1, <1>0
    <3> QED BY <2>1, <3>1, PlaceFacts
  <2> QED BY <2>1, <2>2 DEF Chain
<1> QED BY <1>0, <1>1, <1>5, <1>6, <1>7

\* The function in UnreadOf satisfies its equation.
Row(f, senders, fuel, rest) ==
  [off \in Area(f) |->
     IF off = WriteOffset[f] THEN <<>>
     ELSE IF fuel = 0 \/ ~mem[f][off].magic THEN <<Blank>>
     ELSE (IF mem[f][off].SenderID \in senders THEN <<PacketAt(f, off)>> ELSE <<>>)
          \o rest[After(f, off)]]
IsParse(f, senders, t) == t = [fuel \in 0 .. Span(f) |-> Row(f, senders, fuel, t[fuel - 1])]

LEMMA ParseExists ==
  ASSUME NEW f \in Rings, NEW senders
  PROVE  \E t : IsParse(f, senders, t)
<1> DEFINE n == Span(f)
           S == {k \in 0 .. n : \E t : t = [m \in 0 .. k |-> Row(f, senders, m, t[m - 1])]}
<1>0. n \in Nat
  BY SpanFacts
<1>1. 0 \in S
  <2> DEFINE t == [m \in 0 .. 0 |-> Row(f, senders, 0, <<>>)]
  <2>1. \A m \in 0 .. 0 : Row(f, senders, 0, <<>>) = Row(f, senders, m, t[m - 1])
    <3>1. \A u, v : Row(f, senders, 0, u) = Row(f, senders, 0, v)
      BY DEF Row
    <3> QED BY <3>1
  <2> HIDE DEF Row
  <2>2. t = [m \in 0 .. 0 |-> Row(f, senders, m, t[m - 1])]
    BY <2>1
  <2> HIDE DEF t
  <2> QED BY <1>0, <2>2
<1>2. ASSUME NEW k \in 0 .. n - 1, k \in S PROVE k + 1 \in S
  <2>1. PICK t : t = [m \in 0 .. k |-> Row(f, senders, m, t[m - 1])]
    BY <1>2
  <2> DEFINE u == [m \in 0 .. k + 1 |-> IF m = k + 1 THEN Row(f, senders, k + 1, t[k]) ELSE t[m]]
  <2>2. k \in Nat /\ k + 1 \in 0 .. n
    BY <1>0
  <2>3. \A x, y : Row(f, senders, 0, x) = Row(f, senders, 0, y)
    BY DEF Row
  <2>4. ASSUME NEW m \in 0 .. k + 1 PROVE u[m] = Row(f, senders, m, u[m - 1])
    <3>1. CASE m = k + 1
      <4>1. u[m - 1] = t[k]
        BY <2>2, <3>1
      <4> QED BY <3>1, <4>1
    <3>2. CASE m = 0
      <4>1. u[0] = t[0] /\ t[0] = Row(f, senders, 0, t[0 - 1])
        BY <2>1, <2>2
      <4> HIDE DEF u
      <4> QED BY <3>2, <4>1, <2>3
    <3>3. CASE m \in 1 .. k
      <4>1. u[m] = t[m] /\ u[m - 1] = t[m - 1] /\ m \in 0 .. k
        BY <2>2, <3>3
      <4>2. t[m] = Row(f, senders, m, t[m - 1])
        BY <2>1, <4>1
      <4> HIDE DEF u
      <4> QED BY <4>1, <4>2
    <3> QED BY <2>2, <3>1, <3>2, <3>3
  <2>5. u = [m \in 0 .. k + 1 |-> u[m]]
    OBVIOUS
  <2> HIDE DEF u
  <2>6. u = [m \in 0 .. k + 1 |-> Row(f, senders, m, u[m - 1])]
    BY <2>4, <2>5
  <2> QED BY <2>2, <2>6
<1>3. \A k \in 0 .. n : k \in S
  <2> HIDE DEF S, n
  <2> QED BY <1>0, <1>1, <1>2, CountUp
<1>4. n \in S
  <2> HIDE DEF S
  <2> QED BY <1>0, <1>3
<1> QED BY <1>4 DEF IsParse

LEMMA ParseOf ==
  ASSUME NEW f \in Rings, NEW senders, NEW p
  PROVE  \E t : IsParse(f, senders, t) /\ UnreadOf(p, f, senders) = t[Span(f)][ReadOffset[p][f]]
<1> DEFINE t == CHOOSE t : IsParse(f, senders, t)
<1>1. IsParse(f, senders, t)
  BY ParseExists
<1>2. UnreadOf(p, f, senders) = t[Span(f)][ReadOffset[p][f]]
  BY DEF UnreadOf, IsParse, Row, Span
<1> HIDE DEF t
<1> QED BY <1>1, <1>2

\* The packets of a chain.
Packets(f, r, k, D) == [j \in 1 .. k |-> PacketAt(f, Place(f, r, D[j]))]

\* What UnreadOf yields for a reader that is a chain behind the writer.
UnreadLaw ==
  \A f \in Rings : \A p, senders, k, D :
    ReadOffset[p][f] \in Area(f) /\ Chain(f, ReadOffset[p][f], k, D) =>
      \E G : /\ Kept(G, Packets(f, ReadOffset[p][f], k, D), k, senders)
             /\ UnreadOf(p, f, senders) = G[1]

LEMMA UnreadIs == UnreadLaw
<1> SUFFICES ASSUME NEW f \in Rings, NEW p, NEW senders, NEW k, NEW D,
                    ReadOffset[p][f] \in Area(f), Chain(f, ReadOffset[p][f], k, D)
             PROVE  \E G : /\ Kept(G, Packets(f, ReadOffset[p][f], k, D), k, senders)
                           /\ UnreadOf(p, f, senders) = G[1]
  BY DEF UnreadLaw
<1> DEFINE r == ReadOffset[p][f]
           n == Span(f)
           s == Packets(f, r, k, D)
<1>1. PICK t : IsParse(f, senders, t) /\ UnreadOf(p, f, senders) = t[n][r]
  BY ParseOf
<1>2. /\ k \in Nat /\ n \in Nat /\ k <= n - 1 /\ D[1] = 0
      /\ WriteOffset[f] = Place(f, r, D[k + 1])
      /\ D[k + 1] \in 0 .. n - 1
  <2>1. k \in Nat /\ k <= D[k + 1] /\ D[k + 1] \in 0 .. n - 1
    BY ChainGrows
  <2>2. n \in Nat /\ D[1] = 0 /\ WriteOffset[f] = Place(f, r, D[k + 1])
    BY SpanFacts DEF Chain
  <2> QED BY <2>1, <2>2
<1> DEFINE G == [j \in 1 .. k + 1 |-> t[n + 1 - j][Place(f, r, D[j])]]
<1>3. ASSUME NEW j \in 1 .. k
      PROVE  /\ Place(f, r, D[j]) \in Area(f) /\ Place(f, r, D[j]) # WriteOffset[f]
             /\ mem[f][Place(f, r, D[j])].magic
             /\ After(f, Place(f, r, D[j])) = Place(f, r, D[j + 1])
  <2> DEFINE o == Place(f, r, D[j])
             l == mem[f][o].Length
  <2>1. /\ D[j] \in 0 .. n - 1 /\ D[j + 1] \in 0 .. n - 1 /\ o # WriteOffset[f]
        /\ mem[f][o].magic /\ l \in Lengths /\ D[j + 1] = D[j] + 1 + l
    BY ChainGrows DEF Chain
  <2>2. o \in Area(f)
    BY <2>1, <1>2, PlaceFacts
  <2> HIDE DEF o
  <2>3. After(f, o) = Place(f, o, 1 + l)
    BY <2>1, <2>2, Onward DEF After
  <2>4. Place(f, o, 1 + l) = Place(f, r, D[j + 1])
    <3>1. l \in Nat
      BY <2>1, SpanFacts
    <3>2. D[j] \in Nat /\ 1 + l \in Nat /\ D[j] + (1 + l) <= Span(f) /\ D[j + 1] = D[j] + (1 + l)
      BY <2>1, <3>1, <1>2
    <3>3. Place(f, Place(f, r, D[j]), 1 + l) = Place(f, r, D[j] + (1 + l))
      BY <3>2, PlaceFacts
    <3> QED BY <3>2, <3>3 DEF o
  <2> QED BY <2>1, <2>2, <2>3, <2>4 DEF o
<1>4. \A fuel \in 0 .. n : t[fuel] = Row(f, senders, fuel, t[fuel - 1])
  <2> HIDE DEF n
  <2>1. t = [fuel \in 0 .. n |-> Row(f, senders, fuel, t[fuel - 1])]
    BY <1>1 DEF IsParse, n
  <2> QED BY <2>1
<1>5. G[k + 1] = <<>>
  <2>1. n + 1 - (k + 1) = n - k /\ n - k \in 0 .. n /\ k + 1 \in 1 .. k + 1
    BY <1>2
  <2>2. WriteOffset[f] \in Area(f)
    BY <1>2, PlaceFacts
  <2>3. Row(f, senders, n - k, t[n - k - 1])[WriteOffset[f]] = <<>>
    BY <2>2 DEF Row
  <2> QED BY <1>2, <1>4, <2>1, <2>3
<1>6. ASSUME NEW j \in 1 .. k PROVE G[j] = One(s[j], senders) \o G[j + 1]
  <2> DEFINE o == Place(f, r, D[j])
  <2>1. /\ n + 1 - j \in 0 .. n /\ n + 1 - j # 0 /\ n + 1 - (j + 1) = (n + 1 - j) - 1
        /\ j \in 1 .. k + 1 /\ j + 1 \in 1 .. k + 1
    BY <1>2
  <2>2. /\ o \in Area(f) /\ o # WriteOffset[f] /\ mem[f][o].magic
        /\ After(f, o) = Place(f, r, D[j + 1])
    BY <1>3
  <2>3. s[j] = PacketAt(f, o) /\ PacketAt(f, o).h = mem[f][o]
    BY DEF Packets, PacketAt
  <2>4. G[j] = t[n + 1 - j][o] /\ G[j + 1] = t[(n + 1 - j) - 1][Place(f, r, D[j + 1])]
    BY <2>1
  <2> HIDE DEF o, G, s
  <2>5. Row(f, senders, n + 1 - j, t[(n + 1 - j) - 1])[o]
          = One(PacketAt(f, o), senders) \o t[(n + 1 - j) - 1][After(f, o)]
    BY <2>1, <2>2, <2>3 DEF Row, One
  <2> QED BY <1>4, <2>1, <2>2, <2>3, <2>4, <2>5
<1>7. Kept(G, s, k, senders)
  BY <1>5, <1>6 DEF Kept
<1>8. UnreadOf(p, f, senders) = G[1]
  <2>1. n + 1 - 1 = n /\ Place(f, r, 0) = r /\ 1 \in 1 .. k + 1
    BY <1>2, PlaceFacts
  <2> QED BY <1>1, <1>2, <2>1
<1> HIDE DEF G
<1> QED BY <1>7, <1>8

\* A header that can be read is followed by its payload.
PacketLaw ==
  MPTypes /\ HeadersWhole =>
    \A f \in Rings : \A o \in Area(f) :
      mem[f][o].magic => PacketAt(f, o) = [h |-> mem[f][o], body |-> Body(mem[f][o])]

LEMMA PacketIs == PacketLaw
<1> SUFFICES ASSUME MPTypes, HeadersWhole, NEW f \in Rings, NEW o \in Area(f), mem[f][o].magic
             PROVE  PacketAt(f, o) = [h |-> mem[f][o], body |-> Body(mem[f][o])]
  BY DEF PacketLaw
<1> DEFINE l == mem[f][o].Length
<1>1. l \in Lengths /\ l \in Nat /\ 1 + l <= Span(f) /\ Span(f) \in Nat
  BY SpanFacts DEF MPTypes, RingsOK, CellOK
<1>2. \A k \in 1 .. l : mem[f][Place(f, o, k)] = Body(mem[f][o])[k]
  BY DEF HeadersWhole, WholeAt
<1>3. NextOffset(f, o, 1) = Place(f, o, 1)
  BY <1>1, Onward
<1>4. \A k \in 1 .. l : Place(f, Place(f, o, 1), k - 1) = Place(f, o, k)
  <2>1. \A k \in 1 .. l : 1 \in Nat /\ k - 1 \in Nat /\ 1 + (k - 1) <= Span(f) /\ 1 + (k - 1) = k
    BY <1>1
  <2>2. \A k \in 1 .. l : Place(f, Place(f, o, 1), k - 1) = Place(f, o, 1 + (k - 1))
    BY <2>1, PlaceFacts
  <2> QED BY <2>1, <2>2
<1>5. FIFORead(f, Place(f, o, 1), l) = Body(mem[f][o])
  <2>1. FIFORead(f, Place(f, o, 1), l) = [k \in 1 .. l |-> mem[f][Place(f, Place(f, o, 1), k - 1)]]
    BY DEF FIFORead
  <2>2. Body(mem[f][o]) = [k \in 1 .. l |-> Body(mem[f][o])[k]]
    BY DEF Body
  <2> HIDE DEF l
  <2>3. \A k \in 1 .. l : mem[f][Place(f, Place(f, o, 1), k - 1)] = Body(mem[f][o])[k]
    BY <1>2, <1>4
  <2> QED BY <2>1, <2>2, <2>3
<1> QED BY <1>3, <1>5 DEF PacketAt

\* Nothing to read.
LEMMA ChainEmpty ==
  ASSUME NEW f \in Rings, WriteOffset[f] \in Area(f)
  PROVE  Chain(f, WriteOffset[f], 0, [j \in 1 .. 1 |-> 0])
  BY SpanFacts, PlaceFacts DEF Chain

\* A packet written behind a chain that leaves room for it.
Extends(f, r, k, D, h) ==
  \E E : /\ Chain(f, r, k + 1, E)' /\ E[k + 2] = D[k + 1] + 1 + h.Length
         /\ \A j \in 1 .. k : Packets(f, r, k + 1, E)'[j] = Packets(f, r, k, D)[j]
         /\ Packets(f, r, k + 1, E)'[k + 1] = [h |-> h, body |-> Body(h)]

LEMMA ChainAppended ==
  ASSUME MPTypes, HeadersWhole, shm = "ready", shm' = "ready", MPTypes',
         NEW f \in Rings, NEW h, h.magic = TRUE, h.Length \in Lengths, PutPacket(f, h),
         NEW r \in Area(f), NEW k, NEW D, Chain(f, r, k, D), D[k + 1] + 1 + h.Length < Span(f)
  PROVE  Extends(f, r, k, D, h)
<1> DEFINE n == Span(f)
           len == h.Length
           b == D[k + 1]
           E == [j \in 1 .. k + 2 |-> IF j = k + 2 THEN b + 1 + len ELSE D[j]]
<1>1. /\ n \in Nat /\ k \in Nat /\ b \in 0 .. n - 1 /\ len \in Nat /\ b + 1 + len < n
      /\ \A j \in 1 .. k : D[j] \in 0 .. n - 1 /\ D[j] < b
  <2>1. k \in Nat /\ b \in 0 .. n - 1 /\ \A j \in 1 .. k : D[j] \in 0 .. n - 1 /\ D[j] < b
    BY ChainGrows
  <2> QED BY <2>1, SpanFacts
<1>2. PICK w \in Area(f) : w = WriteOffset[f] /\ w = Place(f, r, b)
  BY <1>1, PlaceFacts DEF Chain
<1>3. /\ mem'[f][w] = h
      /\ \A d \in 1 + len .. n - 1 : mem'[f][Place(f, w, d)] = mem[f][Place(f, w, d)]
      /\ WriteOffset'[f] = Place(f, w, 1 + len)
  <2>1. /\ mem'[f][WriteOffset[f]] = h
        /\ \A d \in 1 + len .. n - 1 :
             mem'[f][Place(f, WriteOffset[f], d)] = mem[f][Place(f, WriteOffset[f], d)]
        /\ WriteOffset'[f] = Place(f, WriteOffset[f], 1 + len)
    BY PutWrites
  <2> HIDE DEF n, len
  <2> QED BY <2>1, <1>2
<1>4. \A j \in 1 .. k : mem'[f][Place(f, r, D[j])] = mem[f][Place(f, r, D[j])]
  <2> SUFFICES ASSUME NEW j \in 1 .. k PROVE mem'[f][Place(f, r, D[j])] = mem[f][Place(f, r, D[j])]
    OBVIOUS
  <2>1. Place(f, w, n - b) = r
    <3>1. b \in Nat /\ n - b \in Nat /\ b + (n - b) <= n /\ b + (n - b) = n
      BY <1>1
    <3>2. Place(f, Place(f, r, b), n - b) = Place(f, r, b + (n - b))
      BY <3>1, PlaceFacts
    <3> QED BY <3>1, <3>2, <1>2, PlaceFacts
  <2>2. /\ n - b \in Nat /\ D[j] \in Nat /\ (n - b) + D[j] <= n
        /\ (n - b) + D[j] \in 1 + len .. n - 1
    BY <1>1
  <2>3. Place(f, r, D[j]) = Place(f, w, (n - b) + D[j])
    <3>1. Place(f, Place(f, w, n - b), D[j]) = Place(f, w, (n - b) + D[j])
      BY <1>2, <2>2, PlaceFacts
    <3> QED BY <2>1, <3>1
  <2> QED BY <1>3, <2>2, <2>3
<1>5. /\ \A j \in 1 .. k + 1 : E[j] = D[j]
      /\ E[k + 2] = b + 1 + len /\ E \in [1 .. k + 2 -> 0 .. n - 1] /\ (k + 1) + 1 = k + 2
  <2>1. \A j \in 1 .. k + 1 : D[j] \in 0 .. n - 1 /\ j # k + 2 /\ j \in 1 .. k + 2
    BY <1>1
  <2>2. \A j \in 1 .. k + 2 : j = k + 2 \/ j \in 1 .. k + 1
    BY <1>1
  <2>3. b + 1 + len \in 0 .. n - 1 /\ k + 2 \in 1 .. k + 2
    BY <1>1
  <2> HIDE DEF n, b, len
  <2> QED BY <1>1, <2>1, <2>2, <2>3
<1>6. Place(f, w, 1 + len) = Place(f, r, b + 1 + len)
  <2>1. b \in Nat /\ 1 + len \in Nat /\ b + (1 + len) <= n /\ b + (1 + len) = b + 1 + len
    BY <1>1
  <2>2. Place(f, Place(f, r, b), 1 + len) = Place(f, r, b + (1 + len))
    BY <2>1, PlaceFacts
  <2> QED BY <1>2, <2>1, <2>2
<1> HIDE DEF E
<1>7. ASSUME NEW j \in 1 .. k + 1
      PROVE  LET c == mem'[f][Place(f, r, E[j])]
             IN  /\ c.magic /\ c.Length \in Lengths /\ E[j + 1] = E[j] + 1 + c.Length
                 /\ (j \in 1 .. k => c = mem[f][Place(f, r, D[j])]) /\ (j = k + 1 => c = h)
  <2>1. CASE j \in 1 .. k
    <3>1. E[j] = D[j] /\ E[j + 1] = D[j + 1] /\ j # k + 1
      BY <1>1, <1>5, <2>1
    <3> QED BY <3>1, <2>1, <1>4 DEF Chain
  <2>2. CASE j = k + 1
    <3>1. E[j] = b /\ E[j + 1] = b + 1 + len /\ ~(j \in 1 .. k)
      BY <1>1, <1>5, <2>2
    <3>2. mem'[f][Place(f, r, E[j])] = h
      BY <3>1, <1>2, <1>3
    <3> QED BY <3>1, <3>2
  <2> QED BY <1>1, <2>1, <2>2
<1>8. Chain(f, r, k + 1, E)'
  <2>1. k + 1 \in Nat /\ E[1] = 0 /\ 1 \in 1 .. k + 1
    BY <1>1, <1>5 DEF Chain
  <2> QED BY <2>1, <1>3, <1>5, <1>6, <1>7 DEF Chain
<1>9. PacketLaw /\ PacketLaw' /\ HeadersWhole'
  <2>1. PacketLaw'
    BY PacketIs, PTL
  <2> QED BY <2>1, PacketIs, PutKeepsWhole
<1>10. \A j \in 1 .. k + 1 : Place(f, r, E[j]) \in Area(f)
  BY <1>5, <1>1, PlaceFacts
<1>11. ASSUME NEW j \in 1 .. k + 1
       PROVE  Packets(f, r, k + 1, E)'[j] = LET c == mem'[f][Place(f, r, E[j])] IN [h |-> c, body |-> Body(c)]
  <2> DEFINE o == Place(f, r, E[j])
  <2>1. o \in Area(f) /\ mem'[f][o].magic
    BY <1>7, <1>10
  <2>2. PacketAt(f, o)' = [h |-> mem'[f][o], body |-> Body(mem'[f][o])]
    BY <2>1, <1>9 DEF PacketLaw
  <2>3. Packets(f, r, k + 1, E)'[j] = PacketAt(f, o)'
    BY DEF Packets
  <2> QED BY <2>2, <2>3
<1>12. ASSUME NEW j \in 1 .. k
       PROVE  Packets(f, r, k, D)[j] = LET c == mem[f][Place(f, r, D[j])] IN [h |-> c, body |-> Body(c)]
  <2> DEFINE o == Place(f, r, D[j])
  <2>1. o \in Area(f)
    <3>1. D[j] \in 0 .. n
      BY <1>1
    <3> QED BY <3>1, PlaceFacts
  <2>2. mem[f][o].magic
    BY DEF Chain
  <2>3. PacketAt(f, o) = [h |-> mem[f][o], body |-> Body(mem[f][o])]
    BY <2>1, <2>2, <1>9 DEF PacketLaw
  <2> QED BY <2>3 DEF Packets
<1>13. \A j \in 1 .. k : Packets(f, r, k + 1, E)'[j] = Packets(f, r, k, D)[j]
  <2>1. \A j \in 1 .. k : j \in 1 .. k + 1
    BY <1>1
  <2> QED BY <2>1, <1>7, <1>11, <1>12
<1>14. Packets(f, r, k + 1, E)'[k + 1] = [h |-> h, body |-> Body(h)]
  <2>1. k + 1 \in 1 .. k + 1
    BY <1>1
  <2> QED BY <2>1, <1>7, <1>11
<1> QED BY <1>5, <1>8, <1>13, <1>14 DEF Extends

\* A chain without its first packet.
LEMMA ChainShortened ==
  ASSUME NEW f \in Rings, NEW r \in Area(f), NEW k \in Nat, NEW D, Chain(f, r, k + 1, D)
  PROVE  LET l == mem[f][r].Length
             s == Place(f, r, 1 + l)
         IN  /\ mem[f][r].magic /\ l \in Lengths /\ s \in Area(f)
             /\ Packets(f, r, k + 1, D)[1] = PacketAt(f, r)
             /\ \E E : /\ Chain(f, s, k, E) /\ E[k + 1] <= D[k + 2]
                       /\ \A j \in 1 .. k : Packets(f, s, k, E)[j] = Packets(f, r, k + 1, D)[j + 1]
<1> DEFINE n == Span(f)
           l == mem[f][r].Length
           s == Place(f, r, 1 + l)
           E == [j \in 1 .. k + 1 |-> D[j + 1] - D[2]]
<1>1. n \in Nat /\ n > 1 /\ 1 \in 1 .. k + 1 /\ (k + 1) + 1 = k + 2 /\ Place(f, r, 0) = r
  BY SpanFacts, PlaceFacts
<1>2. \A j \in 1 .. k + 1 : D[j] \in 0 .. n - 1 /\ D[j + 1] \in 0 .. n - 1 /\ D[j] < D[j + 1]
                            /\ D[j + 1] <= D[k + 2]
  BY <1>1, ChainGrows
<1>3. /\ D[1] = 0 /\ WriteOffset[f] = Place(f, r, D[k + 2])
      /\ \A j \in 1 .. k + 1 : LET h == mem[f][Place(f, r, D[j])]
                               IN  h.magic /\ h.Length \in Lengths /\ D[j + 1] = D[j] + 1 + h.Length
  BY <1>1 DEF Chain
<1>4. mem[f][r].magic /\ l \in Lengths /\ l \in Nat /\ D[2] = 1 + l /\ D[2] \in 0 .. n - 1
  <2>1. mem[f][r].magic /\ l \in Lengths /\ D[1 + 1] = D[1] + 1 + l
    BY <1>1, <1>3
  <2>2. l \in Nat /\ 1 + 1 = 2
    BY <2>1, SpanFacts
  <2> QED BY <1>1, <1>2, <1>3, <2>1, <2>2
<1>5. s \in Area(f) /\ s = Place(f, r, D[2])
  <2>1. D[2] \in 0 .. n
    BY <1>1, <1>4
  <2> QED BY <1>4, <2>1, PlaceFacts
<1> HIDE DEF s
<1>6. ASSUME NEW j \in 1 .. k + 1 PROVE D[2] <= D[j + 1] /\ D[j + 1] - D[2] \in 0 .. n - 1
  <2> DEFINE S == {i \in 0 .. k : D[2] <= D[i + 2]}
  <2>1. 0 \in S
    BY <1>4
  <2>2. ASSUME NEW i \in 0 .. k - 1, i \in S PROVE i + 1 \in S
    <3>1. i + 2 \in 1 .. k + 1 /\ (i + 2) + 1 = (i + 1) + 2 /\ i + 1 \in 0 .. k
      OBVIOUS
    <3>2. D[i + 2] < D[(i + 1) + 2] /\ D[i + 2] \in 0 .. n - 1 /\ D[(i + 1) + 2] \in 0 .. n - 1
      BY <1>2, <3>1
    <3> QED BY <1>1, <1>4, <2>2, <3>1, <3>2
  <2>3. \A i \in 0 .. k : i \in S
    <3> HIDE DEF S
    <3> QED BY <2>1, <2>2, CountUp
  <2>4. j - 1 \in 0 .. k /\ (j - 1) + 2 = j + 1
    OBVIOUS
  <2>5. D[2] <= D[j + 1]
    BY <2>3, <2>4
  <2> QED BY <1>1, <1>2, <1>4, <2>5
<1>7. /\ E \in [1 .. k + 1 -> 0 .. n - 1] /\ E[1] = 0 /\ E[k + 1] = D[k + 2] - D[2]
      /\ \A j \in 1 .. k + 1 : E[j] = D[j + 1] - D[2]
  <2>1. 1 + 1 = 2 /\ D[2] - D[2] = 0 /\ k + 1 \in 1 .. k + 1
    BY <1>4
  <2> QED BY <1>1, <1>6, <2>1
<1> HIDE DEF E
<1>8. \A j \in 1 .. k + 1 : Place(f, s, E[j]) = Place(f, r, D[j + 1])
  <2> SUFFICES ASSUME NEW j \in 1 .. k + 1 PROVE Place(f, s, E[j]) = Place(f, r, D[j + 1])
    OBVIOUS
  <2>1. /\ D[2] \in Nat /\ E[j] \in Nat /\ D[2] + E[j] <= n /\ D[2] + E[j] = D[j + 1]
    <3>1. D[j + 1] \in 0 .. n - 1 /\ D[2] <= D[j + 1] /\ E[j] = D[j + 1] - D[2]
      BY <1>2, <1>6, <1>7
    <3> HIDE DEF n
    <3> QED BY <3>1, <1>1, <1>4
  <2>2. Place(f, Place(f, r, D[2]), E[j]) = Place(f, r, D[2] + E[j])
    BY <2>1, PlaceFacts
  <2> QED BY <1>5, <2>1, <2>2
<1>9. Chain(f, s, k, E)
  <2>1. WriteOffset[f] = Place(f, s, E[k + 1])
    <3>1. k + 1 \in 1 .. k + 1
      OBVIOUS
    <3> QED BY <1>1, <1>3, <1>8, <3>1
  <2>2. ASSUME NEW j \in 1 .. k
        PROVE  LET h == mem[f][Place(f, s, E[j])]
               IN  h.magic /\ h.Length \in Lengths /\ E[j + 1] = E[j] + 1 + h.Length
    <3>1. j \in 1 .. k + 1 /\ j + 1 \in 1 .. k + 1
      OBVIOUS
    <3> DEFINE h == mem[f][Place(f, s, E[j])]
    <3>2. h.magic /\ h.Length \in Lengths /\ D[(j + 1) + 1] = D[j + 1] + 1 + h.Length
      BY <1>3, <1>8, <3>1
    <3>3. h.Length \in Nat
      BY <3>2, SpanFacts
    <3>4. E[j] = D[j + 1] - D[2] /\ E[j + 1] = D[(j + 1) + 1] - D[2] /\ D[j + 1] \in Nat
      BY <1>2, <1>7, <3>1
    <3> HIDE DEF h
    <3>5. E[j + 1] = E[j] + 1 + h.Length
      BY <1>4, <3>2, <3>3, <3>4
    <3> QED BY <3>2, <3>5 DEF h
  <2> QED BY <1>7, <2>1, <2>2 DEF Chain
<1>10. E[k + 1] <= D[k + 2]
  <2>1. D[k + 2] \in 0 .. n - 1
    <3>1. k + 1 \in 1 .. k + 1
      OBVIOUS
    <3> QED BY <1>1, <1>2, <3>1
  <2> QED BY <1>7, <2>1, <1>4
<1>11. \A j \in 1 .. k : Packets(f, s, k, E)[j] = Packets(f, r, k + 1, D)[j + 1]
  <2>1. \A j \in 1 .. k : j \in 1 .. k + 1 /\ j + 1 \in 1 .. k + 1
    OBVIOUS
  <2> QED BY <1>8, <2>1 DEF Packets
<1>12. Packets(f, r, k + 1, D)[1] = PacketAt(f, r)
  BY <1>1, <1>3 DEF Packets
<1> QED BY <1>4, <1>5, <1>9, <1>10, <1>11, <1>12 DEF s

-----------------------------------------------------------------------------
(* Frames and wakeups *)

\* Reader p is k packets behind, and no more cells than the senders leave it.
Behind(p, k, D) ==
  Chain(Packet, ReadOffset[p][Packet], k, D) /\ D[k + 1] <= MaxBacklog
Waiting(p, k, D) == Packets(Packet, ReadOffset[p][Packet], k, D)

\* A sender leaves its readers less than a ring behind, and no more packets than
\* a semaphore counts.
ReadersKeepUp == MaxBacklog < Span(Packet) /\ MaxBacklog <= SemMax

\* Nobody writes frames and q does not read.
LEMMA StaysBehind ==
  ASSUME mem'[Packet] = mem[Packet], WriteOffset'[Packet] = WriteOffset[Packet],
         NEW q, ReadOffset'[q][Packet] = ReadOffset[q][Packet], NEW k, NEW D, Behind(q, k, D)
  PROVE  Behind(q, k, D)' /\ Waiting(q, k, D)' = Waiting(q, k, D)
<1>1. Behind(q, k, D)'
  BY DEF Behind, Chain
<1>2. Waiting(q, k, D)' = Waiting(q, k, D)
  BY DEF Waiting, Packets, PacketAt, FIFORead
<1> QED BY <1>1, <1>2

\* q's packets, and h as the last.
Joins(q, k, D, h) ==
  \E E : /\ Behind(q, k + 1, E)'
         /\ \A j \in 1 .. k : Waiting(q, k + 1, E)'[j] = Waiting(q, k, D)[j]
         /\ Waiting(q, k + 1, E)'[k + 1] = [h |-> h, body |-> Body(h)]

\* A frame is sent.
LEMMA FallsBehind ==
  ASSUME MPTypes, HeadersWhole, shm = "ready", shm' = "ready", MPTypes', ReadersKeepUp,
         NEW h, h.magic = TRUE, h.Length \in Lengths, PutPacket(Packet, h), Fits(Packet, h.Length),
         NEW q \in Procs, PowerOn[q], ReadOffset'[q][Packet] = ReadOffset[q][Packet],
         NEW k, NEW D, Behind(q, k, D)
  PROVE  Joins(q, k, D, h)
<1>1. Packet \in Rings /\ Packet # Reply
  BY DEF Rings, Packet, Reply
<1>2. PICK r \in Area(Packet) : r = ReadOffset[q][Packet] /\ r = ReadOffset'[q][Packet]
  BY <1>1 DEF MPTypes, Attached
<1>3. Chain(Packet, r, k, D) /\ D[k + 1] <= MaxBacklog
  BY <1>2 DEF Behind
<1>4. D[k + 1] \in 0 .. Span(Packet) - 1 /\ k \in Nat /\ Backlog(q, Packet) = D[k + 1]
  <2>1. D[k + 1] \in 0 .. Span(Packet) - 1 /\ k \in Nat
    BY <1>1, <1>3, ChainGrows
  <2>2. WriteOffset[Packet] = Place(Packet, ReadOffset[q][Packet], D[k + 1])
    BY <1>2, <1>3 DEF Chain
  <2> QED BY <1>1, <1>2, <2>1, <2>2, BacklogIs
<1>5. D[k + 1] + 1 + h.Length <= MaxBacklog
  BY <1>1, <1>4 DEF Fits
<1>6. D[k + 1] + 1 + h.Length < Span(Packet)
  <2>1. Span(Packet) \in Nat /\ h.Length \in Nat
    BY <1>1, SpanFacts
  <2> QED BY <1>4, <1>5, <2>1, BoundsAssumption DEF ReadersKeepUp, BoundsAssumption
<1>7. PICK E : /\ Chain(Packet, r, k + 1, E)' /\ E[k + 2] = D[k + 1] + 1 + h.Length
               /\ \A j \in 1 .. k : Packets(Packet, r, k + 1, E)'[j] = Packets(Packet, r, k, D)[j]
               /\ Packets(Packet, r, k + 1, E)'[k + 1] = [h |-> h, body |-> Body(h)]
  <2>1. Extends(Packet, r, k, D, h)
    BY <1>1, <1>3, <1>6, ChainAppended
  <2> QED BY <2>1 DEF Extends
<1>8. (k + 1) + 1 = k + 2
  BY <1>4
<1>9. Behind(q, k + 1, E)'
  BY <1>2, <1>5, <1>7, <1>8 DEF Behind
<1>10. Waiting(q, k + 1, E)' = Packets(Packet, r, k + 1, E)' /\ Waiting(q, k, D) = Packets(Packet, r, k, D)
  BY <1>2 DEF Waiting
<1> QED BY <1>7, <1>9, <1>10 DEF Joins

\* A frame is read.
LEMMA CatchesUp ==
  ASSUME MPTypes, mem' = mem, WriteOffset' = WriteOffset, NEW q \in Procs, PowerOn[q],
         NEW k \in Nat, NEW D, Behind(q, k + 1, D),
         ReadOffset'[q][Packet] = Place(Packet, ReadOffset[q][Packet],
                                        1 + mem[Packet][ReadOffset[q][Packet]].Length)
  PROVE  /\ mem[Packet][ReadOffset[q][Packet]].magic
         /\ Waiting(q, k + 1, D)[1] = PacketAt(Packet, ReadOffset[q][Packet])
         /\ \E E : /\ Behind(q, k, E)'
                   /\ \A j \in 1 .. k : Waiting(q, k, E)'[j] = Waiting(q, k + 1, D)[j + 1]
<1>1. Packet \in Rings
  BY DEF Rings
<1>2. PICK r \in Area(Packet) : r = ReadOffset[q][Packet]
  BY <1>1 DEF MPTypes, Attached
<1> DEFINE s == Place(Packet, r, 1 + mem[Packet][r].Length)
<1>3. Chain(Packet, r, k + 1, D) /\ D[k + 2] <= MaxBacklog /\ D[k + 2] \in 0 .. Span(Packet) - 1
  <2>1. (k + 1) + 1 = k + 2 /\ Chain(Packet, r, k + 1, D)
    BY <1>2 DEF Behind
  <2>2. D[(k + 1) + 1] \in 0 .. Span(Packet) - 1
    BY <1>1, <2>1, ChainGrows
  <2> QED BY <2>1, <2>2 DEF Behind
<1>4. /\ mem[Packet][r].magic /\ s \in Area(Packet)
      /\ Packets(Packet, r, k + 1, D)[1] = PacketAt(Packet, r)
      /\ \E E : /\ Chain(Packet, s, k, E) /\ E[k + 1] <= D[k + 2]
                /\ \A j \in 1 .. k : Packets(Packet, s, k, E)[j] = Packets(Packet, r, k + 1, D)[j + 1]
  BY <1>1, <1>3, ChainShortened
<1>5. PICK t \in Area(Packet) : t = s
  BY <1>4
<1> HIDE DEF s
<1>6. PICK E : /\ Chain(Packet, t, k, E) /\ E[k + 1] <= D[k + 2]
               /\ \A j \in 1 .. k : Packets(Packet, t, k, E)[j] = Packets(Packet, r, k + 1, D)[j + 1]
  BY <1>4, <1>5
<1>7. Chain(Packet, t, k, E)' /\ Packets(Packet, t, k, E)' = Packets(Packet, t, k, E)
  <2>1. Chain(Packet, t, k, E)'
    BY <1>6 DEF Chain
  <2>2. Packets(Packet, t, k, E)' = Packets(Packet, t, k, E)
    BY DEF Packets, PacketAt, FIFORead
  <2> QED BY <2>1, <2>2
<1>8. E[k + 1] <= MaxBacklog
  <2>1. E[k + 1] \in 0 .. Span(Packet) - 1 /\ Span(Packet) \in Nat
    BY <1>1, <1>6, ChainGrows, SpanFacts
  <2> QED BY <1>3, <1>6, <2>1, BoundsAssumption DEF BoundsAssumption
<1>9. ReadOffset'[q][Packet] = t
  BY <1>2, <1>5 DEF s
<1>10. Behind(q, k, E)' /\ Waiting(q, k, E)' = Packets(Packet, t, k, E)
  <2>1. Behind(q, k, E)'
    BY <1>7, <1>8, <1>9 DEF Behind
  <2>2. Waiting(q, k, E)' = Packets(Packet, t, k, E)
    BY <1>7, <1>9 DEF Waiting
  <2> QED BY <2>1, <2>2
<1>11. Waiting(q, k + 1, D) = Packets(Packet, r, k + 1, D)
  BY <1>2 DEF Waiting
<1> QED BY <1>2, <1>4, <1>6, <1>10, <1>11

\* For each packet that a reader is behind, a wakeup.
Lagging(q) == \E k, D : Behind(q, k, D) /\ FramesDue(q) = k
OneEach == \A q \in Procs : PowerOn[q] => Lagging(q)

\* Whom the senders will wake.
Connections == \A q \in Procs : PowerOn[q] => InstanceID[q] \in ConnectedBitmask

Posters(i) == {s \in Procs : pc[s] = "post" /\ i \in pend[s]}

\* Nothing that concerns q's frames has changed.
Undisturbed(q) ==
  /\ mem'[Packet] = mem[Packet] /\ WriteOffset'[Packet] = WriteOffset[Packet]
  /\ ReadOffset'[q][Packet] = ReadOffset[q][Packet] /\ InstanceID'[q] = InstanceID[q]
  /\ sem'[<<Packet, InstanceID[q]>>] = sem[<<Packet, InstanceID[q]>>]
  /\ pend' = pend /\ \A s \in Procs : pc'[s] = "post" <=> pc[s] = "post"
  /\ pc'[q] = "got" <=> pc[q] = "got"

LEMMA LagStays ==
  ASSUME NEW q \in Procs, Undisturbed(q), Lagging(q)
  PROVE  Lagging(q)'
<1>1. PICK k, D : Behind(q, k, D) /\ FramesDue(q) = k
  BY DEF Lagging
<1>2. Behind(q, k, D)'
  BY <1>1, StaysBehind DEF Undisturbed
<1>3. FramesDue(q)' = FramesDue(q)
  <2>1. \A i : InFlight(i)' = InFlight(i)
    <3> SUFFICES ASSUME NEW i PROVE InFlight(i)' = InFlight(i)
      OBVIOUS
    <3>1. {s \in Procs : pc'[s] = "post" /\ i \in pend'[s]} = {s \in Procs : pc[s] = "post" /\ i \in pend[s]}
      BY DEF Undisturbed
    <3> QED BY <3>1 DEF InFlight
  <2>2. InFlight(InstanceID[q])' = InFlight(InstanceID[q])
    <3>1. PICK i : i = InstanceID[q] /\ i = InstanceID'[q]
      BY DEF Undisturbed
    <3>2. InFlight(i)' = InFlight(i)
      BY <2>1
    <3> QED BY <3>1, <3>2 DEF InFlight
  <2> QED BY <2>2 DEF FramesDue, Undisturbed
<1>4. FramesDue(q)' = k
  BY <1>1, <1>3
<1> QED BY <1>2, <1>4 DEF Lagging

\* Two instances that are there have two IDs.
LEMMA Apart ==
  ASSUME MPTypes, MembersInv, NEW p \in Procs, pc[p] \notin {"off", "create", "format", "join"},
         NEW q \in Procs, PowerOn[q], q # p
  PROVE  InstanceID[q] # InstanceID[p]
  BY DEF MPTypes, Attached, MembersInv, InstancesPresent, Running

LEMMA SemIs ==
  ASSUME MPTypes, NEW i \in IDs
  PROVE  /\ <<Packet, i>> \in Sems /\ <<Reply, i>> \in Sems
         /\ \A j : <<Packet, i>> # <<Reply, j>>
         /\ sem[<<Packet, i>>] \in 0 .. SemMax /\ sem[<<Packet, i>>] \in Nat
  BY BoundsAssumption DEF MPTypes, Segment, Sems, Rings, Packet, Reply, BoundsAssumption

\* Steps that neither write frames nor post, take or read any.
LEMMA AsideKeepsLag ==
  ASSUME MPTypes, MembersInv, OneEach, NEW p \in Procs,
         \/ Attach(p) \/ Join(p) \/ DeInit(p) \/ End(p) \/ WifiReset(p)
         \/ \E len \in Lengths : SendReply(p, len)
         \/ PostReply(p) \/ RecvStart(p) \/ HostGone(p)
         \/ \E aids \in SUBSET (Procs \ {0}) : RepliesStart(p, aids)
         \/ RepliesWait(p) \/ RecvReply(p)
  PROVE  /\ OneEach'
         /\ \A q \in Procs : PowerOn'[q] => PowerOn[q] /\ Undisturbed(q)
<1>1. /\ mem'[Packet] = mem[Packet] /\ WriteOffset'[Packet] = WriteOffset[Packet] /\ pend' = pend
      /\ \A q \in Procs : PowerOn'[q] => PowerOn[q]
      /\ \A q \in Procs : PowerOn[q] =>
            ReadOffset'[q][Packet] = ReadOffset[q][Packet] /\ InstanceID'[q] = InstanceID[q]
  <2> USE DEF members, rings, locals, wifi, counts
  <2>0. pc[p] = "join" => ~PowerOn[p]
    BY DEF MPTypes, Attached
  <2>1. CASE Attach(p) \/ DeInit(p) \/ End(p) \/ WifiReset(p)
    BY <2>1 DEF Attach, DeInit, End, WifiReset, MPTypes, Processes
  <2>2. CASE Join(p)
    <3>1. ~PowerOn[p] /\ UNCHANGED <<mem, WriteOffset, pend, PowerOn>>
      BY <2>0, <2>2 DEF Join
    <3>2. \A q \in Procs : q # p => ReadOffset'[q] = ReadOffset[q] /\ InstanceID'[q] = InstanceID[q]
      BY <2>2 DEF Join, MPTypes, Processes
    <3> QED BY <3>1, <3>2
  <2>3. CASE PostReply(p) \/ RecvStart(p) \/ HostGone(p) \/ RepliesWait(p)
    BY <2>3 DEF PostReply, RecvStart, HostGone, RepliesWait
  <2>4. ASSUME NEW aids, RepliesStart(p, aids)
        PROVE  UNCHANGED <<mem, WriteOffset, pend, PowerOn, ReadOffset, InstanceID>>
    BY <2>4 DEF RepliesStart
  <2>5. ASSUME NEW len \in Lengths, SendReply(p, len)
        PROVE  /\ mem'[Packet] = mem[Packet] /\ WriteOffset'[Packet] = WriteOffset[Packet]
               /\ UNCHANGED <<pend, PowerOn, ReadOffset, InstanceID>>
    <3>1. PICK h : PutPacket(Reply, h)
      BY <2>5 DEF SendReply
    <3>2. Packet \in Rings /\ Packet # Reply
      BY DEF Rings, Packet, Reply
    <3>3. mem'[Packet] = mem[Packet] /\ WriteOffset'[Packet] = WriteOffset[Packet]
      BY <3>1, <3>2 DEF PutPacket, MPTypes, RingsOK
    <3> QED BY <2>5, <3>3 DEF SendReply
  <2>6. CASE RecvReply(p)
    <3>1. UNCHANGED <<mem, WriteOffset, pend, PowerOn, InstanceID>>
      BY <2>6 DEF RecvReply
    <3>2. \E v : ReadOffset' = [ReadOffset EXCEPT ![p][Reply] = v]
      BY <2>6 DEF RecvReply
    <3>3. \A q \in Procs : ReadOffset'[q][Packet] = ReadOffset[q][Packet]
      BY <3>2 DEF MPTypes, Processes, Packet, Reply
    <3> QED BY <3>1, <3>3
  <2> QED BY <2>1, <2>2, <2>3, <2>4, <2>5, <2>6
<1>2. \E l : /\ pc' = [pc EXCEPT ![p] = l]
             /\ l # "post" /\ l # "got" /\ pc[p] # "post" /\ pc[p] # "got"
  <2>1. pc' = pc => pc' = [pc EXCEPT ![p] = pc[p]]
    BY DEF MPTypes, Processes
  <2>2. CASE Attach(p) \/ Join(p) \/ DeInit(p) \/ End(p) \/ WifiReset(p)
    BY <2>1, <2>2 DEF Attach, Join, DeInit, End, WifiReset
  <2>3. CASE PostReply(p) \/ RecvStart(p) \/ HostGone(p) \/ RepliesWait(p) \/ RecvReply(p)
    BY <2>1, <2>3 DEF PostReply, RecvStart, HostGone, RepliesWait, RecvReply
  <2>4. CASE (\E aids \in SUBSET (Procs \ {0}) : RepliesStart(p, aids)) \/ \E len \in Lengths : SendReply(p, len)
    BY <2>4 DEF RepliesStart, SendReply
  <2> QED BY <2>2, <2>3, <2>4
<1>3. \A s \in Procs : (pc'[s] = "post" <=> pc[s] = "post") /\ (pc'[s] = "got" <=> pc[s] = "got")
  BY <1>2 DEF MPTypes, Processes
<1>4. \A i \in IDs : sem'[<<Packet, i>>] = sem[<<Packet, i>>]
  <2>1. sem' = sem \/ \E j, v : sem' = [sem EXCEPT ![<<Reply, j>>] = v]
    <3>1. CASE Attach(p) \/ Join(p) \/ DeInit(p) \/ End(p) \/ WifiReset(p) \/ RecvStart(p) \/ HostGone(p)
      BY <3>1 DEF Attach, Join, DeInit, End, WifiReset, RecvStart, HostGone
    <3>2. CASE PostReply(p)
      BY <3>2 DEF PostReply, SemPost
    <3>3. CASE RepliesWait(p)
      BY <3>3 DEF RepliesWait
    <3>4. CASE RecvReply(p)
      BY <3>4 DEF RecvReply
    <3>5. CASE (\E aids \in SUBSET (Procs \ {0}) : RepliesStart(p, aids)) \/ \E len \in Lengths : SendReply(p, len)
      BY <3>5 DEF RepliesStart, SendReply
    <3> QED BY <3>1, <3>2, <3>3, <3>4, <3>5
  <2>2. \A i \in IDs : \A j : <<Packet, i>> \in Sems /\ <<Packet, i>> # <<Reply, j>>
    BY SemIs
  <2> QED BY <2>1, <2>2 DEF MPTypes, Segment
<1>5. \A q \in Procs : PowerOn'[q] => PowerOn[q] /\ Undisturbed(q)
  <2>1. \A q \in Procs : InstanceID[q] \in IDs
    BY DEF MPTypes, Processes
  <2> QED BY <1>1, <1>3, <1>4, <2>1 DEF Undisturbed
<1>6. ASSUME NEW q \in Procs, PowerOn'[q] PROVE Lagging(q)'
  BY <1>5, <1>6, LagStays DEF OneEach
<1> QED BY <1>5, <1>6 DEF OneEach

\* Others than p are not concerned.
LEMMA OthersKeepLag ==
  ASSUME MPTypes, MembersInv, NEW p \in Procs, Begin(p) \/ RecvWait(p) \/ RecvFrame(p),
         NEW q \in Procs, q # p, PowerOn'[q]
  PROVE  PowerOn[q] /\ Undisturbed(q)
<1> USE DEF members, rings, locals, wifi, counts
<1>0. /\ pc[p] \notin {"off", "create", "format", "join"} /\ InstanceID[p] \in IDs /\ InstanceID[q] \in IDs
      /\ sem = [s \in Sems |-> sem[s]]
  BY DEF Begin, RecvWait, RecvFrame, MPTypes, Processes, Segment
<1>1. PowerOn[q] /\ InstanceID' = InstanceID /\ pend' = pend /\ mem' = mem /\ WriteOffset' = WriteOffset
  <2>1. CASE Begin(p)
    BY <2>1 DEF Begin, MPTypes, Processes
  <2>2. CASE RecvWait(p) \/ RecvFrame(p)
    BY <2>2 DEF RecvWait, RecvFrame
  <2> QED BY <2>1, <2>2
<1>2. InstanceID[q] # InstanceID[p]
  BY <1>0, <1>1, Apart
<1>3. ReadOffset'[q][Packet] = ReadOffset[q][Packet]
  <2>1. \/ ReadOffset' = ReadOffset
        \/ \E v : ReadOffset' = [ReadOffset EXCEPT ![p] = v]
        \/ \E v : ReadOffset' = [ReadOffset EXCEPT ![p][Packet] = v]
    BY DEF Begin, RecvWait, RecvFrame
  <2> QED BY <2>1 DEF MPTypes, Processes
<1>4. sem'[<<Packet, InstanceID[q]>>] = sem[<<Packet, InstanceID[q]>>]
  <2>1. <<Packet, InstanceID[q]>> \in Sems /\ <<Packet, InstanceID[q]>> # <<Packet, InstanceID[p]>>
    BY <1>0, <1>2, SemIs
  <2>2. CASE Begin(p)
    <3>1. <<Packet, InstanceID[q]>>[2] = InstanceID[q]
      OBVIOUS
    <3>2. sem' = [s \in Sems |-> IF s[2] = InstanceID[p] THEN 0 ELSE sem[s]]
      BY <2>2 DEF Begin
    <3> QED BY <2>1, <3>1, <3>2, <1>2
  <2>3. CASE RecvWait(p) \/ RecvFrame(p)
    <3>1. sem' = sem \/ \E v : sem' = [sem EXCEPT ![<<Packet, InstanceID[p]>>] = v]
      BY <2>3 DEF RecvWait, RecvFrame
    <3> QED BY <3>1, <2>1, <1>0
  <2> QED BY <2>2, <2>3
<1>5. \A s \in Procs : (pc'[s] = "post" <=> pc[s] = "post") /\ (s # p => pc'[s] = pc[s])
  <2>1. \E l : pc' = [pc EXCEPT ![p] = l] /\ l # "post" /\ pc[p] # "post"
    <3>1. pc' = pc => pc' = [pc EXCEPT ![p] = pc[p]]
      BY DEF MPTypes, Processes
    <3> QED BY <3>1 DEF Begin, RecvWait, RecvFrame
  <2> QED BY <2>1 DEF MPTypes, Processes
<1> QED BY <1>1, <1>3, <1>4, <1>5 DEF Undisturbed

\* Wifi is switched on while no post to its instance is under way.
BeginsQuietly ==
  \A p \in Procs : ~PowerOn[p] /\ PowerOn'[p] =>
    \A q \in Procs : pc[q] = "post" => InstanceID[p] \notin pend[q]

LEMMA BeginKeepsLag ==
  ASSUME MPTypes, MembersInv, OneEach, NEW p \in Procs, Begin(p), BeginsQuietly
  PROVE  OneEach' /\ Behind(p, 0, [j \in 1 .. 1 |-> 0])'
<1>1. /\ ~PowerOn[p] /\ PowerOn' = [PowerOn EXCEPT ![p] = TRUE] /\ pc[p] = "idle"
      /\ ReadOffset' = [ReadOffset EXCEPT ![p] = WriteOffset]
      /\ sem' = [s \in Sems |-> IF s[2] = InstanceID[p] THEN 0 ELSE sem[s]]
      /\ UNCHANGED <<shm, mem, WriteOffset, pc, pend, InstanceID>> /\ shm = "ready"
  BY DEF Begin, rings, locals
<1>2. PowerOn'[p] /\ ReadOffset'[p] = WriteOffset /\ InstanceID[p] \in IDs
  BY <1>1 DEF MPTypes, Processes
<1>3. Behind(p, 0, [j \in 1 .. 1 |-> 0])'
  <2>1. Packet \in Rings /\ WriteOffset[Packet] \in Area(Packet)
    BY <1>1 DEF Rings, MPTypes, Segment
  <2>2. Chain(Packet, WriteOffset[Packet], 0, [j \in 1 .. 1 |-> 0])
    BY <2>1, ChainEmpty
  <2>3. Chain(Packet, ReadOffset[p][Packet], 0, [j \in 1 .. 1 |-> 0])'
    BY <1>1, <1>2, <2>2 DEF Chain
  <2>4. [j \in 1 .. 1 |-> 0][0 + 1] <= MaxBacklog
    BY BoundsAssumption DEF BoundsAssumption
  <2> QED BY <2>3, <2>4 DEF Behind
<1>4. FramesDue(p)' = 0
  <2>1. {s \in Procs : pc[s] = "post" /\ InstanceID[p] \in pend[s]} = {}
    BY <1>1, <1>2 DEF BeginsQuietly
  <2>2. {s \in Procs : pc'[s] = "post" /\ InstanceID'[p] \in pend'[s]} = {}
    BY <1>1, <2>1
  <2>3. InFlight(InstanceID[p])' = 0
    BY <2>2, FS_EmptySet DEF InFlight
  <2>4. sem'[<<Packet, InstanceID'[p]>>] = 0
    <3>1. <<Packet, InstanceID[p]>> \in Sems /\ <<Packet, InstanceID[p]>>[2] = InstanceID[p]
      BY <1>2, SemIs
    <3> QED BY <1>1, <3>1
  <2>5. pc'[p] # "got"
    BY <1>1
  <2> QED BY <2>3, <2>4, <2>5 DEF FramesDue
<1>5. Lagging(p)'
  BY <1>3, <1>4 DEF Lagging
<1>6. ASSUME NEW q \in Procs, q # p, PowerOn'[q] PROVE Lagging(q)'
  BY <1>6, OthersKeepLag, LagStays DEF OneEach
<1>7. \A q \in Procs : PowerOn'[q] => Lagging(q)'
  BY <1>5, <1>6
<1> QED BY <1>3, <1>7 DEF OneEach

LEMMA InFlightCounts ==
  ASSUME RoomForAll, NEW i
  PROVE  IsFiniteSet(Posters(i)) /\ InFlight(i) = Cardinality(Posters(i)) /\ InFlight(i) \in Nat
<1>1. Posters(i) \subseteq Procs
  BY DEF Posters
<1>2. IsFiniteSet(Posters(i)) /\ Cardinality(Posters(i)) \in Nat
  BY <1>1, FS_Subset, FS_CardinalityType DEF RoomForAll
<1> QED BY <1>2 DEF InFlight, Posters

\* A wait takes a wakeup, and has it in hand.
LEMMA WaitKeepsLag ==
  ASSUME MPTypes, MembersInv, RoomForAll, OneEach, NEW p \in Procs, RecvWait(p)
  PROVE  /\ OneEach'
         /\ \A q \in Procs : PowerOn'[q] => PowerOn[q]
         /\ UNCHANGED <<mem, WriteOffset, ReadOffset, InstanceID>>
<1>1. /\ pc[p] = "recv" /\ UNCHANGED <<mem, WriteOffset, ReadOffset, InstanceID, pend, PowerOn>>
  BY DEF RecvWait, rings, locals, wifi
<1>2. InstanceID[p] \in IDs /\ PowerOn[p]
  BY <1>1 DEF MPTypes, Processes, Attached, Labels
<1>3. FramesDue(p)' = FramesDue(p)
  <2>1. \A l : l # "post" /\ pc' = [pc EXCEPT ![p] = l] => InFlight(InstanceID[p])' = InFlight(InstanceID[p])
    <3> SUFFICES ASSUME NEW l, l # "post", pc' = [pc EXCEPT ![p] = l]
                 PROVE  InFlight(InstanceID[p])' = InFlight(InstanceID[p])
      OBVIOUS
    <3>1. {s \in Procs : pc'[s] = "post" /\ InstanceID'[p] \in pend'[s]}
            = {s \in Procs : pc[s] = "post" /\ InstanceID[p] \in pend[s]}
      BY <1>1 DEF MPTypes, Processes
    <3> QED BY <3>1 DEF InFlight
  <2> DEFINE s == <<Packet, InstanceID[p]>>
  <2>2. s \in Sems /\ sem[s] \in Nat /\ sem = [x \in Sems |-> sem[x]]
    BY <1>2, SemIs DEF MPTypes, Segment
  <2>3. InFlight(InstanceID[p]) = InFlight(InstanceID[p])' /\ InstanceID' = InstanceID
    BY <1>1, <2>1 DEF RecvWait
  <2>4. CASE sem[s] > 0 /\ sem' = [sem EXCEPT ![s] = @ - 1] /\ pc' = [pc EXCEPT ![p] = "got"]
    <3>1. sem'[s] = sem[s] - 1 /\ pc'[p] = "got" /\ pc[p] # "got"
      BY <1>1, <2>2, <2>4 DEF MPTypes, Processes
    <3>2. InFlight(InstanceID[p]) \in Nat
      BY InFlightCounts
    <3> QED BY <2>2, <2>3, <3>1, <3>2 DEF FramesDue
  <2>5. CASE sem' = sem /\ pc' = [pc EXCEPT ![p] = "idle"]
    <3>1. pc'[p] # "got" /\ pc[p] # "got"
      BY <1>1, <2>5 DEF MPTypes, Processes
    <3> QED BY <1>1, <2>3, <2>5, <3>1 DEF FramesDue
  <2> QED BY <2>4, <2>5 DEF RecvWait
<1>4. Lagging(p)'
  <2>1. PICK k, D : Behind(p, k, D) /\ FramesDue(p) = k
    BY <1>2 DEF OneEach, Lagging
  <2>2. Behind(p, k, D)'
    BY <1>1, <2>1, StaysBehind
  <2>3. FramesDue(p)' = k
    BY <1>3, <2>1
  <2> QED BY <2>2, <2>3 DEF Lagging
<1>5. ASSUME NEW q \in Procs, q # p, PowerOn'[q] PROVE Lagging(q)'
  BY <1>5, OthersKeepLag, LagStays DEF OneEach
<1>6. \A q \in Procs : PowerOn'[q] => Lagging(q)'
  BY <1>4, <1>5
<1> QED BY <1>1, <1>6 DEF OneEach

\* What is due, with the instance's ID at hand.
DueWith(p, i) == sem[<<Packet, i>>] + InFlight(i) + (IF pc[p] = "got" THEN 1 ELSE 0)

LEMMA DueIs ==
  ASSUME MPTypes, MPTypes', RoomForAll, NEW q \in Procs, InstanceID'[q] = InstanceID[q]
  PROVE  \E i \in IDs : /\ i = InstanceID[q] /\ i = InstanceID'[q]
                        /\ FramesDue(q) = DueWith(q, i) /\ FramesDue(q)' = DueWith(q, i)'
                        /\ sem[<<Packet, i>>] \in 0 .. SemMax /\ sem'[<<Packet, i>>] \in 0 .. SemMax
                        /\ InFlight(i) = Cardinality(Posters(i)) /\ InFlight(i)' = Cardinality(Posters(i)')
                        /\ IsFiniteSet(Posters(i)) /\ InFlight(i) \in Nat /\ InFlight(i)' \in Nat
<1>1. PICK i \in IDs : i = InstanceID[q] /\ i = InstanceID'[q]
  BY DEF MPTypes, Processes
<1>2. FramesDue(q) = DueWith(q, i) /\ FramesDue(q)' = DueWith(q, i)'
  BY <1>1 DEF FramesDue, DueWith, InFlight
<1>3. sem[<<Packet, i>>] \in 0 .. SemMax /\ sem'[<<Packet, i>>] \in 0 .. SemMax
  BY DEF MPTypes, Segment, Sems, Rings
<1>4. /\ InFlight(i) = Cardinality(Posters(i)) /\ IsFiniteSet(Posters(i)) /\ InFlight(i) \in Nat
  BY InFlightCounts
<1>5. InFlight(i)' = Cardinality(Posters(i)') /\ InFlight(i)' \in Nat
  <2>1. Posters(i)' \subseteq Procs
    BY DEF Posters
  <2>2. IsFiniteSet(Posters(i)') /\ Cardinality(Posters(i)') \in Nat
    BY <2>1, FS_Subset, FS_CardinalityType DEF RoomForAll
  <2>3. InFlight(i)' = Cardinality(Posters(i)')
    BY DEF InFlight, Posters
  <2> QED BY <2>2, <2>3
<1> QED BY <1>1, <1>2, <1>3, <1>4, <1>5

\* As many packets as a reader is behind fit in its semaphore.
LEMMA BehindBounds ==
  ASSUME ReadersKeepUp, NEW q, ReadOffset[q][Packet] \in Area(Packet), NEW k, NEW D, Behind(q, k, D)
  PROVE  k \in Nat /\ k <= SemMax
<1>1. Packet \in Rings
  BY DEF Rings
<1>2. PICK r \in Area(Packet) : r = ReadOffset[q][Packet]
  OBVIOUS
<1>3. k \in Nat /\ k <= D[k + 1] /\ D[k + 1] \in 0 .. Span(Packet) - 1
  BY <1>1, <1>2, ChainGrows DEF Behind
<1>4. Span(Packet) \in Nat
  BY <1>1, SpanFacts
<1> QED BY <1>3, <1>4, BoundsAssumption DEF Behind, ReadersKeepUp, BoundsAssumption

\* A post moves from the sender's list to the semaphore, which has room for it.
LEMMA PostKeepsLag ==
  ASSUME MPTypes, MPTypes', MembersInv, RoomForAll, ReadersKeepUp, OneEach, NEW p \in Procs, PostFrame(p)
  PROVE  OneEach' /\ UNCHANGED <<mem, WriteOffset, ReadOffset, InstanceID, PowerOn, out>>
<1>1. /\ pc[p] = "post" /\ UNCHANGED <<mem, WriteOffset, ReadOffset, InstanceID, PowerOn, out>>
  BY DEF PostFrame, rings, wifi
<1>2. ASSUME NEW q \in Procs, PowerOn[q] PROVE FramesDue(q)' = FramesDue(q)
  <2>0. PICK i \in IDs : /\ i = InstanceID[q] /\ i = InstanceID'[q]
                         /\ FramesDue(q) = DueWith(q, i) /\ FramesDue(q)' = DueWith(q, i)'
                         /\ sem[<<Packet, i>>] \in 0 .. SemMax /\ sem'[<<Packet, i>>] \in 0 .. SemMax
                         /\ InFlight(i) = Cardinality(Posters(i)) /\ InFlight(i)' = Cardinality(Posters(i)')
                         /\ IsFiniteSet(Posters(i)) /\ InFlight(i) \in Nat /\ InFlight(i)' \in Nat
    BY <1>1, DueIs
  <2>1. CASE pend[p] = {} /\ pc' = [pc EXCEPT ![p] = "idle"] /\ UNCHANGED <<sem, pend>>
    <3>1. Posters(i)' = Posters(i)
      BY <1>1, <2>1 DEF Posters, MPTypes, Processes
    <3>2. pc'[q] = "got" <=> pc[q] = "got"
      BY <1>1, <2>1 DEF MPTypes, Processes
    <3> QED BY <2>0, <2>1, <3>1, <3>2 DEF DueWith
  <2>2. ASSUME NEW j \in pend[p], SemPost(<<Packet, j>>), pend' = [pend EXCEPT ![p] = @ \ {j}], pc' = pc
        PROVE  FramesDue(q)' = FramesDue(q)
    <3>1. sem = [s \in Sems |-> sem[s]] /\ <<Packet, i>> \in Sems
      BY SemIs DEF MPTypes, Segment
    <3>2. CASE j # i
      <4>1. Posters(i)' = Posters(i)
        BY <2>2, <3>2 DEF Posters, MPTypes, Processes
      <4>2. sem'[<<Packet, i>>] = sem[<<Packet, i>>]
        BY <2>2, <3>1, <3>2 DEF SemPost
      <4> QED BY <2>0, <2>2, <4>1, <4>2 DEF DueWith
    <3>3. CASE j = i
      <4>1. p \in Posters(i) /\ Posters(i)' = Posters(i) \ {p}
        BY <1>1, <2>2, <3>3 DEF Posters, MPTypes, Processes
      <4>2. InFlight(i)' = InFlight(i) - 1 /\ InFlight(i) >= 1
        <5>1. Cardinality(Posters(i) \ {p}) = Cardinality(Posters(i)) - 1
          BY <2>0, <4>1, FS_RemoveElement
        <5> QED BY <2>0, <4>1, <5>1
      <4>3. PICK k, D : Behind(q, k, D) /\ FramesDue(q) = k
        BY <1>2 DEF OneEach, Lagging
      <4>4. k \in Nat /\ k <= SemMax
        <5>1. ReadOffset[q][Packet] \in Area(Packet)
          BY <1>2 DEF MPTypes, Attached, Rings
        <5> QED BY <4>3, <5>1, BehindBounds
      <4>5. sem[<<Packet, i>>] < SemMax
        <5>1. k = sem[<<Packet, i>>] + InFlight(i) \/ k = sem[<<Packet, i>>] + InFlight(i) + 1
          BY <2>0, <4>3 DEF DueWith
        <5>2. SemMax \in Nat
          BY BoundsAssumption DEF BoundsAssumption
        <5> QED BY <2>0, <4>2, <4>4, <5>1, <5>2
      <4>6. sem'[<<Packet, i>>] = sem[<<Packet, i>>] + 1
        BY <2>2, <3>1, <3>3, <4>5 DEF SemPost
      <4>7. DueWith(q, i)' = DueWith(q, i)
        BY <2>0, <2>2, <4>2, <4>6 DEF DueWith
      <4> QED BY <2>0, <4>7
    <3> QED BY <3>2, <3>3
  <2> QED BY <2>1, <2>2 DEF PostFrame
<1>3. ASSUME NEW q \in Procs, PowerOn'[q] PROVE Lagging(q)'
  <2>1. PICK k, D : Behind(q, k, D) /\ FramesDue(q) = k
    BY <1>1, <1>3 DEF OneEach, Lagging
  <2>2. Behind(q, k, D)'
    BY <1>1, <2>1, StaysBehind
  <2>3. FramesDue(q)' = k
    BY <1>1, <1>2, <1>3, <2>1
  <2> QED BY <2>2, <2>3 DEF Lagging
<1> QED BY <1>1, <1>3 DEF OneEach

\* p has read the oldest of its packets.
Reads(p) ==
  \E k \in Nat : \E D, E :
    /\ Behind(p, k + 1, D) /\ Behind(p, k, E)'
    /\ Waiting(p, k + 1, D)[1] = PacketAt(Packet, ReadOffset[p][Packet])
    /\ \A j \in 1 .. k : Waiting(p, k, E)'[j] = Waiting(p, k + 1, D)[j + 1]

\* The wakeup in hand is for a packet that is there: a reader never finds its ring
\* overrun, and ends behind the packet whichever way it passes it.
LEMMA ReadKeepsLag ==
  ASSUME MPTypes, MPTypes', MembersInv, RoomForAll, ReadersKeepUp, OneEach, NEW p \in Procs, RecvFrame(p)
  PROVE  LET h == mem[Packet][ReadOffset[p][Packet]]
         IN  /\ OneEach' /\ PowerOn[p] /\ h.magic /\ Reads(p)
             /\ UNCHANGED <<mem, WriteOffset, InstanceID, PowerOn>>
<1>1. /\ pc[p] = "got" /\ UNCHANGED <<mem, WriteOffset, InstanceID, PowerOn, pend>>
  BY DEF RecvFrame, rings
<1>2. Packet \in Rings /\ PowerOn[p] /\ InstanceID[p] \in IDs
  BY <1>1 DEF MPTypes, Processes, Attached, Labels, Rings
<1>3. PICK r \in Area(Packet) : r = ReadOffset[p][Packet]
  BY <1>2 DEF MPTypes, Attached
<1> DEFINE h == mem[Packet][r]
<1>4. FIFORead(Packet, ReadOffset[p][Packet], 1)[1] = h
  BY <1>2, <1>3, PlaceFacts DEF FIFORead
<1>5. PICK i \in IDs : /\ i = InstanceID[p] /\ i = InstanceID'[p]
                       /\ FramesDue(p) = DueWith(p, i) /\ FramesDue(p)' = DueWith(p, i)'
                       /\ sem[<<Packet, i>>] \in 0 .. SemMax /\ sem'[<<Packet, i>>] \in 0 .. SemMax
                       /\ InFlight(i) = Cardinality(Posters(i)) /\ InFlight(i)' = Cardinality(Posters(i)')
                       /\ IsFiniteSet(Posters(i)) /\ InFlight(i) \in Nat /\ InFlight(i)' \in Nat
  BY <1>1, DueIs
<1>6. PICK m \in Nat : \E D : Behind(p, m + 1, D) /\ FramesDue(p) = m + 1
  <2>1. PICK k, D : Behind(p, k, D) /\ FramesDue(p) = k
    BY <1>2 DEF OneEach, Lagging
  <2>2. k = sem[<<Packet, i>>] + InFlight(i) + 1
    BY <1>1, <1>5, <2>1 DEF DueWith
  <2>3. k - 1 \in Nat /\ (k - 1) + 1 = k
    BY <1>5, <2>2
  <2> QED BY <2>1, <2>3
<1>7. PICK D : Behind(p, m + 1, D) /\ FramesDue(p) = m + 1
  BY <1>6
<1>8. h.magic /\ h.Length \in Lengths
  <2>1. Chain(Packet, r, m + 1, D)
    BY <1>3, <1>7 DEF Behind
  <2> QED BY <1>2, <2>1, ChainShortened
<1>9. /\ ReadOffset' = [ReadOffset EXCEPT ![p][Packet] = Place(Packet, r, 1 + h.Length)]
      /\ sem' = sem
      /\ \E l : pc' = [pc EXCEPT ![p] = l] /\ l # "post" /\ l # "got"
  <2>1. /\ NextOffset(Packet, r, 1) = Place(Packet, r, 1)
        /\ NextOffset(Packet, NextOffset(Packet, r, 1), h.Length) = Place(Packet, r, 1 + h.Length)
        /\ SkipOffset(Packet, NextOffset(Packet, r, 1), h.Length) = Place(Packet, r, 1 + h.Length)
    BY <1>2, <1>8, Onward
  <2>2. h.Length = 0 => Place(Packet, r, 1) = Place(Packet, r, 1 + h.Length)
    OBVIOUS
  <2> DEFINE off1 == NextOffset(Packet, r, 1)
  <2>3. /\ \/ ReadOffset' = [ReadOffset EXCEPT ![p][Packet] = SkipOffset(Packet, off1, h.Length)]
           \/ ReadOffset' = [ReadOffset EXCEPT ![p][Packet] =
                               IF h.Length = 0 THEN off1 ELSE NextOffset(Packet, off1, h.Length)]
        /\ sem' = sem
        /\ pc' = [pc EXCEPT ![p] = "recv"] \/ pc' = [pc EXCEPT ![p] = "idle"]
    <3> HIDE DEF h, off1
    <3> QED BY <1>3, <1>4, <1>8 DEF RecvFrame, off1
  <2> HIDE DEF h
  <2> QED BY <2>1, <2>2, <2>3
<1>10. ReadOffset'[p][Packet] = Place(Packet, ReadOffset[p][Packet],
                                      1 + mem[Packet][ReadOffset[p][Packet]].Length)
  BY <1>2, <1>3, <1>9 DEF MPTypes, Processes
<1>11. /\ Waiting(p, m + 1, D)[1] = PacketAt(Packet, ReadOffset[p][Packet])
       /\ \E E : /\ Behind(p, m, E)'
                 /\ \A j \in 1 .. m : Waiting(p, m, E)'[j] = Waiting(p, m + 1, D)[j + 1]
  BY <1>1, <1>2, <1>7, <1>10, CatchesUp
<1>12. PICK E : /\ Behind(p, m, E)'
                /\ \A j \in 1 .. m : Waiting(p, m, E)'[j] = Waiting(p, m + 1, D)[j + 1]
  BY <1>11
<1>13. Reads(p)
  BY <1>7, <1>11, <1>12 DEF Reads
<1>14. FramesDue(p)' = m
  <2>1. Posters(i)' = Posters(i) /\ pc'[p] # "got"
    BY <1>1, <1>9 DEF Posters, MPTypes, Processes
  <2>2. DueWith(p, i)' = DueWith(p, i) - 1
    <3>1. sem[<<Packet, i>>] \in Int /\ InFlight(i) \in Int
      BY <1>5
    <3> QED BY <1>1, <1>5, <1>9, <2>1, <3>1 DEF DueWith
  <2>3. FramesDue(p)' = (m + 1) - 1
    BY <1>5, <1>7, <2>2
  <2>4. (m + 1) - 1 = m
    BY <1>6
  <2> QED BY <2>3, <2>4
<1>15. Lagging(p)'
  BY <1>12, <1>14 DEF Lagging
<1>16. ASSUME NEW q \in Procs, q # p, PowerOn'[q] PROVE Lagging(q)'
  BY <1>16, OthersKeepLag, LagStays DEF OneEach
<1>17. \A q \in Procs : PowerOn'[q] => Lagging(q)'
  BY <1>15, <1>16
<1> QED BY <1>1, <1>2, <1>3, <1>8, <1>13, <1>17 DEF OneEach

\* A frame goes out: to the ring, and onto the sender's list of whom to wake.
FrameHeaders ==
  {h \in [magic : {TRUE}, SenderID : IDs, Type : FrameTypes \cup {1}, aid : {0},
          Length : Lengths, Timestamp : Times \cup {clock}, data : Data] : TRUE}
Broadcasts(p, h) ==
  /\ h \in FrameHeaders /\ h.SenderID = InstanceID[p]
  /\ pc[p] = "idle" /\ pc' = [pc EXCEPT ![p] = "post"] /\ PowerOn[p]
  /\ PutPacket(Packet, h) /\ Fits(Packet, h.Length)
  /\ pend' = [pend EXCEPT ![p] = ConnectedBitmask]
  /\ \A q \in Procs : ReadOffset'[q][Packet] = ReadOffset[q][Packet]
  /\ \A i \in IDs : sem'[<<Packet, i>>] = sem[<<Packet, i>>]
  /\ IF h.Type = 1 THEN clock < h.Timestamp /\ h.Timestamp \in Times /\ clock' = h.Timestamp
                   ELSE clock' = clock
  /\ duty' = duty \/ duty' = [duty EXCEPT ![p] = "collect"]
  /\ UNCHANGED <<members, InstanceID, PowerOn, cmd, out, col>>

LEMMA SendIsBroadcast ==
  ASSUME MPTypes, NEW p \in Procs,
         \/ \E type \in FrameTypes, len \in Lengths, d \in Data : SendFrame(p, type, len, d)
         \/ \E len \in Lengths, ts \in Times, d \in Data : SendCmd(p, len, ts, d)
  PROVE  \E h : Broadcasts(p, h)
<1>1. InstanceID[p] \in IDs /\ \A i \in IDs : <<Packet, i>> \in Sems
  BY SemIs DEF MPTypes, Processes
<1>2. \A type \in FrameTypes \cup {1}, len \in Lengths, ts \in Times \cup {clock}, d \in Data :
        /\ Header(p, type, 0, len, ts, d) \in FrameHeaders
        /\ Header(p, type, 0, len, ts, d).SenderID = InstanceID[p]
        /\ Header(p, type, 0, len, ts, d).Length = len
  BY <1>1 DEF Header, FrameHeaders
<1>3. ASSUME NEW type \in FrameTypes, NEW len \in Lengths, NEW d \in Data, SendFrame(p, type, len, d)
      PROVE  Broadcasts(p, Header(p, type, 0, len, clock, d))
  <2> DEFINE h == Header(p, type, 0, len, clock, d)
  <2>1. h \in FrameHeaders /\ h.SenderID = InstanceID[p] /\ h.Length = len
    <3>1. type \in FrameTypes \cup {1} /\ clock \in Times \cup {clock}
      OBVIOUS
    <3> QED BY <1>2, <3>1, Zenon
  <2>2. /\ pc[p] = "idle" /\ pc' = [pc EXCEPT ![p] = "post"] /\ PowerOn[p]
        /\ PutPacket(Packet, h) /\ Fits(Packet, len)
        /\ pend' = [pend EXCEPT ![p] = ConnectedBitmask]
        /\ UNCHANGED <<members, ReadOffset, sem, InstanceID, PowerOn, duty, cmd, clock, out, col>>
    BY <1>3 DEF SendFrame, Mask, wifi
  <2>3. h.Type # 1
    BY RingAssumption DEF Header, RingAssumption
  <2> HIDE DEF h
  <2> QED BY <2>1, <2>2, <2>3 DEF Broadcasts, h
<1>4. ASSUME NEW len \in Lengths, NEW ts \in Times, NEW d \in Data, SendCmd(p, len, ts, d)
      PROVE  Broadcasts(p, Header(p, 1, 0, len, ts, d))
  <2> DEFINE h == Header(p, 1, 0, len, ts, d)
  <2>1. h \in FrameHeaders /\ h.SenderID = InstanceID[p] /\ h.Length = len
    <3>1. 1 \in FrameTypes \cup {1} /\ ts \in Times \cup {clock}
      OBVIOUS
    <3> QED BY <1>2, <3>1, Zenon
  <2>2. /\ pc[p] = "idle" /\ pc' = [pc EXCEPT ![p] = "post"] /\ PowerOn[p]
        /\ PutPacket(Packet, h) /\ Fits(Packet, len)
        /\ pend' = [pend EXCEPT ![p] = ConnectedBitmask]
        /\ ReadOffset' = [ReadOffset EXCEPT ![p][Reply] = WriteOffset[Reply]]
        /\ sem' = [sem EXCEPT ![<<Reply, InstanceID[p]>>] = 0]
        /\ clock < ts /\ clock' = ts /\ duty' = [duty EXCEPT ![p] = "collect"]
        /\ UNCHANGED <<members, InstanceID, PowerOn, cmd, out, col>>
    BY <1>4 DEF SendCmd, Mask
  <2>3. \A q \in Procs : ReadOffset'[q][Packet] = ReadOffset[q][Packet]
    BY <2>2 DEF MPTypes, Processes, Packet, Reply
  <2>4. \A i \in IDs : sem'[<<Packet, i>>] = sem[<<Packet, i>>]
    <3>1. \A i \in IDs : <<Packet, i>> # <<Reply, InstanceID[p]>>
      BY DEF Packet, Reply
    <3> QED BY <1>1, <2>2, <3>1 DEF MPTypes, Segment
  <2>5. h.Type = 1 /\ h.Timestamp = ts
    BY DEF Header
  <2> HIDE DEF h
  <2> QED BY <2>1, <2>2, <2>3, <2>4, <2>5 DEF Broadcasts, h
<1> QED BY <1>3, <1>4

\* What q has to read has h added at its end.
Gets(q, h) ==
  \E k, D : Behind(q, k, D) /\ Joins(q, k, D, h)

\* Everyone with its wifi on, the sender too, gets one packet and one wakeup more.
LEMMA BroadcastKeepsLag ==
  ASSUME MPTypes, MPTypes', MembersInv, HeadersWhole, RoomForAll, ReadersKeepUp, OneEach, Connections,
         NEW p \in Procs, NEW h, Broadcasts(p, h)
  PROVE  OneEach' /\ \A q \in Procs : PowerOn[q] => Gets(q, h)
<1>1. /\ h.magic = TRUE /\ h.Length \in Lengths /\ PutPacket(Packet, h) /\ Fits(Packet, h.Length)
      /\ pc[p] = "idle" /\ pc' = [pc EXCEPT ![p] = "post"]
      /\ pend' = [pend EXCEPT ![p] = ConnectedBitmask]
      /\ \A q \in Procs : ReadOffset'[q][Packet] = ReadOffset[q][Packet]
      /\ \A i \in IDs : sem'[<<Packet, i>>] = sem[<<Packet, i>>]
      /\ shm' = shm /\ UNCHANGED <<InstanceID, PowerOn>>
  BY DEF Broadcasts, FrameHeaders, members
<1>2. shm = "ready" /\ shm' = "ready"
  BY <1>1 DEF MembersInv
<1>3. ASSUME NEW q \in Procs, PowerOn[q] PROVE Gets(q, h) /\ Lagging(q)'
  <2>1. PICK k, D : Behind(q, k, D) /\ FramesDue(q) = k
    BY <1>3 DEF OneEach, Lagging
  <2>2. Joins(q, k, D, h)
    <3>1. ReadOffset'[q][Packet] = ReadOffset[q][Packet]
      BY <1>1
    <3> QED BY <1>1, <1>2, <1>3, <2>1, <3>1, FallsBehind
  <2>3. PICK E : Behind(q, k + 1, E)'
    BY <2>2 DEF Joins
  <2>4. Gets(q, h)
    BY <2>1, <2>2 DEF Gets
  <2>5. PICK i \in IDs : /\ i = InstanceID[q] /\ i = InstanceID'[q]
                         /\ FramesDue(q) = DueWith(q, i) /\ FramesDue(q)' = DueWith(q, i)'
                         /\ sem[<<Packet, i>>] \in 0 .. SemMax /\ sem'[<<Packet, i>>] \in 0 .. SemMax
                         /\ InFlight(i) = Cardinality(Posters(i)) /\ InFlight(i)' = Cardinality(Posters(i)')
                         /\ IsFiniteSet(Posters(i)) /\ InFlight(i) \in Nat /\ InFlight(i)' \in Nat
    BY <1>1, DueIs
  <2>6. i \in ConnectedBitmask
    BY <1>3, <2>5 DEF Connections
  <2>7. p \notin Posters(i) /\ Posters(i)' = Posters(i) \cup {p}
    BY <1>1, <2>6 DEF Posters, MPTypes, Processes
  <2>8. InFlight(i)' = InFlight(i) + 1
    <3>1. Cardinality(Posters(i) \cup {p}) = Cardinality(Posters(i)) + 1
      BY <2>5, <2>7, FS_AddElement
    <3> QED BY <2>5, <2>7, <3>1
  <2>9. pc'[q] = "got" <=> pc[q] = "got"
    BY <1>1 DEF MPTypes, Processes
  <2>10. DueWith(q, i)' = DueWith(q, i) + 1
    <3>1. sem'[<<Packet, i>>] = sem[<<Packet, i>>] /\ sem[<<Packet, i>>] \in Int /\ InFlight(i) \in Int
      BY <1>1, <2>5
    <3> QED BY <2>8, <2>9, <3>1 DEF DueWith
  <2>11. FramesDue(q)' = k + 1
    BY <2>1, <2>5, <2>10
  <2> QED BY <2>3, <2>4, <2>11 DEF Lagging
<1> QED BY <1>1, <1>3 DEF OneEach

\* Whoever has its wifi on is connected, from Begin to End.
LEMMA StepKeepsConnections ==
  ASSUME MPTypes, MembersInv, Connections, NEW p \in Procs, Step(p)
  PROVE  Connections'
<1> USE DEF members, rings, locals, wifi, counts
<1>1. CASE Join(p)
  <2>1. ~PowerOn[p] /\ UNCHANGED <<PowerOn, ConnectedBitmask>>
    BY <1>1 DEF Join, MPTypes, Attached
  <2>2. \A q \in Procs : q # p => InstanceID'[q] = InstanceID[q]
    BY <1>1 DEF Join, MPTypes, Processes
  <2> QED BY <2>1, <2>2 DEF Connections
<1>2. CASE DeInit(p) \/ End(p)
  <2>1. /\ pc[p] = "idle" /\ PowerOn' = [PowerOn EXCEPT ![p] = FALSE]
        /\ ConnectedBitmask' = ConnectedBitmask \ {InstanceID[p]} /\ InstanceID' = InstanceID
    BY <1>2 DEF DeInit, End
  <2>2. ASSUME NEW q \in Procs, PowerOn'[q] PROVE InstanceID'[q] \in ConnectedBitmask'
    <3>1. PowerOn[q] /\ q # p
      BY <2>1, <2>2 DEF MPTypes, Processes
    <3>2. InstanceID[q] # InstanceID[p]
      BY <2>1, <3>1, Apart
    <3> QED BY <2>1, <3>1, <3>2 DEF Connections
  <2> QED BY <2>2 DEF Connections
<1>3. CASE Begin(p)
  BY <1>3 DEF Begin, Connections, MPTypes, Processes
<1>4. CASE WifiReset(p)
  BY <1>4 DEF WifiReset, Connections, MPTypes, Processes
<1>5. CASE Create(p) \/ Format(p)
  BY <1>5 DEF Create, Format, MembersInv
<1>6. ASSUME UNCHANGED <<PowerOn, ConnectedBitmask, InstanceID>> PROVE Connections'
  BY <1>6 DEF Connections
<1>7. CASE \/ Attach(p) \/ PostFrame(p) \/ PostReply(p) \/ RecvStart(p) \/ HostGone(p)
           \/ RecvWait(p) \/ RecvFrame(p) \/ RepliesWait(p) \/ RecvReply(p)
  BY <1>6, <1>7 DEF Attach, PostFrame, PostReply, RecvStart, HostGone, RecvWait, RecvFrame,
                    RepliesWait, RecvReply
<1>8. CASE \/ \E type \in FrameTypes, len \in Lengths, d \in Data : SendFrame(p, type, len, d)
           \/ \E len \in Lengths, ts \in Times, d \in Data : SendCmd(p, len, ts, d)
           \/ \E len \in Lengths : SendReply(p, len)
           \/ \E aids \in SUBSET (Procs \ {0}) : RepliesStart(p, aids)
  BY <1>6, <1>8 DEF SendFrame, SendCmd, SendReply, RepliesStart
<1> QED BY <1>1, <1>2, <1>3, <1>4, <1>5, <1>7, <1>8 DEF Step

-----------------------------------------------------------------------------
(* The steps together *)

WakeInv == MPTypes /\ MembersInv /\ HeadersWhole /\ Connections /\ OneEach

\* Whom and what the theorems are about.
KeptUp == SegmentStays /\ RoomForAll /\ ReadersKeepUp

LEMMA InitWake == Init /\ KeptUp => WakeInv
<1>1. Init => Connections /\ OneEach
  BY DEF Init, Connections, OneEach
<1> QED BY <1>1, InitMPTypes, InitMembers, InitWhole DEF WakeInv, KeptUp

LEMMA StepKeepsWake == WakeInv /\ KeptUp /\ [Next]_vars /\ [BeginsQuietly]_vars => WakeInv'
<1> SUFFICES ASSUME WakeInv, KeptUp, [Next]_vars, [BeginsQuietly]_vars PROVE WakeInv'
  OBVIOUS
<1>0. /\ MPTypes /\ MembersInv /\ HeadersWhole /\ Connections /\ OneEach
      /\ SegmentStays /\ RoomForAll /\ ReadersKeepUp
  BY DEF WakeInv, KeptUp
<1>1. MPTypes' /\ MembersInv' /\ HeadersWhole'
  BY <1>0, StepKeepsTypes, StepKeepsMembers, StepKeepsWhole
<1>2. ASSUME UNCHANGED vars PROVE Connections' /\ OneEach'
  <2>1. \A q \in Procs : Undisturbed(q) /\ PowerOn' = PowerOn /\ ConnectedBitmask' = ConnectedBitmask
    BY <1>2 DEF vars, members, rings, locals, wifi, Undisturbed
  <2>2. InstanceID' = InstanceID
    BY <1>2 DEF vars, locals
  <2>3. Connections'
    BY <1>0, <2>1, <2>2 DEF Connections
  <2>4. OneEach'
    BY <1>0, <2>1, LagStays DEF OneEach
  <2> QED BY <2>3, <2>4
<1>3. ASSUME NEW p \in Procs, Step(p), BeginsQuietly PROVE Connections' /\ OneEach'
  <2>1. Connections'
    BY <1>0, <1>3, StepKeepsConnections
  <2>2. CASE Begin(p)
    BY <1>0, <2>1, <1>3, <2>2, BeginKeepsLag
  <2>3. CASE RecvWait(p)
    BY <1>0, <2>1, <2>3, WaitKeepsLag
  <2>4. CASE RecvFrame(p)
    BY <1>0, <2>1, <1>1, <2>4, ReadKeepsLag
  <2>5. CASE PostFrame(p)
    BY <1>0, <2>1, <1>1, <2>5, PostKeepsLag
  <2>6. CASE \/ \E type \in FrameTypes, len \in Lengths, d \in Data : SendFrame(p, type, len, d)
             \/ \E len \in Lengths, ts \in Times, d \in Data : SendCmd(p, len, ts, d)
    <3>1. PICK h : Broadcasts(p, h)
      BY <1>0, <2>6, SendIsBroadcast
    <3> QED BY <1>0, <2>1, <1>1, <3>1, BroadcastKeepsLag
  <2>7. CASE Create(p) \/ Format(p)
    BY <1>0, <2>7 DEF Create, Format, MembersInv
  <2>8. CASE \/ Attach(p) \/ Join(p) \/ DeInit(p) \/ End(p) \/ WifiReset(p)
             \/ \E len \in Lengths : SendReply(p, len)
             \/ PostReply(p) \/ RecvStart(p) \/ HostGone(p)
             \/ \E aids \in SUBSET (Procs \ {0}) : RepliesStart(p, aids)
             \/ RepliesWait(p) \/ RecvReply(p)
    BY <1>0, <2>1, <2>8, AsideKeepsLag
  <2> QED BY <1>3, <2>1, <2>2, <2>3, <2>4, <2>5, <2>6, <2>7, <2>8 DEF Step
<1>4. Connections' /\ OneEach'
  <2>1. UNCHANGED vars \/ ((\E p \in Procs : Step(p)) /\ BeginsQuietly)
    BY DEF Next
  <2> QED BY <1>2, <1>3, <2>1
<1> QED BY <1>1, <1>4 DEF WakeInv

\* A wakeup for each frame unread, of the sequence that UnreadOf parses.
LEMMA WakeupsCountFrames == WakeInv => OneWakeupPerFrame
<1> SUFFICES ASSUME WakeInv, NEW p \in Procs, PowerOn[p] PROVE FramesDue(p) = Len(Unread(p, Packet))
  BY DEF OneWakeupPerFrame
<1>1. PICK k, D : Behind(p, k, D) /\ FramesDue(p) = k
  BY DEF WakeInv, OneEach, Lagging
<1>2. Packet \in Rings /\ ReadOffset[p][Packet] \in Area(Packet)
  BY DEF WakeInv, MPTypes, Attached, Rings
<1> DEFINE r == ReadOffset[p][Packet]
           s == Waiting(p, k, D)
<1>3. Chain(Packet, r, k, D)
  BY <1>1 DEF Behind
<1>4. PICK G : Kept(G, s, k, IDs) /\ UnreadOf(p, Packet, IDs) = G[1]
  BY <1>2, <1>3, UnreadIs DEF UnreadLaw, Waiting
<1>5. k \in Nat /\ \A j \in 1 .. k : D[j] \in 0 .. Span(Packet)
  <2>1. k \in Nat /\ \A j \in 1 .. k : D[j] \in 0 .. Span(Packet) - 1
    BY <1>2, <1>3, ChainGrows
  <2>2. Span(Packet) \in Nat
    BY <1>2, SpanFacts
  <2> QED BY <2>1, <2>2
<1>6. \A j \in 1 .. k : s[j].h.SenderID \in IDs
  <2> SUFFICES ASSUME NEW j \in 1 .. k PROVE s[j].h.SenderID \in IDs
    OBVIOUS
  <2>1. Place(Packet, r, D[j]) \in Area(Packet)
    BY <1>2, <1>5, PlaceFacts
  <2>2. mem[Packet][Place(Packet, r, D[j])].magic
    BY <1>3 DEF Chain
  <2>3. s[j].h = mem[Packet][Place(Packet, r, D[j])]
    BY DEF Waiting, Packets, PacketAt
  <2> QED BY <1>2, <2>1, <2>2, <2>3 DEF WakeInv, MPTypes, RingsOK, CellOK
<1>7. s \in [1 .. k -> {s[j] : j \in 1 .. k}]
  BY DEF Waiting, Packets
<1> HIDE DEF s
<1>8. Len(G[1]) = k
  BY <1>4, <1>5, <1>6, <1>7, KeptAll
<1> QED BY <1>1, <1>4, <1>8 DEF Unread

\* Each instance has one wakeup for each frame it has yet to read: in its semaphore, on
\* a sender's list between the unlock and the post, or taken by a wait that has not yet
\* locked the segment.  So no reader of SendPacketGeneric's posts (LocalMP.cpp) finds a
\* ring that has nothing for it, and none is left behind.  Readers keep up, one process
\* keeps the segment, and nobody switches wifi on while a post to it is under way: Begin
\* would clear its semaphore before that post arrives.
THEOREM WakeupsMatchFrames ==
  KeptUp /\ Spec /\ [][BeginsQuietly]_vars => []OneWakeupPerFrame
<1> DEFINE I == WakeInv /\ KeptUp
<1>1. KeptUp /\ Init => I
  BY InitWake
<1>2. I /\ [Next]_vars /\ [BeginsQuietly]_vars => I'
  BY StepKeepsWake DEF KeptUp, SegmentStays, RoomForAll, ReadersKeepUp, Span
<1>3. I => OneWakeupPerFrame
  BY WakeupsCountFrames
<1> HIDE DEF I
<1> QED BY <1>1, <1>2, <1>3, PTL DEF Spec

-----------------------------------------------------------------------------
(* The broadcast channel *)

\* What a reader that is k packets behind finds unread.
ReadingLaw ==
  \A q \in Procs : \A senders, k, D :
    ReadOffset[q][Packet] \in Area(Packet) /\ Behind(q, k, D) =>
      /\ k \in Nat /\ Waiting(q, k, D) \in [1 .. k -> {Waiting(q, k, D)[j] : j \in 1 .. k}]
      /\ Keeps(UnreadOf(q, Packet, senders), Waiting(q, k, D), k, senders)

LEMMA ReadingIs == ReadingLaw
<1> SUFFICES ASSUME NEW q \in Procs, NEW senders, NEW k, NEW D,
                    ReadOffset[q][Packet] \in Area(Packet), Behind(q, k, D)
             PROVE  /\ k \in Nat /\ Waiting(q, k, D) \in [1 .. k -> {Waiting(q, k, D)[j] : j \in 1 .. k}]
                    /\ Keeps(UnreadOf(q, Packet, senders), Waiting(q, k, D), k, senders)
  BY DEF ReadingLaw
<1>1. Packet \in Rings /\ Chain(Packet, ReadOffset[q][Packet], k, D)
  BY DEF Rings, Behind
<1>2. k \in Nat
  BY <1>1 DEF Chain
<1>3. Waiting(q, k, D) \in [1 .. k -> {Waiting(q, k, D)[j] : j \in 1 .. k}]
  BY DEF Waiting, Packets
<1>4. Keeps(UnreadOf(q, Packet, senders), Waiting(q, k, D), k, senders)
  BY <1>1, UnreadIs DEF UnreadLaw, Keeps, Waiting
<1> QED BY <1>2, <1>3, <1>4

\* The inbox of an instance with its wifi on.
LEMMA InboxIs ==
  ASSUME MPTypes, NEW q \in Procs, PowerOn[q]
  PROVE  ReadOffset[q][Packet] \in Area(Packet) /\ Inbox[q] = UnreadOf(q, Packet, IDs \ {InstanceID[q]})
  BY DEF MPTypes, Attached, Rings, Inbox

InboxLaw ==
  MPTypes => \A q \in Procs :
    /\ PowerOn[q] => /\ ReadOffset[q][Packet] \in Area(Packet)
                     /\ Inbox[q] = UnreadOf(q, Packet, IDs \ {InstanceID[q]})
    /\ ~PowerOn[q] => Inbox[q] = <<>>

LEMMA InboxLawHolds == InboxLaw
  BY InboxIs DEF InboxLaw, Inbox

LEMMA LawsHold == ReadingLaw /\ ReadingLaw' /\ InboxLaw /\ InboxLaw'
<1>1. ReadingLaw'
  BY ReadingIs, PTL
<1>2. InboxLaw'
  BY InboxLawHolds, PTL
<1> QED BY <1>1, <1>2, ReadingIs, InboxLawHolds

\* Two readings of q's inbox, before and after a step.
LEMMA InboxReadings ==
  ASSUME MPTypes, MPTypes', NEW q \in Procs, PowerOn[q], PowerOn'[q], InstanceID'[q] = InstanceID[q],
         NEW k, NEW D, Behind(q, k, D), NEW l, NEW E, Behind(q, l, E)'
  PROVE  \E i \in IDs :
           /\ i = InstanceID[q] /\ k \in Nat /\ l \in Nat
           /\ Waiting(q, k, D) \in [1 .. k -> {Waiting(q, k, D)[j] : j \in 1 .. k}]
           /\ Waiting(q, l, E)' \in [1 .. l -> {Waiting(q, l, E)'[j] : j \in 1 .. l}]
           /\ Keeps(Inbox[q], Waiting(q, k, D), k, IDs \ {i})
           /\ Keeps(Inbox'[q], Waiting(q, l, E)', l, IDs \ {i})
<1>1. PICK i \in IDs : i = InstanceID[q] /\ i = InstanceID'[q]
  BY DEF MPTypes, Processes
<1>2. /\ ReadOffset[q][Packet] \in Area(Packet) /\ Inbox[q] = UnreadOf(q, Packet, IDs \ {i})
      /\ ReadOffset'[q][Packet] \in Area(Packet)
  BY <1>1, LawsHold DEF InboxLaw
<1>3. Inbox'[q] = UnreadOf(q, Packet, IDs \ {InstanceID[q]})'
  BY LawsHold DEF InboxLaw
<1>4. /\ k \in Nat /\ Waiting(q, k, D) \in [1 .. k -> {Waiting(q, k, D)[j] : j \in 1 .. k}]
      /\ Keeps(UnreadOf(q, Packet, IDs \ {i}), Waiting(q, k, D), k, IDs \ {i})
  BY <1>2, LawsHold DEF ReadingLaw
<1>5. /\ l \in Nat /\ Waiting(q, l, E)' \in [1 .. l -> {Waiting(q, l, E)'[j] : j \in 1 .. l}]
      /\ Keeps(UnreadOf(q, Packet, IDs \ {i})', Waiting(q, l, E)', l, IDs \ {i})
  BY <1>2, LawsHold DEF ReadingLaw
<1>6. UnreadOf(q, Packet, IDs \ {InstanceID[q]})' = UnreadOf(q, Packet, IDs \ {i})'
  BY <1>1
<1> QED BY <1>1, <1>2, <1>3, <1>4, <1>5, <1>6

LEMMA InboxFunction == Inbox = [q \in Procs |-> Inbox[q]] /\ Inbox' = [q \in Procs |-> Inbox'[q]]
  BY DEF Inbox

LEMMA InboxStays ==
  ASSUME MPTypes, MPTypes', OneEach,
         mem'[Packet] = mem[Packet], WriteOffset'[Packet] = WriteOffset[Packet],
         NEW q \in Procs, ReadOffset'[q][Packet] = ReadOffset[q][Packet],
         InstanceID'[q] = InstanceID[q], PowerOn'[q] = PowerOn[q]
  PROVE  Inbox'[q] = Inbox[q]
<1>1. CASE ~PowerOn[q]
  BY <1>1, LawsHold DEF InboxLaw
<1>2. CASE PowerOn[q]
  <2>1. PICK k, D : Behind(q, k, D)
    BY <1>2 DEF OneEach, Lagging
  <2>2. Behind(q, k, D)' /\ Waiting(q, k, D)' = Waiting(q, k, D)
    BY <2>1, StaysBehind
  <2>3. PICK i \in IDs :
          /\ k \in Nat
          /\ Keeps(Inbox[q], Waiting(q, k, D), k, IDs \ {i})
          /\ Keeps(Inbox'[q], Waiting(q, k, D)', k, IDs \ {i})
    BY <1>2, <2>1, <2>2, InboxReadings
  <2> QED BY <2>2, <2>3, KeepsSame
<1> QED BY <1>1, <1>2

\* An instance's wifi goes on or off.
LEMMA SwitchStep ==
  ASSUME MPTypes, NEW p \in Procs, PowerOn' = [PowerOn EXCEPT ![p] = ~PowerOn[p]], out' = out,
         Inbox'[p] = <<>>, \A q \in Procs : q # p => Inbox'[q] = Inbox[q]
  PROVE  Channel!Switch(p)
<1>1. Inbox' = [Inbox EXCEPT ![p] = <<>>]
  BY InboxFunction
<1> QED BY <1>1 DEF Channel!Switch

LEMMA BeginIsSwitch ==
  ASSUME WakeInv, MPTypes', NEW p \in Procs, Begin(p), BeginsQuietly
  PROVE  Channel!Switch(p)
<1>0. MPTypes /\ MembersInv /\ OneEach
  BY DEF WakeInv
<1>1. /\ ~PowerOn[p] /\ PowerOn' = [PowerOn EXCEPT ![p] = TRUE] /\ out' = out
      /\ UNCHANGED <<mem, WriteOffset, InstanceID>>
  BY DEF Begin, rings, locals
<1>2. Inbox'[p] = <<>>
  <2>1. Behind(p, 0, [j \in 1 .. 1 |-> 0])'
    BY <1>0, BeginKeepsLag
  <2>2. PowerOn'[p]
    BY <1>0, <1>1 DEF MPTypes, Processes
  <2>3. /\ ReadOffset'[p][Packet] \in Area(Packet)
        /\ Inbox'[p] = UnreadOf(p, Packet, IDs \ {InstanceID[p]})'
    BY <2>2, LawsHold DEF InboxLaw
  <2>4. PICK i \in IDs : i = InstanceID[p] /\ i = InstanceID'[p]
    BY <1>0, <1>1 DEF MPTypes, Processes
  <2> DEFINE D == [j \in 1 .. 1 |-> 0]
             s == Waiting(p, 0, D)'
  <2> HIDE DEF D
  <2>5. s \in [1 .. 0 -> {s[j] : j \in 1 .. 0}] /\ Keeps(UnreadOf(p, Packet, IDs \ {i})', s, 0, IDs \ {i})
    BY <2>1, <2>3, LawsHold DEF ReadingLaw, D
  <2>6. Inbox'[p] = UnreadOf(p, Packet, IDs \ {i})'
    BY <2>3, <2>4
  <2> HIDE DEF s
  <2> QED BY <2>5, <2>6, KeepsFacts
<1>3. ASSUME NEW q \in Procs, q # p PROVE Inbox'[q] = Inbox[q]
  <2>1. PowerOn'[q] = PowerOn[q] /\ ReadOffset'[q] = ReadOffset[q]
    BY <1>0, <1>1, <1>3 DEF Begin, MPTypes, Processes
  <2> QED BY <1>0, <1>1, <2>1, InboxStays
<1> QED BY <1>0, <1>1, <1>2, <1>3, SwitchStep

\* Steps that do not concern frames; wifi may go off.
LEMMA AsideIsSwitchOrNothing ==
  ASSUME WakeInv, MPTypes', NEW p \in Procs,
         \/ Attach(p) \/ Join(p) \/ DeInit(p) \/ End(p) \/ WifiReset(p)
         \/ \E len \in Lengths : SendReply(p, len)
         \/ PostReply(p) \/ RecvStart(p) \/ HostGone(p)
         \/ \E aids \in SUBSET (Procs \ {0}) : RepliesStart(p, aids)
         \/ RepliesWait(p) \/ RecvReply(p)
  PROVE  Channel!Switch(p) \/ UNCHANGED <<PowerOn, Inbox, out>>
<1> USE DEF members, rings, locals, wifi, counts
<1>0. MPTypes /\ MembersInv /\ OneEach
  BY DEF WakeInv
<1>1. /\ out' = out
      /\ PowerOn' = PowerOn \/ PowerOn' = [PowerOn EXCEPT ![p] = FALSE]
  BY DEF Attach, Join, DeInit, End, WifiReset, SendReply, PostReply, RecvStart, HostGone, RepliesStart,
         RepliesWait, RecvReply
<1>2. \A q \in Procs : PowerOn'[q] => PowerOn[q] /\ Undisturbed(q)
  BY <1>0, AsideKeepsLag
<1>3. ASSUME NEW q \in Procs, PowerOn'[q] = PowerOn[q] PROVE Inbox'[q] = Inbox[q]
  <2>1. CASE ~PowerOn[q]
    <3>1. ~PowerOn[q] /\ ~PowerOn'[q]
      BY <1>3, <2>1
    <3>2. Inbox[q] = <<>>
      BY <1>0, <3>1, LawsHold DEF InboxLaw
    <3>3. Inbox'[q] = <<>>
      BY <1>0, <3>1, LawsHold DEF InboxLaw
    <3> QED BY <3>2, <3>3
  <2>2. CASE PowerOn[q]
    BY <1>0, <1>2, <1>3, <2>2, InboxStays DEF Undisturbed
  <2> QED BY <2>1, <2>2
<1>4. CASE PowerOn' = PowerOn
  BY <1>1, <1>3, <1>4, InboxFunction
<1>5. CASE PowerOn[p] /\ PowerOn' = [PowerOn EXCEPT ![p] = FALSE]
  <2>1. ~PowerOn'[p] /\ \A q \in Procs : q # p => PowerOn'[q] = PowerOn[q]
    BY <1>0, <1>5 DEF MPTypes, Processes
  <2>2. Inbox'[p] = <<>>
    BY <2>1, LawsHold DEF InboxLaw
  <2>3. PowerOn' = [PowerOn EXCEPT ![p] = ~PowerOn[p]]
    BY <1>5
  <2> QED BY <1>0, <1>1, <1>3, <2>1, <2>2, <2>3, SwitchStep
<1>6. CASE ~PowerOn[p] /\ PowerOn' = [PowerOn EXCEPT ![p] = FALSE]
  <2>1. PowerOn' = PowerOn
    BY <1>0, <1>6 DEF MPTypes, Processes
  <2> QED BY <1>4, <2>1
<1> QED BY <1>1, <1>4, <1>5, <1>6

\* Posting and waiting are of no concern to the channel.
LEMMA WakingIsNothing ==
  ASSUME WakeInv, MPTypes', UNCHANGED <<mem, WriteOffset, ReadOffset, InstanceID, PowerOn, out>>
  PROVE  UNCHANGED <<PowerOn, Inbox, out>>
<1>1. \A q \in Procs : Inbox'[q] = Inbox[q]
  BY InboxStays DEF WakeInv
<1> QED BY <1>1, InboxFunction

\* What p does with a frame of another instance.
Takes(p, h) ==
  /\ clock' = clock
  /\ LET host == h.Length > 0 /\ h.Type = 1
     IN  /\ duty' = [duty EXCEPT ![p] = IF host THEN "reply" ELSE @]
         /\ cmd' = [cmd EXCEPT ![p] = IF host THEN h.Timestamp ELSE @]

\* The packet that is read was sent by one of the instances.
LEMMA ReadIsDelivery ==
  ASSUME WakeInv, MPTypes', RoomForAll, ReadersKeepUp, NEW p \in Procs, RecvFrame(p)
  PROVE  \/ UNCHANGED <<PowerOn, Inbox, out, cmd, duty>>
         \/ Channel!Deliver(p) /\ Takes(p, Head(Inbox[p]).h)
<1>0. MPTypes /\ MembersInv /\ OneEach
  BY DEF WakeInv
<1> DEFINE r == ReadOffset[p][Packet]
           h == mem[Packet][r]
<1>1. PowerOn[p] /\ h.magic /\ Reads(p) /\ UNCHANGED <<mem, WriteOffset, InstanceID, PowerOn>>
  BY <1>0, ReadKeepsLag
<1>2. Packet \in Rings /\ r \in Area(Packet)
  BY <1>0, <1>1 DEF MPTypes, Attached, Rings
<1>3. h.SenderID \in IDs
  BY <1>0, <1>1, <1>2 DEF MPTypes, RingsOK, CellOK
<1>4. PICK k \in Nat : \E D, E :
        /\ Behind(p, k + 1, D) /\ Behind(p, k, E)'
        /\ Waiting(p, k + 1, D)[1] = PacketAt(Packet, r)
        /\ \A j \in 1 .. k : Waiting(p, k, E)'[j] = Waiting(p, k + 1, D)[j + 1]
  BY <1>1 DEF Reads
<1>5. PICK D, E :
        /\ Behind(p, k + 1, D) /\ Behind(p, k, E)'
        /\ Waiting(p, k + 1, D)[1] = PacketAt(Packet, r)
        /\ \A j \in 1 .. k : Waiting(p, k, E)'[j] = Waiting(p, k + 1, D)[j + 1]
  BY <1>4
<1>6. PICK i \in IDs :
        /\ i = InstanceID[p]
        /\ Waiting(p, k, E)' \in [1 .. k -> {Waiting(p, k, E)'[j] : j \in 1 .. k}]
        /\ Keeps(Inbox[p], Waiting(p, k + 1, D), k + 1, IDs \ {i})
        /\ Keeps(Inbox'[p], Waiting(p, k, E)', k, IDs \ {i})
  BY <1>0, <1>1, <1>5, InboxReadings
<1> DEFINE s == Waiting(p, k + 1, D)
           t == Waiting(p, k, E)'
           x == PacketAt(Packet, r)
<1>7. Inbox[p] = One(x, IDs \ {i}) \o Inbox'[p] /\ Inbox'[p] \in Seq({t[j] : j \in 1 .. k})
  <2>1. Shifted(t, s, k) /\ s[1] = x
    BY <1>5 DEF Shifted
  <2>2. t \in [1 .. k -> {t[j] : j \in 1 .. k}]
    BY <1>6
  <2> HIDE DEF s, t, x
  <2>3. Keeps(Inbox[p], s, k + 1, IDs \ {i}) /\ Keeps(Inbox'[p], t, k, IDs \ {i})
    BY <1>6 DEF s, t
  <2>4. IsConcat(Inbox[p], One(s[1], IDs \ {i}), Inbox'[p])
    BY <1>4, <2>1, <2>3, KeepsLess
  <2>5. Inbox'[p] \in Seq({t[j] : j \in 1 .. k})
    BY <1>4, <2>2, <2>3, KeepsFacts
  <2> QED BY <2>1, <2>4, <2>5 DEF IsConcat
<1>8. x.h = h
  BY DEF PacketAt
<1>9. \A q \in Procs : q # p => Inbox'[q] = Inbox[q]
  <2>1. \A q \in Procs : q # p => ReadOffset'[q][Packet] = ReadOffset[q][Packet]
    <3>1. \E v : ReadOffset' = [ReadOffset EXCEPT ![p][Packet] = v]
      BY DEF RecvFrame
    <3> QED BY <1>0, <3>1 DEF MPTypes, Processes
  <2> QED BY <1>0, <1>1, <2>1, InboxStays
<1>10. FIFORead(Packet, r, 1)[1] = h
  BY <1>2, PlaceFacts DEF FIFORead
<1>11. CASE h.SenderID = i
  <2>1. One(x, IDs \ {i}) = <<>>
    BY <1>8, <1>11 DEF One
  <2>2. Inbox'[p] = Inbox[p]
    <3> DEFINE y == Inbox'[p]
               Y == {t[j] : j \in 1 .. k}
    <3>1. Inbox[p] = <<>> \o y /\ y \in Seq(Y)
      BY <1>7, <2>1
    <3> HIDE DEF y, Y
    <3>2. <<>> \o y = y
      BY <3>1
    <3> QED BY <3>1, <3>2 DEF y
  <2>3. UNCHANGED <<out, cmd, duty>>
    <3> HIDE DEF h
    <3> QED BY <1>1, <1>6, <1>10, <1>11 DEF RecvFrame
  <2> QED BY <1>1, <1>9, <2>2, <2>3, InboxFunction
<1>12. CASE h.SenderID # i
  <2>1. One(x, IDs \ {i}) = <<x>>
    BY <1>3, <1>8, <1>12 DEF One
  <2>2. out' = [out EXCEPT ![p] = x]
    <3>1. out' = [out EXCEPT ![p] = [h |-> h, body |-> FIFORead(Packet, NextOffset(Packet, r, 1), h.Length)]]
      <4> HIDE DEF h
      <4> QED BY <1>1, <1>6, <1>10, <1>12 DEF RecvFrame
    <3> QED BY <3>1 DEF PacketAt
  <2>3. Inbox[p] # <<>> /\ Head(Inbox[p]) = x /\ Tail(Inbox[p]) = Inbox'[p]
    <3> DEFINE y == Inbox'[p]
               Y == {t[j] : j \in 1 .. k}
    <3>1. Inbox[p] = <<x>> \o y /\ y \in Seq(Y)
      BY <1>7, <2>1
    <3> HIDE DEF y, Y, x
    <3>2. <<x>> \o y # <<>> /\ Head(<<x>> \o y) = x /\ Tail(<<x>> \o y) = y
      BY <3>1
    <3> QED BY <3>1, <3>2 DEF y
  <2>4. Inbox' = [Inbox EXCEPT ![p] = Tail(@)]
    BY <1>9, <2>3, InboxFunction
  <2>5. Channel!Deliver(p)
    <3> HIDE DEF x
    <3> QED BY <1>1, <2>2, <2>3, <2>4 DEF Channel!Deliver
  <2>6. Takes(p, h)
    <3> HIDE DEF h
    <3> QED BY <1>1, <1>6, <1>10, <1>12 DEF RecvFrame, Takes
  <2> QED BY <1>8, <2>3, <2>5, <2>6
<1> QED BY <1>11, <1>12

\* The timestamps of SendCmd's frames, and of the frames between them.
ClockInv == clock \in Times \cup {0}

LEMMA StepKeepsClock == ClockInv /\ [Next]_vars => ClockInv'
<1> SUFFICES ASSUME ClockInv, [Next]_vars PROVE ClockInv'
  OBVIOUS
<1> USE DEF members, rings, locals, wifi, counts
<1>1. CASE UNCHANGED vars
  BY <1>1 DEF vars, ClockInv
<1>2. ASSUME NEW p \in Procs, Step(p) PROVE ClockInv'
  <2>1. CASE \E len \in Lengths, ts \in Times, d \in Data : SendCmd(p, len, ts, d)
    BY <2>1 DEF SendCmd, ClockInv
  <2>2. ASSUME clock' = clock PROVE ClockInv'
    BY <2>2 DEF ClockInv
  <2>3. CASE \/ Attach(p) \/ Create(p) \/ Format(p) \/ Join(p) \/ DeInit(p) \/ Begin(p) \/ End(p)
             \/ WifiReset(p) \/ PostFrame(p) \/ PostReply(p) \/ RecvStart(p) \/ HostGone(p)
             \/ RecvWait(p) \/ RecvFrame(p) \/ RepliesWait(p) \/ RecvReply(p)
    BY <2>2, <2>3 DEF Attach, Create, Format, Join, DeInit, Begin, End, WifiReset, PostFrame, PostReply,
                      RecvStart, HostGone, RecvWait, RecvFrame, RepliesWait, RecvReply
  <2>4. CASE \/ \E type \in FrameTypes, len \in Lengths, d \in Data : SendFrame(p, type, len, d)
             \/ \E len \in Lengths : SendReply(p, len)
             \/ \E aids \in SUBSET (Procs \ {0}) : RepliesStart(p, aids)
    BY <2>2, <2>4 DEF SendFrame, SendReply, RepliesStart
  <2> QED BY <1>2, <2>1, <2>3, <2>4 DEF Step
<1> QED BY <1>1, <1>2 DEF Next

\* Everyone else whose wifi is on gets the frame; the sender skips its own.
LEMMA BroadcastIsSend ==
  ASSUME WakeInv, MPTypes', RoomForAll, ReadersKeepUp, ClockInv, NEW p \in Procs, NEW h, Broadcasts(p, h)
  PROVE  [h |-> h, body |-> Body(h)] \in Frames /\ Channel!Send(p, [h |-> h, body |-> Body(h)])
<1>0. MPTypes /\ MembersInv /\ HeadersWhole /\ Connections /\ OneEach
  BY DEF WakeInv
<1> DEFINE frame == [h |-> h, body |-> Body(h)]
<1>1. /\ h \in FrameHeaders /\ h.SenderID = InstanceID[p] /\ PowerOn[p] /\ pc[p] = "idle"
      /\ UNCHANGED <<InstanceID, PowerOn, out>>
  BY DEF Broadcasts
<1>2. frame \in Frames
  <2>1. h \in [magic : {TRUE}, SenderID : IDs, Type : FrameTypes \cup {1}, aid : {0},
               Length : Lengths, Timestamp : Times \cup {0}, data : Data]
    BY <1>1 DEF FrameHeaders, ClockInv
  <2> QED BY <2>1 DEF Frames
<1> HIDE DEF frame
<1>3. ASSUME NEW q \in Procs, PowerOn[q]
      PROVE  Inbox'[q] = IF q # p THEN Append(Inbox[q], frame) ELSE Inbox[q]
  <2>1. PICK k, D : Behind(q, k, D) /\ Joins(q, k, D, h)
    BY <1>0, <1>3, BroadcastKeepsLag DEF Gets
  <2>2. PICK E : /\ Behind(q, k + 1, E)'
                 /\ \A j \in 1 .. k : Waiting(q, k + 1, E)'[j] = Waiting(q, k, D)[j]
                 /\ Waiting(q, k + 1, E)'[k + 1] = frame
    BY <2>1 DEF Joins, frame
  <2>3. PICK i \in IDs :
          /\ i = InstanceID[q] /\ k \in Nat
          /\ Waiting(q, k, D) \in [1 .. k -> {Waiting(q, k, D)[j] : j \in 1 .. k}]
          /\ Waiting(q, k + 1, E)' \in [1 .. k + 1 -> {Waiting(q, k + 1, E)'[j] : j \in 1 .. k + 1}]
          /\ Keeps(Inbox[q], Waiting(q, k, D), k, IDs \ {i})
          /\ Keeps(Inbox'[q], Waiting(q, k + 1, E)', k + 1, IDs \ {i})
    BY <1>0, <1>1, <1>3, <2>1, <2>2, InboxReadings
  <2> DEFINE s == Waiting(q, k, D)
             t == Waiting(q, k + 1, E)'
             P == {s[j] : j \in 1 .. k} \cup {t[j] : j \in 1 .. k + 1}
  <2>4. s \in [1 .. k -> P] /\ t \in [1 .. k + 1 -> P] /\ Begins(t, s, k) /\ t[k + 1] = frame /\ frame \in P
    <3>1. k + 1 \in 1 .. k + 1
      BY <2>3
    <3>2. Begins(t, s, k) /\ t[k + 1] = frame
      BY <2>2 DEF Begins
    <3>3. \A j \in 1 .. k : s[j] \in P
      OBVIOUS
    <3>4. \A j \in 1 .. k + 1 : t[j] \in P
      OBVIOUS
    <3>5. DOMAIN s = 1 .. k /\ s = [j \in 1 .. k |-> s[j]] /\ t = [j \in 1 .. k + 1 |-> t[j]]
      BY <2>3
    <3> HIDE DEF s, t, P
    <3>6. frame \in P
      BY <3>1, <3>2, <3>4
    <3> QED BY <3>2, <3>3, <3>4, <3>5, <3>6
  <2>5. Keeps(Inbox[q], s, k, IDs \ {i}) /\ Keeps(Inbox'[q], t, k + 1, IDs \ {i})
    BY <2>3
  <2> HIDE DEF s, t, P
  <2>6. IsConcat(Inbox'[q], Inbox[q], One(frame, IDs \ {i})) /\ Inbox[q] \in Seq(P)
    <3>1. IsConcat(Inbox'[q], Inbox[q], One(t[k + 1], IDs \ {i}))
      BY <2>3, <2>4, <2>5, KeepsMore
    <3>2. Inbox[q] \in Seq(P)
      BY <2>3, <2>4, <2>5, KeepsFacts
    <3> QED BY <2>4, <3>1, <3>2
  <2>7. frame.h.SenderID = InstanceID[p] /\ InstanceID[p] \in IDs
    BY <1>0, <1>1 DEF frame, MPTypes, Processes
  <2>8. CASE q = p
    <3>1. One(frame, IDs \ {i}) = <<>>
      BY <2>3, <2>7, <2>8 DEF One
    <3>2. Inbox[q] \o <<>> = Inbox[q]
      BY <2>6
    <3> QED BY <2>6, <2>8, <3>1, <3>2 DEF IsConcat
  <2>9. CASE q # p
    <3>1. InstanceID[p] \in IDs \ {i}
      BY <1>0, <1>1, <1>3, <2>3, <2>7, <2>9, Apart
    <3>2. One(frame, IDs \ {i}) = <<frame>>
      BY <2>7, <3>1 DEF One
    <3>3. Inbox[q] \o <<frame>> = Append(Inbox[q], frame)
      BY <2>4, <2>6
    <3> QED BY <2>6, <2>9, <3>2, <3>3 DEF IsConcat
  <2> QED BY <2>8, <2>9
<1>4. ASSUME NEW q \in Procs, ~PowerOn[q] PROVE Inbox'[q] = Inbox[q]
  <2>1. ~PowerOn'[q]
    BY <1>1, <1>4
  <2>2. Inbox[q] = <<>>
    BY <1>0, <1>4, LawsHold DEF InboxLaw
  <2>3. Inbox'[q] = <<>>
    BY <2>1, LawsHold DEF InboxLaw
  <2> QED BY <2>2, <2>3
<1>5. Inbox' = [q \in Procs |-> IF PowerOn[q] /\ q # p THEN Append(Inbox[q], frame) ELSE Inbox[q]]
  <2>1. \A q \in Procs : Inbox'[q] = IF PowerOn[q] /\ q # p THEN Append(Inbox[q], frame) ELSE Inbox[q]
    BY <1>3, <1>4
  <2> QED BY <2>1, InboxFunction
<1>6. Channel!Send(p, frame)
  BY <1>1, <1>5 DEF Channel!Send
<1> QED BY <1>2, <1>6 DEF frame

LEMMA StepRefines ==
  WakeInv /\ WakeInv' /\ ClockInv /\ KeptUp /\ [Next]_vars /\ [BeginsQuietly]_vars
    => [Channel!Next]_<<PowerOn, Inbox, out>>
<1> SUFFICES ASSUME WakeInv, WakeInv', ClockInv, KeptUp, [Next]_vars, [BeginsQuietly]_vars
             PROVE  Channel!Next \/ UNCHANGED <<PowerOn, Inbox, out>>
  OBVIOUS
<1>0. /\ MPTypes /\ MembersInv /\ HeadersWhole /\ Connections /\ OneEach /\ MPTypes'
      /\ SegmentStays /\ RoomForAll /\ ReadersKeepUp
  BY DEF WakeInv, KeptUp
<1>1. CASE UNCHANGED vars
  <2>1. UNCHANGED <<mem, WriteOffset, ReadOffset, InstanceID, PowerOn, out>>
    BY <1>1 DEF vars, rings, locals, wifi
  <2> QED BY <1>0, <2>1, WakingIsNothing
<1>2. ASSUME NEW p \in Procs, Step(p), BeginsQuietly PROVE Channel!Next \/ UNCHANGED <<PowerOn, Inbox, out>>
  <2>1. CASE Begin(p)
    BY <1>0, <1>2, <2>1, BeginIsSwitch DEF Channel!Next
  <2>2. CASE RecvWait(p) \/ PostFrame(p)
    <3>1. UNCHANGED <<mem, WriteOffset, ReadOffset, InstanceID, PowerOn, out>>
      BY <2>2 DEF RecvWait, PostFrame, rings, locals, wifi
    <3> QED BY <1>0, <3>1, WakingIsNothing
  <2>3. CASE RecvFrame(p)
    BY <1>0, <2>3, ReadIsDelivery DEF Channel!Next
  <2>4. CASE \/ \E type \in FrameTypes, len \in Lengths, d \in Data : SendFrame(p, type, len, d)
             \/ \E len \in Lengths, ts \in Times, d \in Data : SendCmd(p, len, ts, d)
    <3>1. PICK h : Broadcasts(p, h)
      BY <1>0, <2>4, SendIsBroadcast
    <3> QED BY <1>0, <3>1, BroadcastIsSend DEF Channel!Next
  <2>5. CASE Create(p) \/ Format(p)
    BY <1>0, <2>5 DEF Create, Format, MembersInv
  <2>6. CASE \/ Attach(p) \/ Join(p) \/ DeInit(p) \/ End(p) \/ WifiReset(p)
             \/ \E len \in Lengths : SendReply(p, len)
             \/ PostReply(p) \/ RecvStart(p) \/ HostGone(p)
             \/ \E aids \in SUBSET (Procs \ {0}) : RepliesStart(p, aids)
             \/ RepliesWait(p) \/ RecvReply(p)
    BY <1>0, <2>6, AsideIsSwitchOrNothing DEF Channel!Next
  <2> QED BY <1>2, <2>1, <2>2, <2>3, <2>4, <2>5, <2>6 DEF Step
<1>3. UNCHANGED vars \/ ((\E p \in Procs : Step(p)) /\ BeginsQuietly)
  BY DEF Next
<1> QED BY <1>1, <1>2, <1>3

LEMMA InitRefines == Init => Channel!Init
<1> SUFFICES ASSUME Init PROVE Channel!Init
  OBVIOUS
<1>1. PowerOn = [q \in Procs |-> FALSE] /\ out = [q \in Procs |-> NoFrame]
  BY DEF Init
<1>2. Inbox = [q \in Procs |-> <<>>]
  BY <1>1 DEF Inbox
<1> QED BY <1>1, <1>2 DEF Channel!Init

\* Under the same conditions as WakeupsMatchFrames: the rings, offsets and semaphores of
\* LocalMP.cpp implement a broadcast channel.  Every frame of SendPacketGeneric is read
\* by every other instance whose wifi is on, once, in the order sent and whole, wherever
\* it wraps round the ring and however senders, posts and readers interleave.
THEOREM RingsImplementChannel ==
  KeptUp /\ Spec /\ [][BeginsQuietly]_vars => ImplementsChannel
<1> DEFINE I == WakeInv /\ KeptUp /\ ClockInv
<1>1. KeptUp /\ Init => I /\ Channel!Init
  BY InitWake, InitRefines DEF ClockInv, Init
<1>2. I /\ [Next]_vars /\ [BeginsQuietly]_vars => I'
  BY StepKeepsWake, StepKeepsClock DEF KeptUp, SegmentStays, RoomForAll, ReadersKeepUp, Span
<1>3. I /\ I' /\ [Next]_vars /\ [BeginsQuietly]_vars => [Channel!Next]_<<PowerOn, Inbox, out>>
  BY StepRefines
<1>4. [Channel!Next]_<<PowerOn, Inbox, out>> => [Channel!Next]_Channel!vars
  BY DEF Channel!vars
<1> HIDE DEF I
<1> QED BY <1>1, <1>2, <1>3, <1>4, PTL DEF Spec, ImplementsChannel, Channel!Spec

-----------------------------------------------------------------------------
(* Timestamps *)

\* CMD frames are further apart than a reply may be late.
StampsApart == StaleWindow < TSMod /\ \A s, t \in Times : s < t => t - s > StaleWindow

LEMMA TimesFacts == Times \cup {0} \subseteq Nat /\ \A t \in Times : t \in Nat /\ t > 0
  BY BoundsAssumption DEF BoundsAssumption

\* The CMD frames of s lie between two times, and in order.
InOrder(s, lo, hi) ==
  /\ s \in Seq(Frames)
  /\ \A j \in 1 .. Len(s) : s[j].h.Type = 1 =>
       /\ s[j].h.Timestamp \in Times /\ lo <= s[j].h.Timestamp /\ s[j].h.Timestamp <= hi
       /\ \A l \in 1 .. j : s[l].h.Type = 1 => s[l].h.Timestamp <= s[j].h.Timestamp

LEMMA EmptyInOrder == \A lo, hi : InOrder(<<>>, lo, hi)
  BY DEF InOrder

LEMMA AppendInOrder ==
  ASSUME NEW s, NEW lo \in Nat, NEW hi \in Nat, InOrder(s, lo, hi), lo <= hi,
         NEW frame \in Frames, NEW top \in Nat,
         IF frame.h.Type = 1 THEN hi <= frame.h.Timestamp /\ frame.h.Timestamp \in Times /\ top = frame.h.Timestamp
                             ELSE top = hi
  PROVE  InOrder(Append(s, frame), lo, top)
<1> DEFINE t == Append(s, frame)
<1>1. s \in Seq(Frames) /\ t \in Seq(Frames) /\ Len(t) = Len(s) + 1 /\ t[Len(t)] = frame
      /\ \A j \in 1 .. Len(s) : t[j] = s[j]
  BY DEF InOrder
<1> HIDE DEF t
<1>2. hi <= top
  OBVIOUS
<1>3. ASSUME NEW j \in 1 .. Len(t), t[j].h.Type = 1
      PROVE  /\ t[j].h.Timestamp \in Times /\ lo <= t[j].h.Timestamp /\ t[j].h.Timestamp <= top
             /\ \A l \in 1 .. j : t[l].h.Type = 1 => t[l].h.Timestamp <= t[j].h.Timestamp
  <2>1. CASE j \in 1 .. Len(s)
    <3>1. /\ s[j].h.Timestamp \in Times /\ lo <= s[j].h.Timestamp /\ s[j].h.Timestamp <= hi
          /\ \A l \in 1 .. j : s[l].h.Type = 1 => s[l].h.Timestamp <= s[j].h.Timestamp
      BY <1>1, <1>3, <2>1 DEF InOrder
    <3>2. \A l \in 1 .. j : t[l] = s[l]
      BY <1>1, <2>1
    <3>3. t[j] = s[j] /\ s[j].h.Timestamp \in Nat
      BY <1>1, <2>1, <3>1, TimesFacts
    <3> QED BY <1>2, <3>1, <3>2, <3>3
  <2>2. CASE j = Len(s) + 1
    <3>1. t[j] = frame /\ frame.h.Type = 1 /\ frame.h.Timestamp \in Times /\ frame.h.Timestamp \in Nat
      BY <1>1, <1>3, <2>2, TimesFacts
    <3>2. ASSUME NEW l \in 1 .. j, t[l].h.Type = 1 PROVE t[l].h.Timestamp <= frame.h.Timestamp
      <4>1. CASE l \in 1 .. Len(s)
        <5>1. s[l].h.Timestamp \in Times /\ s[l].h.Timestamp <= hi /\ t[l] = s[l]
          BY <1>1, <3>2, <4>1 DEF InOrder
        <5>2. s[l].h.Timestamp \in Nat
          BY <5>1, TimesFacts
        <5> QED BY <3>1, <5>1, <5>2
      <4>2. CASE l = j
        BY <3>1, <4>2
      <4> QED BY <1>1, <2>2, <4>1, <4>2
    <3> QED BY <3>1, <3>2
  <2> QED BY <1>1, <2>1, <2>2
<1> QED BY <1>1, <1>3 DEF InOrder, t

LEMMA RaiseInOrder ==
  ASSUME NEW s, NEW lo \in Nat, NEW hi \in Nat, InOrder(s, lo, hi),
         NEW top \in Nat, hi <= top
  PROVE  InOrder(s, lo, top)
<1>1. ASSUME NEW j \in 1 .. Len(s), s[j].h.Type = 1
      PROVE  /\ s[j].h.Timestamp \in Times /\ lo <= s[j].h.Timestamp /\ s[j].h.Timestamp <= top
             /\ \A l \in 1 .. j : s[l].h.Type = 1 => s[l].h.Timestamp <= s[j].h.Timestamp
  <2>1. /\ s[j].h.Timestamp \in Times /\ lo <= s[j].h.Timestamp /\ s[j].h.Timestamp <= hi
        /\ \A l \in 1 .. j : s[l].h.Type = 1 => s[l].h.Timestamp <= s[j].h.Timestamp
    BY <1>1 DEF InOrder
  <2>2. s[j].h.Timestamp \in Nat
    BY <2>1, TimesFacts
  <2> QED BY <2>1, <2>2
<1> QED BY <1>1 DEF InOrder

LEMMA TailInOrder ==
  ASSUME NEW s, NEW lo \in Nat, NEW hi \in Nat, InOrder(s, lo, hi), s # <<>>, lo <= hi
  PROVE  LET h == Head(s).h
             new == IF h.Length > 0 /\ h.Type = 1 THEN h.Timestamp ELSE lo
         IN  /\ InOrder(Tail(s), new, hi) /\ lo <= new /\ new <= hi
             /\ h.Type = 1 => h.Timestamp \in Times
<1> DEFINE h == Head(s).h
           new == IF h.Length > 0 /\ h.Type = 1 THEN h.Timestamp ELSE lo
           t == Tail(s)
<1>1. /\ s \in Seq(Frames) /\ t \in Seq(Frames) /\ Len(t) = Len(s) - 1 /\ Len(s) >= 1 /\ Len(s) \in Nat
      /\ s[1].h = h /\ \A j \in 1 .. Len(t) : t[j] = s[j + 1]
  BY DEF InOrder
<1> HIDE DEF t, h
<1>2. h.Type = 1 => h.Timestamp \in Times /\ lo <= h.Timestamp /\ h.Timestamp <= hi
  <2>1. 1 \in 1 .. Len(s)
    BY <1>1
  <2> QED BY <1>1, <2>1 DEF InOrder
<1>3. lo <= new /\ new <= hi
  BY <1>2
<1>4. ASSUME NEW j \in 1 .. Len(t), t[j].h.Type = 1
      PROVE  /\ t[j].h.Timestamp \in Times /\ new <= t[j].h.Timestamp /\ t[j].h.Timestamp <= hi
             /\ \A l \in 1 .. j : t[l].h.Type = 1 => t[l].h.Timestamp <= t[j].h.Timestamp
  <2>1. j + 1 \in 1 .. Len(s) /\ t[j] = s[j + 1] /\ 1 \in 1 .. j + 1
    BY <1>1
  <2>2. /\ s[j + 1].h.Timestamp \in Times /\ lo <= s[j + 1].h.Timestamp /\ s[j + 1].h.Timestamp <= hi
        /\ \A l \in 1 .. j + 1 : s[l].h.Type = 1 => s[l].h.Timestamp <= s[j + 1].h.Timestamp
    BY <1>4, <2>1 DEF InOrder
  <2>3. new <= s[j + 1].h.Timestamp
    BY <1>1, <2>1, <2>2
  <2>4. \A l \in 1 .. j : l + 1 \in 1 .. j + 1 /\ t[l] = s[l + 1]
    BY <1>1
  <2> QED BY <2>1, <2>2, <2>3, <2>4
<1>5. InOrder(t, new, hi)
  BY <1>1, <1>4 DEF InOrder
<1> QED BY <1>2, <1>3, <1>5 DEF t, h

\* CMD frames are read in the order of their timestamps: what a client has to read is
\* no older than the CMD it received last, and none is newer than the last one sent.
Stamps ==
  /\ clock \in Times \cup {0} /\ cmd \in [Procs -> Times \cup {0}]
  /\ duty = [p \in Procs |-> duty[p]]
  /\ \A p \in Procs : /\ cmd[p] <= clock /\ InOrder(Inbox[p], cmd[p], clock)
                      /\ duty[p] = "reply" => cmd[p] \in Times

\* What the steps do to that.
Idles ==
  /\ UNCHANGED <<cmd, clock>>
  /\ \A q \in Procs : Inbox'[q] = Inbox[q] \/ Inbox'[q] = <<>>
  /\ duty' = duty \/ \E p \in Procs : duty' = [duty EXCEPT ![p] = "none"]
Delivers == \E p \in Procs : Channel!Deliver(p) /\ Takes(p, Head(Inbox[p]).h)
Sends ==
  \E p \in Procs : \E h :
    /\ Broadcasts(p, h)
    /\ [h |-> h, body |-> Body(h)] \in Frames /\ Channel!Send(p, [h |-> h, body |-> Body(h)])

LEMMA InboxMoves ==
  /\ \A p \in Procs : Channel!Switch(p) => \A q \in Procs : Inbox'[q] = Inbox[q] \/ Inbox'[q] = <<>>
  /\ UNCHANGED Inbox => \A q \in Procs : Inbox'[q] = Inbox[q]
<1>1. ASSUME NEW p \in Procs, Channel!Switch(p), NEW q \in Procs
      PROVE  Inbox'[q] = Inbox[q] \/ Inbox'[q] = <<>>
  <2>1. Inbox' = [Inbox EXCEPT ![p] = <<>>]
    BY <1>1 DEF Channel!Switch
  <2> QED BY <2>1, InboxFunction
<1> QED BY <1>1

LEMMA StepsOnFrames ==
  ASSUME WakeInv, WakeInv', ClockInv, KeptUp, [Next]_vars, [BeginsQuietly]_vars
  PROVE  Idles \/ Delivers \/ Sends
<1> USE DEF members, rings, locals, wifi, counts
<1>0. /\ MPTypes /\ MembersInv /\ HeadersWhole /\ Connections /\ OneEach /\ MPTypes'
      /\ SegmentStays /\ RoomForAll /\ ReadersKeepUp
  BY DEF WakeInv, KeptUp
<1>1. CASE UNCHANGED vars
  <2>1. UNCHANGED <<mem, WriteOffset, ReadOffset, InstanceID, PowerOn, out, cmd, clock, duty>>
    BY <1>1 DEF vars
  <2>2. UNCHANGED Inbox
    BY <1>0, <2>1, WakingIsNothing
  <2> QED BY <2>1, <2>2 DEF Idles
<1>2. ASSUME NEW p \in Procs, Step(p), BeginsQuietly PROVE Idles \/ Delivers \/ Sends
  <2>1. CASE Begin(p)
    <3>1. UNCHANGED <<cmd, clock, duty>>
      BY <2>1 DEF Begin
    <3>2. Channel!Switch(p)
      BY <1>0, <1>2, <2>1, BeginIsSwitch
    <3> QED BY <3>1, <3>2, InboxMoves DEF Idles
  <2>2. CASE RecvWait(p) \/ PostFrame(p)
    <3>1. UNCHANGED <<mem, WriteOffset, ReadOffset, InstanceID, PowerOn, out, cmd, clock, duty>>
      BY <2>2 DEF RecvWait, PostFrame
    <3>2. UNCHANGED Inbox
      BY <1>0, <3>1, WakingIsNothing
    <3> QED BY <3>1, <3>2 DEF Idles
  <2>3. CASE RecvFrame(p)
    <3>1. CASE UNCHANGED <<PowerOn, Inbox, out, cmd, duty>>
      <4>1. clock' = clock
        BY <2>3 DEF RecvFrame
      <4> QED BY <3>1, <4>1 DEF Idles
    <3>2. CASE Channel!Deliver(p) /\ Takes(p, Head(Inbox[p]).h)
      BY <3>2 DEF Delivers
    <3> QED BY <1>0, <2>3, <3>1, <3>2, ReadIsDelivery
  <2>4. CASE \/ \E type \in FrameTypes, len \in Lengths, d \in Data : SendFrame(p, type, len, d)
             \/ \E len \in Lengths, ts \in Times, d \in Data : SendCmd(p, len, ts, d)
    <3>1. PICK h : Broadcasts(p, h)
      BY <1>0, <2>4, SendIsBroadcast
    <3>2. [h |-> h, body |-> Body(h)] \in Frames /\ Channel!Send(p, [h |-> h, body |-> Body(h)])
      BY <1>0, <3>1, BroadcastIsSend
    <3> QED BY <3>1, <3>2 DEF Sends
  <2>5. CASE Create(p) \/ Format(p)
    BY <1>0, <2>5 DEF Create, Format, MembersInv
  <2>6. CASE \/ Attach(p) \/ Join(p) \/ DeInit(p) \/ End(p) \/ WifiReset(p)
             \/ \E len \in Lengths : SendReply(p, len)
             \/ PostReply(p) \/ RecvStart(p) \/ HostGone(p)
             \/ \E aids \in SUBSET (Procs \ {0}) : RepliesStart(p, aids)
             \/ RepliesWait(p) \/ RecvReply(p)
    <3>1. UNCHANGED <<cmd, clock>> /\ (duty' = duty \/ duty' = [duty EXCEPT ![p] = "none"])
      BY <2>6 DEF Attach, Join, DeInit, End, WifiReset, SendReply, PostReply, RecvStart, HostGone,
                  RepliesStart, RepliesWait, RecvReply
    <3>2. Channel!Switch(p) \/ UNCHANGED Inbox
      BY <1>0, <2>6, AsideIsSwitchOrNothing
    <3> QED BY <3>1, <3>2, InboxMoves DEF Idles
  <2> QED BY <1>2, <2>1, <2>2, <2>3, <2>4, <2>5, <2>6 DEF Step
<1>3. UNCHANGED vars \/ ((\E p \in Procs : Step(p)) /\ BeginsQuietly)
  BY DEF Next
<1> QED BY <1>1, <1>2, <1>3

CmdsGrow == \A q \in Procs : cmd[q] <= cmd'[q]

LEMMA StepKeepsStamps ==
  ASSUME Stamps, Idles \/ Delivers \/ Sends
  PROVE  Stamps' /\ CmdsGrow
<1>0. /\ clock \in Nat /\ \A q \in Procs : cmd[q] \in Nat /\ cmd[q] \in Times \cup {0} /\ cmd[q] <= clock
      /\ \A q \in Procs : InOrder(Inbox[q], cmd[q], clock)
  BY TimesFacts DEF Stamps
<1>1. CASE Idles
  <2>1. UNCHANGED <<cmd, clock>>
    BY <1>1 DEF Idles
  <2>2. \A q \in Procs : InOrder(Inbox'[q], cmd[q], clock)
    BY <1>0, <1>1, EmptyInOrder DEF Idles
  <2>3. /\ duty' = [q \in Procs |-> duty'[q]]
        /\ \A q \in Procs : duty'[q] = "reply" => duty[q] = "reply"
    BY <1>1 DEF Idles, Stamps
  <2>4. CmdsGrow
    BY <1>0, <2>1 DEF CmdsGrow
  <2>5. Stamps'
    BY <2>1, <2>2, <2>3 DEF Stamps
  <2> QED BY <2>4, <2>5
<1>2. CASE Delivers
  <2>1. PICK p \in Procs : Channel!Deliver(p) /\ Takes(p, Head(Inbox[p]).h)
    BY <1>2 DEF Delivers
  <2> DEFINE h == Head(Inbox[p]).h
             new == IF h.Length > 0 /\ h.Type = 1 THEN h.Timestamp ELSE cmd[p]
  <2>2. /\ Inbox[p] # <<>> /\ Inbox' = [Inbox EXCEPT ![p] = Tail(Inbox[p])]
    BY <2>1 DEF Channel!Deliver
  <2>3. /\ InOrder(Tail(Inbox[p]), new, clock) /\ cmd[p] <= new /\ new <= clock
        /\ h.Type = 1 => h.Timestamp \in Times
    BY <1>0, <2>2, TailInOrder
  <2>4. /\ clock' = clock /\ cmd' = [cmd EXCEPT ![p] = new]
        /\ duty' = [duty EXCEPT ![p] = IF h.Length > 0 /\ h.Type = 1 THEN "reply" ELSE duty[p]]
    BY <2>1 DEF Takes
  <2>5. new \in Times \cup {0} /\ new \in Nat
    BY <1>0, <2>3, TimesFacts
  <2>6. (h.Length > 0 /\ h.Type = 1) => new \in Times
    BY <2>3
  <2>7. ~(h.Length > 0 /\ h.Type = 1) => new = cmd[p]
    OBVIOUS
  <2> DEFINE host == h.Length > 0 /\ h.Type = 1
  <2> HIDE DEF new, h, host
  <2>8. cmd'[p] = new /\ cmd' \in [Procs -> Times \cup {0}] /\ \A q \in Procs : q # p => cmd'[q] = cmd[q]
    BY <2>4, <2>5 DEF Stamps
  <2>9. \A q \in Procs : InOrder(Inbox'[q], cmd'[q], clock') /\ cmd'[q] <= clock'
    <3>1. Inbox'[p] = Tail(Inbox[p]) /\ \A q \in Procs : q # p => Inbox'[q] = Inbox[q]
      BY <2>2, InboxFunction
    <3> QED BY <1>0, <2>3, <2>4, <2>8, <3>1
  <2>10. /\ duty' = [q \in Procs |-> duty'[q]]
         /\ \A q \in Procs : duty'[q] = "reply" => cmd'[q] \in Times
    <3>1. duty' = [duty EXCEPT ![p] = IF host THEN "reply" ELSE duty[p]]
      BY <2>4 DEF host
    <3>2. (host => new \in Times) /\ (~host => new = cmd[p])
      BY <2>6, <2>7 DEF host
    <3>3. duty' = [q \in Procs |-> duty'[q]]
      BY <3>1 DEF Stamps
    <3>4. \A q \in Procs : q # p => duty'[q] = duty[q]
      BY <3>1 DEF Stamps
    <3>5. host \/ (~host /\ duty'[p] = duty[p])
      BY <3>1 DEF Stamps
    <3> QED BY <2>8, <3>2, <3>3, <3>4, <3>5 DEF Stamps
  <2>11. CmdsGrow
    BY <1>0, <2>3, <2>5, <2>8 DEF CmdsGrow
  <2>12. Stamps'
    BY <2>4, <2>8, <2>9, <2>10 DEF Stamps
  <2> QED BY <2>11, <2>12
<1>3. CASE Sends
  <2>1. PICK p \in Procs : \E h :
          /\ Broadcasts(p, h)
          /\ [h |-> h, body |-> Body(h)] \in Frames /\ Channel!Send(p, [h |-> h, body |-> Body(h)])
    BY <1>3 DEF Sends
  <2>2. PICK h :
          /\ Broadcasts(p, h)
          /\ [h |-> h, body |-> Body(h)] \in Frames /\ Channel!Send(p, [h |-> h, body |-> Body(h)])
    BY <2>1
  <2> DEFINE frame == [h |-> h, body |-> Body(h)]
  <2>3. /\ IF h.Type = 1 THEN clock < h.Timestamp /\ h.Timestamp \in Times /\ clock' = h.Timestamp
                         ELSE clock' = clock
        /\ duty' = duty \/ duty' = [duty EXCEPT ![p] = "collect"]
        /\ cmd' = cmd
    BY <2>2 DEF Broadcasts
  <2>4. clock' \in Times \cup {0} /\ clock' \in Nat /\ clock <= clock'
    BY <1>0, <2>3, TimesFacts DEF Stamps
  <2>5. ASSUME NEW q \in Procs PROVE InOrder(Inbox'[q], cmd[q], clock')
    <3>1. frame.h = h /\ frame \in Frames
      BY <2>2
    <3>2. IF frame.h.Type = 1
          THEN clock <= frame.h.Timestamp /\ frame.h.Timestamp \in Times /\ clock' = frame.h.Timestamp
          ELSE clock' = clock
      <4>1. h.Timestamp \in Times => h.Timestamp \in Nat
        BY TimesFacts
      <4> HIDE DEF frame
      <4> QED BY <1>0, <2>3, <3>1, <4>1
    <3>3. Inbox'[q] = Append(Inbox[q], frame) \/ Inbox'[q] = Inbox[q]
      <4>1. Inbox' = [k \in Procs |-> IF PowerOn[k] /\ k # p THEN Append(Inbox[k], frame) ELSE Inbox[k]]
        BY <2>2 DEF Channel!Send
      <4> HIDE DEF frame
      <4> QED BY <4>1
    <3> HIDE DEF frame
    <3>4. InOrder(Append(Inbox[q], frame), cmd[q], clock')
      BY <1>0, <2>4, <3>1, <3>2, AppendInOrder
    <3>5. InOrder(Inbox[q], cmd[q], clock')
      BY <1>0, <2>4, RaiseInOrder
    <3> QED BY <3>3, <3>4, <3>5
  <2>6. /\ duty' = [q \in Procs |-> duty'[q]]
        /\ \A q \in Procs : duty'[q] = "reply" => duty[q] = "reply"
    BY <2>3 DEF Stamps
  <2>7. CmdsGrow
    BY <1>0, <2>3 DEF CmdsGrow
  <2>8. \A q \in Procs : cmd[q] <= clock'
    BY <1>0, <2>4
  <2>9. Stamps'
    BY <2>3, <2>4, <2>5, <2>6, <2>8 DEF Stamps
  <2> QED BY <2>7, <2>9
<1> QED BY <1>1, <1>2, <1>3

-----------------------------------------------------------------------------
(* Replies *)

\* A reply with data carries its client's number, and the time of a CMD that client has
\* received.
ReplyOK(c, last) ==
  c.magic /\ c.Length > 0 =>
    /\ c.aid \in Procs /\ c.data \in Data
    /\ c.Timestamp \in Times /\ c.Timestamp <= last[c.aid]
RepliesStamped == \A o \in Area(Reply) : ReplyOK(mem[Reply][o], cmd)

\* What a host has collected: whole payloads, of clients that have received its CMD.
Payload(b) == \E d \in Data, l \in Lengths : b = Body([Length |-> l, data |-> d])
Fields(c) == [ret |-> c.ret, my |-> c.my, cur |-> c.cur, ts |-> c.ts,
              aids |-> c.aids, packets |-> c.packets]
Collects(c, last) ==
  /\ c = Fields(c) /\ c.ts \in Times \cup {0}
  /\ \A a \in c.ret : a \in Procs /\ a \in DOMAIN c.packets /\ last[a] >= c.ts /\ Payload(c.packets[a])
Collections == col = [p \in Procs |-> col[p]] /\ \A p \in Procs : Collects(col[p], cmd)

LEMMA BodyIsPayload == \A h : h.Length \in Lengths /\ h.data \in Data => Payload(Body(h))
<1> SUFFICES ASSUME NEW h, h.Length \in Lengths, h.data \in Data PROVE Payload(Body(h))
  OBVIOUS
<1>1. Body(h) = Body([Length |-> h.Length, data |-> h.data])
  BY DEF Body
<1> QED BY <1>1 DEF Payload

\* A reply no older than the window was sent for this CMD or a later one.
LEMMA FreshReply ==
  ASSUME StampsApart, NEW h, h.Timestamp \in Times, NEW ts \in Times \cup {0}, ~Stale(h, ts)
  PROVE  h.Timestamp >= ts
<1>1. /\ StaleWindow \in Nat /\ TSMod \in Nat \ {0} /\ StaleWindow < TSMod
      /\ ts \in 0 .. TSMod - 1 /\ h.Timestamp \in 1 .. TSMod - 1
      /\ ts \in Times => (h.Timestamp < ts => ts - h.Timestamp > StaleWindow)
  <2>1. StaleWindow < TSMod /\ \A s, t \in Times : s < t => t - s > StaleWindow
    BY DEF StampsApart
  <2>2. StaleWindow \in Nat /\ TSMod \in Nat \ {0} /\ Times \subseteq 1 .. TSMod - 1
    BY BoundsAssumption DEF BoundsAssumption
  <2>3. ts \in 0 .. TSMod - 1 /\ h.Timestamp \in 1 .. TSMod - 1
    <3>1. TSMod \in Nat /\ TSMod > 0 /\ h.Timestamp \in 1 .. TSMod - 1
      <4>1. \A t \in Times : t \in 1 .. TSMod - 1
        BY <2>2
      <4>2. TSMod \in Nat /\ TSMod > 0
        BY <2>2
      <4> QED BY <4>1, <4>2
    <3>2. CASE ts \in Times
      <4>1. ts \in 1 .. TSMod - 1
        BY <2>2, <3>2
      <4> QED BY <3>1, <4>1
    <3>3. CASE ts = 0
      BY <3>1, <3>3
    <3> QED BY <3>2, <3>3
  <2>4. ts \in Times => (h.Timestamp < ts => ts - h.Timestamp > StaleWindow)
    BY <2>1
  <2> QED BY <2>1, <2>2, <2>3, <2>4
<1>2. ~(h.Timestamp < (ts - StaleWindow) % TSMod)
  BY DEF Stale
<1>3. CASE ts >= StaleWindow
  <2>1. (ts - StaleWindow) % TSMod = ts - StaleWindow
    BY <1>1, <1>3
  <2>2. ts = 0 \/ ts \in Times
    OBVIOUS
  <2> QED BY <1>1, <1>2, <1>3, <2>1, <2>2
<1>4. CASE ts < StaleWindow
  <2>1. (ts - StaleWindow) % TSMod = ts - StaleWindow + TSMod
    BY <1>1, <1>4
  <2> QED BY <1>1, <1>2, <1>4, <2>1
<1> QED BY <1>1, <1>3, <1>4

LEMMA ReplyWriters ==
  ASSUME MPTypes, MembersInv, NEW p \in Procs, Step(p)
  PROVE  mem'[Reply] = mem[Reply] \/ \E len \in Lengths : SendReply(p, len)
<1>1. Reply # Packet /\ Reply \in Rings /\ mem = [f \in Rings |-> mem[f]]
  BY DEF Reply, Packet, Rings, MPTypes, RingsOK
<1>2. ASSUME NEW h, PutPacket(Packet, h) PROVE mem'[Reply] = mem[Reply]
  <2>1. PICK m : mem' = [mem EXCEPT ![Packet] = m]
    BY <1>2 DEF PutPacket
  <2> QED BY <1>1, <2>1
<1>3. CASE \/ \E type \in FrameTypes, len \in Lengths, d \in Data : SendFrame(p, type, len, d)
           \/ \E len \in Lengths, ts \in Times, d \in Data : SendCmd(p, len, ts, d)
  BY <1>2, <1>3 DEF SendFrame, SendCmd
<1>4. CASE Create(p) \/ Format(p)
  BY <1>4 DEF Create, Format, MembersInv
<1>5. CASE \/ Attach(p) \/ Join(p) \/ DeInit(p) \/ Begin(p) \/ End(p) \/ WifiReset(p)
           \/ PostFrame(p) \/ PostReply(p) \/ RecvStart(p) \/ HostGone(p)
           \/ RecvWait(p) \/ RecvFrame(p)
           \/ \E aids \in SUBSET (Procs \ {0}) : RepliesStart(p, aids)
           \/ RepliesWait(p) \/ RecvReply(p)
  BY <1>5 DEF Attach, Join, DeInit, Begin, End, WifiReset, PostFrame, PostReply, RecvStart, HostGone,
              RecvWait, RecvFrame, RepliesStart, RepliesWait, RecvReply, rings
<1> QED BY <1>3, <1>4, <1>5 DEF Step

\* A client answers the CMD it received last.
LEMMA ReplyKeepsStamps ==
  ASSUME MPTypes, Stamps, RepliesStamped, NEW p \in Procs, NEW len \in Lengths, SendReply(p, len)
  PROVE  RepliesStamped'
<1>1. PICK d \in Data : PutPacket(Reply, Header(p, 2, IF len = 0 THEN 0 ELSE p, len, cmd[p], d))
  BY DEF SendReply
<1> DEFINE h == Header(p, 2, IF len = 0 THEN 0 ELSE p, len, cmd[p], d)
           w == WriteOffset[Reply]
           n == Span(Reply)
<1>2. /\ h.Length = len /\ h.data = d /\ h.Timestamp = cmd[p] /\ (len > 0 => h.aid = p)
      /\ len \in Nat
  BY SpanFacts DEF Header, Rings
<1>3. cmd' = cmd /\ cmd[p] \in Times /\ shm = "ready" /\ Reply \in Rings
  BY DEF SendReply, Stamps, MPTypes, Attached, Rings
<1>4. w \in Area(Reply)
  BY <1>3 DEF MPTypes, Segment
<1>5. PutPacket(Reply, h)
  BY <1>1
<1> HIDE DEF h
<1>6. /\ mem'[Reply][w] = h
      /\ \A k \in 1 .. len : mem'[Reply][Place(Reply, w, k)] = Body(h)[k]
      /\ \A e \in 1 + len .. n - 1 : mem'[Reply][Place(Reply, w, e)] = mem[Reply][Place(Reply, w, e)]
  BY <1>2, <1>3, <1>5, PutWrites
<1>7. ReplyOK(h, cmd')
  BY <1>2, <1>3, TimesFacts DEF ReplyOK
<1>8. \A c : ReplyOK(c, cmd) => ReplyOK(c, cmd')
  BY <1>3 DEF ReplyOK
<1>9. ASSUME NEW o \in Area(Reply) PROVE ReplyOK(mem'[Reply][o], cmd')
  <2>1. PICK e \in 0 .. n - 1 : o = Place(Reply, w, e)
    BY <1>3, <1>4, PlaceFacts
  <2>2. CASE e = 0
    BY <1>3, <1>4, <1>6, <1>7, <2>1, <2>2, PlaceFacts
  <2>3. CASE e \in 1 .. len
    <3>1. Body(h)[e].magic = FALSE
      BY <1>2, <2>3 DEF Body
    <3> QED BY <1>6, <2>1, <2>3, <3>1 DEF ReplyOK
  <2>4. CASE e \in 1 + len .. n - 1
    BY <1>6, <1>8, <2>1, <2>4 DEF RepliesStamped
  <2>5. n \in Nat
    BY <1>3, SpanFacts
  <2> QED BY <1>2, <2>1, <2>2, <2>3, <2>4, <2>5
<1> QED BY <1>9 DEF RepliesStamped

LEMMA StepKeepsReplies ==
  ASSUME MPTypes, MembersInv, Stamps, RepliesStamped, CmdsGrow, Stamps', [Next]_vars
  PROVE  RepliesStamped'
<1>1. ASSUME mem'[Reply] = mem[Reply] PROVE RepliesStamped'
  <2>1. \A q \in Procs : cmd[q] \in Nat /\ cmd'[q] \in Nat /\ cmd[q] <= cmd'[q]
    BY TimesFacts DEF Stamps, CmdsGrow
  <2>2. \A c : ReplyOK(c, cmd) => ReplyOK(c, cmd')
    BY <2>1, TimesFacts DEF ReplyOK
  <2> QED BY <1>1, <2>2 DEF RepliesStamped
<1>2. ASSUME NEW p \in Procs, Step(p) PROVE RepliesStamped'
  BY <1>1, <1>2, ReplyWriters, ReplyKeepsStamps
<1>3. CASE UNCHANGED vars
  BY <1>1, <1>3 DEF vars, rings
<1> QED BY <1>2, <1>3 DEF Next

\* A round of replies begins: none yet, to the CMD sent last.
LEMMA StartCollects ==
  ASSUME Stamps, Collections, NEW p \in Procs, NEW aids, RepliesStart(p, aids)
  PROVE  Collections'
<1>1. PICK c : c = [ret |-> {}, my |-> {InstanceID[p]}, cur |-> ConnectedBitmask, ts |-> clock,
                    aids |-> aids, packets |-> [a \in aids |-> <<>>]]
  OBVIOUS
<1>2. col' = [col EXCEPT ![p] = c] /\ cmd' = cmd
  BY <1>1 DEF RepliesStart
<1>3. c = Fields(c) /\ c.ret = {} /\ c.ts = clock
  BY <1>1 DEF Fields
<1>4. Collects(c, cmd)
  BY <1>3 DEF Collects, Stamps
<1>5. col' = [q \in Procs |-> IF q = p THEN c ELSE col[q]]
  BY <1>2 DEF Collections
<1> QED BY <1>2, <1>4, <1>5 DEF Collections

\* A reply is taken only whole, and only from a client that has received the CMD.
LEMMA TakeCollects ==
  ASSUME MPTypes, HeadersWhole, StampsApart, Stamps, RepliesStamped, Collections,
         NEW p \in Procs, RecvReply(p)
  PROVE  Collections'
<1>1. PICK c : c = col[p]
  OBVIOUS
<1>2. c = Fields(c) /\ Collects(c, cmd) /\ cmd' = cmd
  BY <1>1 DEF Collections, Collects, RecvReply, wifi
<1>3. Reply \in Rings /\ ReadOffset[p][Reply] \in Area(Reply)
  BY DEF Rings, MPTypes, Attached, RecvReply, Labels
<1>4. PICK h : h = mem[Reply][ReadOffset[p][Reply]]
  OBVIOUS
<1>5. FIFORead(Reply, ReadOffset[p][Reply], 1)[1] = h
  BY <1>3, <1>4, PlaceFacts DEF FIFORead
<1>6. h.magic => /\ h.Length \in Lengths /\ h.Length \in Nat
                 /\ FIFORead(Reply, NextOffset(Reply, ReadOffset[p][Reply], 1), h.Length) = Body(h)
  <2>1. h.magic => PacketAt(Reply, ReadOffset[p][Reply]) = [h |-> h, body |-> Body(h)]
    BY <1>3, <1>4, PacketIs DEF PacketLaw
  <2>2. PacketAt(Reply, ReadOffset[p][Reply])
          = [h |-> h, body |-> FIFORead(Reply, NextOffset(Reply, ReadOffset[p][Reply], 1), h.Length)]
    BY <1>4 DEF PacketAt
  <2>3. h.magic => h.Length \in Lengths /\ h.Length \in Nat
    BY <1>3, <1>4, SpanFacts DEF MPTypes, RingsOK, CellOK
  <2> QED BY <2>1, <2>2, <2>3
<1>7. h.magic /\ h.Length > 0 => /\ h.aid \in Procs /\ h.data \in Data
                                 /\ h.Timestamp \in Times /\ h.Timestamp <= cmd[h.aid]
  BY <1>3, <1>4 DEF RepliesStamped, ReplyOK
<1> DEFINE ret == IF h.Length = 0 THEN c.ret ELSE c.ret \cup {h.aid}
           my == c.my \cup {h.SenderID}
           packets == [a \in DOMAIN c.packets \cup (ret \ c.ret) |->
                         IF h.Length > 0 /\ a = h.aid THEN Body(h) ELSE c.packets[a]]
<1>8. CASE col' = col
  BY <1>2, <1>8 DEF Collections
<1>9. CASE col' = [col EXCEPT ![p].ret = {}]
  <2>1. PICK e : e = [c EXCEPT !.ret = {}]
    OBVIOUS
  <2>2. e.ret = {} /\ e.ts = c.ts /\ e = Fields(e)
    BY <1>2, <2>1 DEF Fields
  <2>3. Collects(e, cmd)
    BY <1>2, <2>2 DEF Collects
  <2>4. col' = [q \in Procs |-> IF q = p THEN e ELSE col[q]]
    BY <1>1, <1>9, <2>1 DEF Collections
  <2> QED BY <1>2, <2>3, <2>4 DEF Collections
<1>10. CASE /\ h.magic /\ ~Stale(h, c.ts)
            /\ col' = [col EXCEPT ![p] = [@ EXCEPT !.ret = ret, !.my = my, !.packets = packets]]
  <2>1. PICK e : e = [c EXCEPT !.ret = ret, !.my = my, !.packets = packets]
    OBVIOUS
  <2>2. e.ret = ret /\ e.ts = c.ts /\ e.packets = packets /\ e = Fields(e)
    BY <1>2, <2>1 DEF Fields
  <2>3. ASSUME NEW a \in ret
        PROVE  a \in Procs /\ a \in DOMAIN packets /\ cmd[a] >= c.ts /\ Payload(packets[a])
    <3>1. a \in DOMAIN packets
      BY <1>2, <2>3 DEF Collects
    <3>2. CASE h.Length > 0 /\ a = h.aid
      <4>1. packets[a] = Body(h)
        BY <3>1, <3>2
      <4>2. h.Timestamp >= c.ts /\ h.Timestamp <= cmd[a] /\ a \in Procs /\ h.data \in Data
        BY <1>2, <1>7, <1>10, <3>2, FreshReply DEF Collects
      <4>3. c.ts \in Nat /\ h.Timestamp \in Nat /\ cmd[a] \in Nat
        BY <1>2, <1>7, <1>10, <3>2, <4>2, TimesFacts DEF Collects, Stamps
      <4>4. Payload(Body(h))
        BY <1>6, <1>10, <4>2, BodyIsPayload
      <4> HIDE DEF packets
      <4> QED BY <3>1, <4>1, <4>2, <4>3, <4>4
    <3>3. CASE ~(h.Length > 0 /\ a = h.aid)
      <4>1. a \in c.ret
        BY <1>6, <1>10, <2>3, <3>3
      <4>2. packets[a] = c.packets[a]
        BY <3>1, <3>3
      <4> HIDE DEF packets
      <4> QED BY <1>2, <3>1, <4>1, <4>2 DEF Collects
    <3> QED BY <3>2, <3>3
  <2> HIDE DEF packets, ret
  <2>4. Collects(e, cmd)
    BY <1>2, <2>2, <2>3 DEF Collects
  <2>5. col' = [q \in Procs |-> IF q = p THEN e ELSE col[q]]
    BY <1>1, <1>10, <2>1 DEF Collections
  <2> QED BY <1>2, <2>4, <2>5 DEF Collections
<1>11. \/ col' = col
       \/ col' = [col EXCEPT ![p].ret = {}]
       \/ /\ h.magic /\ ~Stale(h, c.ts)
          /\ col' = [col EXCEPT ![p] = [@ EXCEPT !.ret = ret, !.my = my, !.packets = packets]]
  <2> DEFINE r == ReadOffset[p][Reply]
             hh == FIFORead(Reply, r, 1)[1]
             rr == IF hh.Length = 0 THEN col[p].ret ELSE col[p].ret \cup {hh.aid}
  <2> DEFINE pp == [a \in DOMAIN col[p].packets \cup (rr \ col[p].ret) |->
                      IF hh.Length > 0 /\ a = hh.aid
                      THEN FIFORead(Reply, NextOffset(Reply, r, 1), hh.Length) ELSE col[p].packets[a]]
             mm == col[p].my \cup {hh.SenderID}
  <2>1. \/ col' = col
        \/ col' = [col EXCEPT ![p].ret = {}]
        \/ /\ hh.magic /\ ~Stale(hh, col[p].ts)
           /\ col' = [col EXCEPT ![p] = [@ EXCEPT !.ret = rr, !.my = mm, !.packets = pp]]
    BY DEF RecvReply
  <2>2. hh = h /\ col[p] = c
    BY <1>1, <1>5
  <2> HIDE DEF hh
  <2>3. rr = ret /\ mm = my
    BY <2>2
  <2>4. h.magic => FIFORead(Reply, NextOffset(Reply, r, 1), hh.Length) = Body(h)
    BY <1>6, <2>2
  <2> HIDE DEF rr, ret, mm, my
  <2>5. DOMAIN pp = DOMAIN packets
    BY <2>2, <2>3
  <2>6. h.magic => \A a \in DOMAIN packets : pp[a] = packets[a]
    BY <2>2, <2>3, <2>4
  <2>7. pp = [a \in DOMAIN pp |-> pp[a]] /\ packets = [a \in DOMAIN packets |-> packets[a]]
    OBVIOUS
  <2> HIDE DEF pp, packets
  <2>8. h.magic => pp = packets
    BY <2>5, <2>6, <2>7
  <2> QED BY <2>1, <2>2, <2>3, <2>8
<1> QED BY <1>8, <1>9, <1>10, <1>11

LEMMA StepKeepsCollections ==
  ASSUME MPTypes, MembersInv, HeadersWhole, StampsApart, Stamps, Stamps', CmdsGrow, RepliesStamped,
         Collections, [Next]_vars
  PROVE  Collections'
<1>1. ASSUME col' = col PROVE Collections'
  <2>1. \A q \in Procs : cmd[q] \in Nat /\ cmd'[q] \in Nat /\ cmd[q] <= cmd'[q]
    BY TimesFacts DEF Stamps, CmdsGrow
  <2>2. \A c : Collects(c, cmd) => Collects(c, cmd')
    BY <2>1, TimesFacts DEF Collects
  <2> QED BY <1>1, <2>2 DEF Collections
<1>2. ASSUME NEW p \in Procs, Step(p) PROVE Collections'
  <2>1. CASE \E aids \in SUBSET (Procs \ {0}) : RepliesStart(p, aids)
    BY <2>1, StartCollects
  <2>2. CASE RecvReply(p)
    BY <2>2, TakeCollects
  <2>3. CASE \/ Attach(p) \/ Join(p) \/ DeInit(p) \/ Begin(p) \/ End(p) \/ WifiReset(p)
             \/ PostFrame(p) \/ PostReply(p) \/ RecvStart(p) \/ HostGone(p)
             \/ RecvWait(p) \/ RecvFrame(p) \/ RepliesWait(p)
    BY <1>1, <2>3 DEF Attach, Join, DeInit, Begin, End, WifiReset, PostFrame, PostReply, RecvStart,
                      HostGone, RecvWait, RecvFrame, RepliesWait, locals
  <2>4. CASE \/ \E type \in FrameTypes, len \in Lengths, d \in Data : SendFrame(p, type, len, d)
             \/ \E len \in Lengths, ts \in Times, d \in Data : SendCmd(p, len, ts, d)
             \/ \E len \in Lengths : SendReply(p, len)
    BY <1>1, <2>4 DEF SendFrame, SendCmd, SendReply, locals
  <2>5. CASE Create(p) \/ Format(p)
    BY <2>5 DEF Create, Format, MembersInv
  <2> QED BY <1>2, <2>1, <2>2, <2>3, <2>4, <2>5 DEF Step
<1>3. CASE UNCHANGED vars
  BY <1>1, <1>3 DEF vars, locals
<1> QED BY <1>2, <1>3 DEF Next

\* Under the conditions of WakeupsMatchFrames, and with CMD frames further apart than a
\* reply may be late: what RecvReplies (LocalMP.cpp) returns are whole replies, of
\* clients that have received the CMD it collects for.  CMD frames are read in the order
\* of their timestamps, each reply carries the time of the last one its client has read,
\* and the staleness test, whose subtraction wraps below the window, drops the earlier.
THEOREM RepliesAreForTheirCmd ==
  KeptUp /\ StampsApart /\ Spec /\ [][BeginsQuietly]_vars => []RepliesAnswerCmd
<1> DEFINE H == KeptUp /\ StampsApart
           I == H /\ WakeInv /\ Stamps /\ RepliesStamped /\ Collections
<1>1. H /\ Init => I
  <2> SUFFICES ASSUME H, Init PROVE I
    OBVIOUS
  <2>1. WakeInv
    BY InitWake
  <2>2. Stamps
    <3>1. PowerOn = [p \in Procs |-> FALSE]
      BY DEF Init
    <3>2. \A p \in Procs : Inbox[p] = <<>>
      BY <3>1 DEF Inbox
    <3>3. /\ clock = 0 /\ cmd = [p \in Procs |-> 0] /\ duty = [p \in Procs |-> "none"]
      BY DEF Init
    <3> QED BY <3>2, <3>3, EmptyInOrder DEF Stamps
  <2>3. RepliesStamped
    <3>1. \A o \in Area(Reply) : mem[Reply][o] = Blank
      BY DEF Init, Rings
    <3> QED BY <3>1 DEF RepliesStamped, ReplyOK, Blank
  <2>4. Collections
    <3>1. col = [p \in Procs |-> [ret |-> {}, my |-> {}, cur |-> {}, ts |-> 0,
                                  aids |-> {}, packets |-> <<>>]]
      BY DEF Init
    <3> QED BY <3>1 DEF Collections, Collects, Fields
  <2> QED BY <2>1, <2>2, <2>3, <2>4
<1>2. I /\ [Next]_vars /\ [BeginsQuietly]_vars => I'
  <2> SUFFICES ASSUME I, [Next]_vars, [BeginsQuietly]_vars PROVE I'
    OBVIOUS
  <2>1. WakeInv' /\ MPTypes /\ MembersInv /\ HeadersWhole
    BY StepKeepsWake DEF WakeInv
  <2>2. ClockInv
    BY DEF ClockInv, Stamps
  <2>3. Stamps' /\ CmdsGrow
    BY <2>1, <2>2, StepsOnFrames, StepKeepsStamps
  <2>4. RepliesStamped'
    BY <2>1, <2>3, StepKeepsReplies
  <2>5. Collections'
    BY <2>1, <2>3, StepKeepsCollections
  <2>6. H'
    BY DEF KeptUp, StampsApart, SegmentStays, RoomForAll, ReadersKeepUp, Span
  <2> QED BY <2>1, <2>3, <2>4, <2>5, <2>6
<1>3. I => RepliesAnswerCmd
  BY ProcsAssumption DEF Collections, Collects, Payload, RepliesAnswerCmd, ProcsAssumption
<1> HIDE DEF H, I
<1> QED BY <1>1, <1>2, <1>3, PTL DEF Spec, H
=============================================================================
