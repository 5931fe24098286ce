-------------------------- MODULE SaveManager_proofs --------------------------
(***************************************************************************)
(* For every size of save memory and any number of writes: the debounce    *)
(* timer runs whenever a version is pending, the partial copies of         *)
(* RequestFlush add up, and, as long as the save file is not moved and can *)
(* be opened, closing loses nothing.  The last two need to know where the  *)
(* latest data is: in the game's memory and in Buffer always, in           *)
(* SecondaryBuffer unless FlushRequested, in the file unless a version is  *)
(* pending as well.                                                        *)
(***************************************************************************)
EXTENDS SaveManager, TLAPS

USE SizeAssumption, BoundsAssumption

-----------------------------------------------------------------------------
(* The timer *)

\* Whatever happens to the file and its path, a version that FlushSecondaryBuffer
\* has yet to write has its timer running.
THEOREM PendingVersionsAreTimed == Spec => []PendingIsTimed
<1>1. Init => PendingIsTimed
  BY DEF Init, PendingIsTimed, NeedsFlush
<1>2. PendingIsTimed /\ [Next]_vars => PendingIsTimed'
  <2> SUFFICES ASSUME PendingIsTimed, [Next]_vars PROVE PendingIsTimed'
    OBVIOUS
  <2> USE DEF PendingIsTimed, NeedsFlush
  <2>1. CASE UNCHANGED second
    BY <2>1 DEF second
  <2>2. CASE CheckFlush
    BY <2>2 DEF CheckFlush, second, StartTimer
  <2>3. CASE CloseFlush \/ ThreadFlush
    BY <2>3 DEF CloseFlush, ThreadFlush, WriteFile
  <2>4. CASE Tick
    BY <2>4 DEF Tick
  <2>5. UNCHANGED second \/ CheckFlush \/ CloseFlush \/ ThreadFlush \/ Tick
    BY DEF Next, vars, GameWrite, EndFrame, NextFrame, SetPath, SetPathReload, Close,
           CloseWaited, ThreadWake, ThreadNeedsFlush
  <2> QED BY <2>1, <2>2, <2>3, <2>4, <2>5
<1> QED BY <1>1, <1>2, PTL DEF Spec

-----------------------------------------------------------------------------
(* The copies *)

\* A value below twice the modulus, reduced.
LEMMA ModOnce ==
  ASSUME NEW n \in Nat, n < 2 * Size
  PROVE  n % Size = IF n < Size THEN n ELSE n - Size
  OBVIOUS

\* RequestFlush copies exactly the bytes a write changed, wrapping or not.
LEMMA CopiedIsWritten ==
  ASSUME NEW off \in Bytes, NEW len \in 1 .. Size
  PROVE  Copied(off, len) = Written(off, len)
<1> DEFINE W == {n \in Nat : off <= n /\ n < off + len}
<1>1. Written(off, len) = {n % Size : n \in W}
  <2>1. ASSUME NEW k \in 0 .. len - 1 PROVE off + k \in W
    BY DEF Bytes
  <2>2. ASSUME NEW n \in W PROVE n - off \in 0 .. len - 1 /\ off + (n - off) = n
    BY DEF Bytes
  <2> QED BY <2>1, <2>2 DEF Written
<1>2. \A n \in W : n % Size = IF n < Size THEN n ELSE n - Size
  BY ModOnce DEF Bytes
<1>3. ASSUME NEW b \in Bytes
      PROVE  b \in Copied(off, len) <=> (b \in W \/ b + Size \in W)
  BY DEF Copied, Bytes
<1>4. \A b \in Bytes : (b \in W \/ b + Size \in W) <=> \E n \in W : b = n % Size
  <2> SUFFICES ASSUME NEW b \in Bytes
               PROVE  (b \in W \/ b + Size \in W) <=> \E n \in W : b = n % Size
    OBVIOUS
  <2>1. ASSUME b \in W PROVE b % Size = b
    BY <2>1, <1>2 DEF Bytes
  <2>2. ASSUME b + Size \in W PROVE (b + Size) % Size = b
    BY <2>2, <1>2 DEF Bytes
  <2>3. ASSUME NEW n \in W, b = n % Size PROVE n = b \/ n = b + Size
    BY <2>3, <1>2 DEF Bytes
  <2> HIDE DEF W
  <2> QED BY <2>1, <2>2, <2>3
<1>5. Copied(off, len) \subseteq Bytes /\ Written(off, len) \subseteq Bytes
  BY <1>1, <1>2 DEF Copied, Bytes
<1> QED BY <1>1, <1>3, <1>4, <1>5

-----------------------------------------------------------------------------
(* Where the data is *)

Types ==
  /\ savedata \in Images
  /\ Buffer \in Images \cup {NoBuffer}
  /\ DOMAIN file = Paths /\ Path \in Paths
  /\ FlushVersion \in Nat /\ PreviousFlushVersion \in Nat
  /\ PreviousFlushVersion <= FlushVersion

FirstCopy == IF Buffer = NoBuffer THEN ~FlushRequested ELSE Buffer = savedata
SecondCopy == ~FlushRequested => SecondaryBuffer = Buffer
OnDisk == failures = 0 /\ ~FlushRequested /\ ~NeedsFlush => file[Path] = savedata
NothingNew == SecondaryBuffer = NoBuffer => ~NeedsFlush

\* What each thread knows where it is.
AtPc ==
  /\ epc \in {"between", "wait", "flush", "closed"} => ~FlushRequested
  /\ epc = "flush" \/ tpc = "flush" => SecondaryBuffer # NoBuffer
  /\ epc = "closed" => ~NeedsFlush

Copies == Types /\ FirstCopy /\ SecondCopy /\ OnDisk /\ NothingNew /\ AtPc

\* Moving the save file is never undone, nor is failing to open it.
IInv == /\ setpaths \in Nat /\ failures \in Nat
        /\ setpaths = 0 => Copies

\* A buffer of save memory is not the null buffer.
LEMMA ImagesAreBuffers == NoBuffer \notin Images
  BY DEF Images, NoBuffer, Bytes

LEMMA InitIInv == Init => IInv
  BY ImagesAreBuffers
     DEF Init, IInv, Copies, Types, FirstCopy, SecondCopy, OnDisk, NothingNew, AtPc,
         NeedsFlush

\* A write and its RequestFlush leave Buffer equal to the save memory.
LEMMA WriteFollows ==
  ASSUME Types, FirstCopy,
         NEW off \in Bytes, NEW len \in 1 .. Size, NEW v \in Values, GameWrite(off, len, v)
  PROVE  savedata' \in Images /\ Buffer' = savedata' /\ Buffer' # NoBuffer
<1>1. Copied(off, len) = Written(off, len)
  BY CopiedIsWritten
<1>2. savedata' \in Images
  BY DEF GameWrite, Types, Images
<1>3. ASSUME NEW b \in Bytes PROVE Buffer'[b] = savedata'[b]
  BY <1>1 DEF GameWrite, Types, FirstCopy, Images
<1>4. Buffer' = [b \in Bytes |-> Buffer'[b]] /\ savedata' = [b \in Bytes |-> savedata'[b]]
  BY DEF GameWrite
<1> QED BY <1>2, <1>3, <1>4, ImagesAreBuffers

\* Every step of the emulator thread and of the flush thread keeps track of
\* where the latest data is.
LEMMA NextIInv == IInv /\ [Next]_vars => IInv'
<1> SUFFICES ASSUME IInv, [Next]_vars PROVE IInv'
  OBVIOUS
<1> USE DEF NeedsFlush
<1>1. ASSUME NEW off \in Bytes, NEW len \in 1 .. Size, NEW v \in Values,
             GameWrite(off, len, v)
      PROVE  IInv'
  <2>1. ASSUME Copies
        PROVE  savedata' \in Images /\ Buffer' = savedata' /\ Buffer' # NoBuffer
    BY <1>1, <2>1, WriteFollows DEF Copies
  <2>2. Copies => Copies'
    BY <1>1, <2>1
       DEF GameWrite, second, Copies, Types, FirstCopy, SecondCopy, OnDisk, NothingNew, AtPc,
           faults
  <2> QED BY <1>1, <2>2 DEF GameWrite, faults, IInv
<1>2. CASE CheckFlush
  <2>1. Copies => Copies'
    BY <1>2, ImagesAreBuffers DEF CheckFlush, NextVersion, first, second, game, faults,
       Copies, Types, FirstCopy, SecondCopy, OnDisk, NothingNew, AtPc
  <2> QED BY <1>2, <2>1 DEF CheckFlush, faults, IInv
<1>3. CASE CloseFlush \/ ThreadFlush
  <2>1. failures' \in Nat /\ (failures' = 0 => failures = 0) /\ setpaths' = setpaths
    BY <1>3 DEF CloseFlush, ThreadFlush, WriteFile, IInv
  <2>2. Copies => Copies'
    BY <1>3, <2>1 DEF CloseFlush, ThreadFlush, WriteFile, first, game, IInv,
       Copies, Types, FirstCopy, SecondCopy, OnDisk, NothingNew, AtPc
  <2> QED BY <2>1, <2>2 DEF IInv
<1>4. CASE EndFrame \/ NextFrame \/ Close \/ CloseWaited
  <2>1. Copies => Copies'
    BY <1>4 DEF EndFrame, NextFrame, Close, CloseWaited, AfterWait, first, second, game,
       faults, Copies, Types, FirstCopy, SecondCopy, OnDisk, NothingNew, AtPc
  <2> QED BY <1>4, <2>1 DEF EndFrame, NextFrame, Close, CloseWaited, faults, IInv
<1>5. CASE ThreadWake \/ ThreadNeedsFlush \/ Tick \/ UNCHANGED vars
  <2>1. Copies => Copies'
    BY <1>5 DEF ThreadWake, ThreadNeedsFlush, Tick, vars, first, second, game, faults,
       Copies, Types, FirstCopy, SecondCopy, OnDisk, NothingNew, AtPc
  <2> QED BY <1>5, <2>1 DEF ThreadWake, ThreadNeedsFlush, Tick, vars, faults, IInv
<1>6. ASSUME NEW p \in Paths, SetPath(p) \/ SetPathReload(p) PROVE IInv'
  BY <1>6 DEF SetPath, SetPathReload, IInv
<1> QED BY <1>1, <1>2, <1>3, <1>4, <1>5, <1>6 DEF Next

LEMMA SpecIInv == Spec => []IInv
<1>1. Init => IInv
  BY InitIInv
<1>2. IInv /\ [Next]_vars => IInv'
  BY NextIInv
<1> QED BY <1>1, <1>2, PTL DEF Spec

\* RequestFlush's partial copies add up, whatever the size of the save memory
\* and of the writes: Buffer is the save memory whenever it exists.
THEOREM CopiesAddUp == Spec => []BufferFollowsGame
<1>1. IInv => BufferFollowsGame
  BY DEF IInv, Copies, FirstCopy, BufferFollowsGame
<1> QED BY <1>1, SpecIInv, PTL

\* Nothing is lost when the manager is destroyed, at whatever point of the
\* flush cycle: the file holds what the game last saved, unless it was moved or
\* could not be opened.
THEOREM ClosingSaves == Spec => []SavedUnlessDisturbed
<1>1. IInv => SavedUnlessDisturbed
  BY DEF IInv, Copies, OnDisk, AtPc, Undisturbed, SavedOnClose, SavedUnlessDisturbed
<1> QED BY <1>1, SpecIInv, PTL

-----------------------------------------------------------------------------
(* Types, wherever the save file is moved *)

\* A reload takes any file's contents, so that the files have a type too.
StoredTypes ==
  /\ TypeOK
  /\ file \in [Paths -> Images \cup {NoBuffer}] /\ Path \in Paths
  /\ FlushVersion \in Nat /\ PreviousFlushVersion \in Nat

\* Whatever states are loaded and whatever fails, the buffers have the length of the
\* save memory, and the version on disk (FlushSecondaryBuffer) is never ahead of the
\* one CheckFlush has counted.
THEOREM VersionsAndBuffers == Spec => []TypeOK
<1> USE DEF StoredTypes, TypeOK
<1>1. Init => StoredTypes
  BY DEF Init
<1>2. StoredTypes /\ [Next]_vars => StoredTypes'
  <2> SUFFICES ASSUME StoredTypes, [Next]_vars PROVE StoredTypes'
    OBVIOUS
  <2>1. ASSUME NEW off \in Bytes, NEW len \in 1 .. Size, NEW v \in Values,
               GameWrite(off, len, v)
        PROVE  StoredTypes'
    <3>1. savedata' \in Images
      BY <2>1 DEF GameWrite, Images
    <3>2. \A b \in Bytes : (IF Buffer = NoBuffer \/ b \in Copied(off, len)
                            THEN savedata'[b] ELSE Buffer[b]) \in Values
      BY <3>1 DEF Images
    <3>3. Buffer' \in Images
      BY <2>1, <3>2 DEF GameWrite, Images
    <3> QED BY <2>1, <3>1, <3>3 DEF GameWrite, second
  <2>2. CASE CheckFlush
    BY <2>2 DEF CheckFlush, NextVersion, StartTimer, first, second, game
  <2>3. CASE CloseFlush \/ ThreadFlush
    BY <2>3 DEF CloseFlush, ThreadFlush, WriteFile, game, first
  <2>4. ASSUME NEW p \in Paths, SetPath(p) \/ SetPathReload(p) PROVE StoredTypes'
    BY <2>4 DEF SetPath, SetPathReload, game, second
  <2>5. CASE EndFrame \/ NextFrame \/ Close \/ CloseWaited
    BY <2>5 DEF EndFrame, NextFrame, Close, CloseWaited, game, first, second
  <2>6. CASE ThreadWake \/ ThreadNeedsFlush \/ Tick \/ UNCHANGED vars
    BY <2>6 DEF ThreadWake, ThreadNeedsFlush, Tick, vars, game, first, second
  <2> QED BY <2>1, <2>2, <2>3, <2>4, <2>5, <2>6 DEF Next
<1> QED BY <1>1, <1>2, PTL DEF Spec
=============================================================================
