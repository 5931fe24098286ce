-------------------------------- MODULE FIFO --------------------------------
(***************************************************************************)
(* The ring buffer template FIFO<T, NumEntries> of FIFO.h (DynamicFIFO<T>  *)
(* is the same code with a run-time capacity).  Fixed storage, a read and  *)
(* a write position that wrap by comparison, and an occupancy counter that *)
(* decides between the empty and the full ring.                            *)
(***************************************************************************)
EXTENDS Integers, Sequences

CONSTANTS NumEntries,   \* capacity of the ring
          T,            \* the words it holds
          Zero          \* the word Clear() stores in slot 0

ASSUME NumEntriesAssumption == NumEntries \in Nat \ {0}
ASSUME ZeroAssumption == Zero \in T

VARIABLES Entries,      \* the storage
          NumOccupied,  \* words held
          ReadPos,      \* slot of the oldest word
          WritePos,     \* slot the next word goes to
          ret           \* what the last Read() returned

vars == <<Entries, NumOccupied, ReadPos, WritePos, ret>>

Slots == 0 .. NumEntries - 1

IsEmpty == NumOccupied = 0
IsFull == NumOccupied >= NumEntries

\* Mutant: the wrap test is off by one.
AdvanceLate(pos) == IF pos + 1 > NumEntries - 2 THEN 0 ELSE pos + 1

\* The increment both positions use: wrap by comparison, not by modulus.
Advance(pos) == IF pos + 1 >= NumEntries THEN 0 ELSE pos + 1

\* Peek(offset): the slot `offset' places after the oldest word.
PeekPos(offset) == IF ReadPos + offset >= NumEntries
                   THEN ReadPos + offset - NumEntries
                   ELSE ReadPos + offset

Peek(offset) == Entries[PeekPos(offset)]

Init == /\ Entries = [i \in Slots |-> Zero]
        /\ NumOccupied = 0
        /\ ReadPos = 0
        /\ WritePos = 0
        /\ ret = Zero

\* Only slot 0 is zeroed: the other slots keep their old words.
Clear == /\ NumOccupied' = 0
         /\ ReadPos' = 0
         /\ WritePos' = 0
         /\ Entries' = [Entries EXCEPT ![0] = Zero]
         /\ UNCHANGED ret

Write(val) ==
  \/ /\ IsFull
     /\ UNCHANGED vars
  \/ /\ ~IsFull
     /\ Entries' = [Entries EXCEPT ![WritePos] = val]
     /\ WritePos' = Advance(WritePos)
     /\ NumOccupied' = NumOccupied + 1
     /\ UNCHANGED <<ReadPos, ret>>

\* The value is fetched before the emptiness test: an empty ring returns the
\* word left in its read slot and does not move.
Read ==
  /\ ret' = Entries[ReadPos]
  /\ \/ /\ IsEmpty
        /\ UNCHANGED <<ReadPos, NumOccupied>>
     \/ /\ ~IsEmpty
        /\ ReadPos' = Advance(ReadPos)
        /\ NumOccupied' = NumOccupied - 1
  /\ UNCHANGED <<Entries, WritePos>>

Next == \/ Clear
        \/ \E val \in T : Write(val)
        \/ Read

Spec == Init /\ [][Next]_vars

-----------------------------------------------------------------------------
(* Properties *)

\* Every field keeps its type, and no position leaves the storage.
TypeOK == /\ Entries \in [Slots -> T]
          /\ NumOccupied \in 0 .. NumEntries
          /\ ReadPos \in Slots
          /\ WritePos \in Slots
          /\ ret \in T

\* The three counters never disagree: the write position is always
\* NumOccupied slots after the read position, around the ring.  Any sequence of
\* Write, Read and Clear at the empty and full boundary keeps it.
PositionsAgree == WritePos = PeekPos(NumOccupied)

\* The inductive invariant of the proofs.
Inv == TypeOK /\ PositionsAgree

\* The words held, oldest first: what Peek(0), Peek(1), ... show.
Contents == [k \in 1 .. NumOccupied |-> Peek(k - 1)]

Queue == INSTANCE BoundedQueue WITH
           Capacity <- NumEntries, Word <- T, queue <- Contents, out <- ret

\* The ring implements the bounded queue: words leave in the order they came,
\* none is lost but those written to a full ring, none is read twice.
ImplementsQueue == Queue!Spec
=============================================================================
