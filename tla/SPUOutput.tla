----------------------------- MODULE SPUOutput -----------------------------
(***************************************************************************)
(* The way of the sound from the emulated SPU to the host (SPU.cpp,        *)
(* AudioInOut.cpp): the emulator thread mixes samples into a back buffer   *)
(* and hands them over at the end of a frame; the audio thread takes them  *)
(* out of the ring between the two when the host wants some.  Samples are  *)
(* numbered, modulo Modulus.                                               *)
(***************************************************************************)
EXTENDS Integers, SequencesExt

CONSTANTS
  RingSize,     \* samples the ring has room for (OutputBufferSize), 4096
  BackLimit,    \* samples the back buffer takes, 1024
  SyncLimit,    \* samples left at which AudioSync lets the next frame run, 1024
  ReadSizes,    \* how many samples the host may ask for
  Modulus       \* bound: samples are numbered modulo this

SpuAssumption == /\ {RingSize, BackLimit, SyncLimit} \subseteq Nat \ {0}
                 /\ ReadSizes \subseteq Nat \ {0}
                 /\ SyncLimit + BackLimit < RingSize
                 /\ Modulus \in Nat /\ Modulus > RingSize + BackLimit

ASSUME SpuAssumption

VARIABLES
  emu,        \* the emulator thread: "frame", "sync", "waiting" (in AudioSync),
              \* or "stopped" (the console is)
  back,       \* OutputBackbuffer
  ring,       \* OutputFrontBuffer
  readPos, writePos,  \* OutputFrontBufferReadPosition and -WritePosition
  next,       \* number of the next sample
  heard,      \* what the last callback got
  unsynced,   \* frames have ended without AudioSync having seen to the ring
  gaps        \* samples that may be heard after a gap: see HeardInOrder

spuvars == <<emu, back, ring, readPos, writePos, next, heard, unsynced, gaps>>

RingSlots == 0 .. RingSize - 1
Numbers == 0 .. Modulus - 1
Ahead(pos) == (pos + 1) % RingSize
After(sample) == (sample + 1) % Modulus
Silence == Modulus      \* a cleared sample

SpuInit ==
  /\ emu = "frame" /\ back = <<>>
  /\ ring = [i \in RingSlots |-> 0] /\ readPos = 0 /\ writePos = 0
  /\ next = 0 /\ heard = <<Modulus - 1>>
  /\ unsynced = FALSE /\ gaps = {}

GetOutputSize == IF writePos >= readPos THEN writePos - readPos
                 ELSE RingSize - readPos + writePos

-----------------------------------------------------------------------------
(* The emulator thread *)

\* The SPU's event.  A frame longer than the back buffer loses its last
\* samples: they are not numbered.
Mix ==
  /\ emu = "frame" \/ (emu = "stopped" /\ back = <<>>)
  /\ IF Len(back) < BackLimit THEN back' = Append(back, next) /\ next' = After(next)
     ELSE UNCHANGED <<back, next>>
  /\ UNCHANGED <<emu, ring, readPos, writePos, heard, unsynced, gaps>>

\* Mutant: the ring does not push the reader on.
NoPush(s, written) == [s EXCEPT !.w = written]

\* A ring that becomes full drops its oldest sample.
Push(s, written) ==
  [s EXCEPT !.w = written, !.r = IF written = s.r THEN Ahead(s.r) ELSE s.r]

\* TransferOutput.
Put(s, sample) == Push([s EXCEPT !.ring[s.w] = sample], Ahead(s.w))
Transferred == FoldLeft(Put, [ring |-> ring, r |-> readPos, w |-> writePos], back)

\* The frame ends, with audio sync or without (fast forward, no audio device).
EndFrame(audioSync) ==
  /\ emu \in {"frame", "stopped"} /\ (audioSync => emu = "frame")
  /\ ring' = Transferred.ring /\ readPos' = Transferred.r /\ writePos' = Transferred.w
  /\ back' = <<>>
  /\ emu' = IF audioSync THEN "sync" ELSE emu
  /\ unsynced' = (unsynced \/ ~audioSync)
  /\ gaps' = IF unsynced /\ readPos' # readPos
             THEN (gaps \cup {ring'[readPos']}) \cap ToSet(ring') ELSE gaps
  /\ UNCHANGED <<next, heard>>

\* Mutant: the next frame may find as many samples as the ring has room for.
TooManyForTheRing == GetOutputSize >= RingSize - 1

\* More samples are left than the next frame may find.
TooMany == GetOutputSize > SyncLimit

AudioSync ==
  /\ emu = "sync"
  /\ emu' = IF TooMany THEN "waiting" ELSE "frame"
  /\ unsynced' = (unsynced /\ TooMany)
  /\ UNCHANGED <<back, ring, readPos, writePos, next, heard, gaps>>

\* The host has asked for nothing for half a second.
SyncTimeout ==
  /\ emu = "waiting"
  /\ emu' = "frame" /\ unsynced' = TRUE
  /\ UNCHANGED <<back, ring, readPos, writePos, next, heard, gaps>>

\* NDS::Stop, by the UI between two frames or by the console in the middle of
\* one; the slice it is in is still finished.
Stop ==
  /\ emu = "frame" /\ emu' = "stopped"
  /\ back' = <<>> /\ ring' = [i \in RingSlots |-> 0] /\ readPos' = 0 /\ writePos' = 0
  /\ gaps' = {next} /\ unsynced' = FALSE
  /\ UNCHANGED <<next, heard>>

\* A console that was stopped, or that is between two frames, is reset.  The
\* back buffer is cleared but not emptied.
Reset ==
  /\ emu = "stopped" \/ (emu = "frame" /\ back = <<>>)
  /\ emu' = "frame"
  /\ back' = [k \in 1 .. Len(back) |-> Silence]
  /\ ring' = [i \in RingSlots |-> 0] /\ readPos' = 0 /\ writePos' = 0
  /\ gaps' = {next} /\ unsynced' = FALSE
  /\ UNCHANGED <<next, heard>>

-----------------------------------------------------------------------------
(* The audio thread *)

\* ReadOutput: up to n samples, until the ring is empty.
NumRead(n) == IF n < GetOutputSize THEN n ELSE GetOutputSize

\* The callback; it wakes the emulator thread.
AudioCallback(n) ==
  LET num == NumRead(n)
  IN /\ num > 0
     /\ heard' = [k \in 1 .. num |-> ring[(readPos + k - 1) % RingSize]]
     /\ readPos' = (readPos + num) % RingSize
     /\ emu' = IF emu = "waiting" THEN "sync" ELSE emu
     /\ gaps' = gaps \ ToSet(heard')
     /\ UNCHANGED <<back, ring, writePos, next, unsynced>>

SpuNext == \/ Mix \/ AudioSync \/ SyncTimeout \/ Stop \/ Reset
           \/ \E audioSync \in BOOLEAN : EndFrame(audioSync)
           \/ \E n \in ReadSizes : AudioCallback(n)

SpuSpec == SpuInit /\ [][SpuNext]_spuvars

-----------------------------------------------------------------------------
(* Properties *)

SpuTypeOK ==
  /\ emu \in {"frame", "sync", "waiting", "stopped"}
  /\ Len(back) <= BackLimit /\ ToSet(back) \subseteq Numbers \cup {Silence}
  /\ ring \in [RingSlots -> Numbers \cup {Silence}] /\ readPos \in RingSlots /\ writePos \in RingSlots
  /\ next \in Numbers /\ ToSet(heard) \subseteq Numbers \cup {Silence}
  /\ gaps \subseteq Numbers

\* What is heard is what was mixed, in order and, while audio sync is on and
\* the host asks in time, without a gap: none of the samples that found room in
\* the back buffer is lost.  A gap appears only where frames ran without sync or
\* a wait timed out, and where the console was stopped: there a sample of silence
\* may be heard first.
Follows(earlier, sample) == sample = After(earlier) \/ sample \in gaps \cup {Silence}
HeardInOrder ==
  [][heard' # heard =>
       /\ Follows(Last(heard), heard'[1])
       /\ \A k \in 2 .. Len(heard') : Follows(heard'[k - 1], heard'[k])]_spuvars
=============================================================================
