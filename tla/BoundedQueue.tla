---------------------------- MODULE BoundedQueue ----------------------------
(***************************************************************************)
(* What a FIFO of the emulated hardware promises its users: the words come *)
(* out in the order they went in, a write to a full queue is dropped, and  *)
(* a read of an empty queue takes nothing out.  The users of the class are *)
(* the IPC FIFOs, GXFIFO, the SPU capture units, the AES and SD FIFOs.     *)
(*                                                                         *)
(* `out' is the value the last Read returned.  A read of an empty queue    *)
(* returns whatever the implementation has in its read slot, so the        *)
(* abstract queue allows any word there.                                   *)
(***************************************************************************)
EXTENDS Naturals, Sequences

CONSTANTS Capacity,   \* number of words the queue can hold
          Word        \* the words

VARIABLES queue,      \* the words held, oldest first
          out         \* the word the last Read returned

Init == /\ queue = << >>
        /\ out \in Word

Put(w) == /\ queue' = IF Len(queue) < Capacity THEN Append(queue, w) ELSE queue
          /\ UNCHANGED out

Get == /\ queue # << >>
       /\ out' = Head(queue)
       /\ queue' = Tail(queue)

GetEmpty == /\ queue = << >>
            /\ out' \in Word
            /\ UNCHANGED queue

Empty == /\ queue' = << >>
         /\ UNCHANGED out

Next == \/ \E w \in Word : Put(w)
        \/ Get
        \/ GetEmpty
        \/ Empty

Spec == Init /\ [][Next]_<<queue, out>>
=============================================================================
