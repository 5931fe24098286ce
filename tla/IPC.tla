-------------------------------- MODULE IPC --------------------------------
(***************************************************************************)
(* How the two CPUs talk (NDS.cpp): two 16-word queues, a nibble each way  *)
(* (IPCSYNC), and the interrupts these raise.  CPU 0 is the ARM9, CPU 1    *)
(* the ARM7; the code has every handler twice.  The queues are the FIFO of *)
(* module FIFO, which implements a bounded queue (RingImplementsQueue).    *)
(***************************************************************************)
EXTENDS Naturals, Sequences

CONSTANTS
  Depth,        \* words a queue holds, 16
  Words,        \* what the CPUs send
  Nibbles,      \* what IPCSYNC carries
  Settings,     \* what programs write to IPCFIFOCNT: enable, sendIrq, recvIrq
  SyncIrqs,     \* SyncIrqs[c]: what CPU c writes to IPCSYNC's interrupt enable
  EnableSets    \* what programs write to IE

ASSUME DepthAssumption == Depth \in Nat \ {0}
ASSUME SettingsAssumption ==
  Settings \subseteq [enable : BOOLEAN, sendIrq : BOOLEAN, recvIrq : BOOLEAN]

ASSUME SyncIrqsAssumption == SyncIrqs \in [{0, 1} -> SUBSET BOOLEAN]

VARIABLES
  fifo,         \* fifo[c]: the queue CPU c writes
  cnt,          \* IPCFIFOCNT: enable, sendIrq, recvIrq, error
  sync,         \* IPCSYNC: in, out, irq
  IE, Flags, IME, \* interrupts enabled, pending (IF), and the master switch
  IRQ           \* the interrupt line the CPU looks at

queues == <<fifo, cnt>>
irqs == <<IE, Flags, IME, IRQ>>
ipcvars == <<queues, sync, irqs>>

CPUs == {0, 1}
Other(c) == 1 - c
Irqs == {"IPCSync", "IPCSendDone", "IPCRecv"}

ASSUME EnableSetsAssumption == EnableSets \subseteq SUBSET Irqs

IPCInit ==
  /\ fifo = [c \in CPUs |-> <<>>]
  /\ cnt = [c \in CPUs |-> [enable |-> FALSE, sendIrq |-> FALSE, recvIrq |-> FALSE,
                            error |-> FALSE]]
  /\ sync = [c \in CPUs |-> [in |-> 0, out |-> 0, irq |-> FALSE]]
  /\ IE = [c \in CPUs |-> {}] /\ Flags = [c \in CPUs |-> {}]
  /\ IME = [c \in CPUs |-> FALSE] /\ IRQ = [c \in CPUs |-> FALSE]

-----------------------------------------------------------------------------
(* Interrupts *)

\* Mutant: the line ignores the master switch.
LineWithoutIME(ime, enabled, pending) == enabled \cap pending # {}

\* UpdateIRQ
Line(ime, enabled, pending) == ime /\ enabled \cap pending # {}

\* SetIRQ(c, i) for the interrupts i in raised.
SetIRQ(c, raised) ==
  /\ Flags' = [Flags EXCEPT ![c] = @ \cup raised]
  /\ IRQ' = [IRQ EXCEPT ![c] = IF raised = {} THEN @
                               ELSE Line(IME[c], IE[c], Flags[c] \cup raised)]
  /\ UNCHANGED <<IE, IME>>

\* A CPU writes 1s to IF to acknowledge.
WriteIF(c, acknowledged) ==
  /\ Flags' = [Flags EXCEPT ![c] = @ \ acknowledged]
  /\ IRQ' = [IRQ EXCEPT ![c] = Line(IME[c], IE[c], Flags[c] \ acknowledged)]
  /\ UNCHANGED <<queues, sync, IE, IME>>

WriteIE(c, enabled) ==
  /\ IE' = [IE EXCEPT ![c] = enabled]
  /\ IRQ' = [IRQ EXCEPT ![c] = Line(IME[c], enabled, Flags[c])]
  /\ UNCHANGED <<queues, sync, Flags, IME>>

WriteIME(c, ime) ==
  /\ IME' = [IME EXCEPT ![c] = ime]
  /\ IRQ' = [IRQ EXCEPT ![c] = Line(ime, IE[c], Flags[c])]
  /\ UNCHANGED <<queues, sync, IE, Flags>>

-----------------------------------------------------------------------------
(* The queues *)

QueueEmpty(c) == fifo[c] = <<>>

\* Mutants: the receiver is interrupted only if the queue was not empty; enabling
\* the interrupt does not request it; emptiness is tested before the read; the
\* read leaves the word there.
WakesWhenBusy(c) == ~QueueEmpty(c)
EnableIsSilent(c) == FALSE
DrainedBefore(s) == Len(fifo[s]) = 0
PeekedOnly(s) == fifo[s]

QueueFull(c) == Len(fifo[c]) = Depth

\* A word written to the queue of CPU c interrupts the receiver.
Arrives(c) == QueueEmpty(c)

\* CPU c enables the receive interrupt: it is requested if words are waiting.
Waiting(c) == ~QueueEmpty(Other(c))

\* A read from the queue of CPU s, and whether it was the last word.
Popped(s) == Tail(fifo[s])
Drained(s) == Len(fifo[s]) = 1

\* Writing the send register: an error if the queue is full.
SendWord(c, w) ==
  /\ \/ ~cnt[c].enable /\ UNCHANGED <<queues, irqs>>
     \/ /\ cnt[c].enable /\ QueueFull(c)
        /\ cnt' = [cnt EXCEPT ![c].error = TRUE]
        /\ UNCHANGED <<fifo, irqs>>
     \/ /\ cnt[c].enable /\ ~QueueFull(c)
        /\ fifo' = [fifo EXCEPT ![c] = Append(@, w)]
        /\ SetIRQ(Other(c), IF cnt[Other(c)].recvIrq /\ Arrives(c) THEN {"IPCRecv"} ELSE {})
        /\ UNCHANGED cnt
  /\ UNCHANGED sync

\* Reading the receive register: an error if the queue is empty.
RecvWord(c) ==
  LET s == Other(c)
  IN /\ \/ ~cnt[c].enable /\ UNCHANGED <<queues, irqs>>
        \/ /\ cnt[c].enable /\ QueueEmpty(s)
           /\ cnt' = [cnt EXCEPT ![c].error = TRUE]
           /\ UNCHANGED <<fifo, irqs>>
        \/ /\ cnt[c].enable /\ ~QueueEmpty(s)
           /\ fifo' = [fifo EXCEPT ![s] = Popped(s)]
           /\ SetIRQ(s, IF Drained(s) /\ cnt[s].sendIrq THEN {"IPCSendDone"} ELSE {})
           /\ UNCHANGED cnt
     /\ UNCHANGED sync

\* Writing IPCFIFOCNT: clear, then request what is newly enabled and already
\* so, then store the bits.
WriteCnt(c, val, clear, acknowledge) ==
  LET empty == clear \/ QueueEmpty(c)
      done == val.sendIrq /\ ~cnt[c].sendIrq /\ empty
      recv == val.recvIrq /\ ~cnt[c].recvIrq /\ Waiting(c)
  IN /\ fifo' = [fifo EXCEPT ![c] = IF clear THEN <<>> ELSE @]
     /\ SetIRQ(c, (IF done THEN {"IPCSendDone"} ELSE {}) \cup (IF recv THEN {"IPCRecv"} ELSE {}))
     /\ cnt' = [cnt EXCEPT ![c] = [enable |-> val.enable, sendIrq |-> val.sendIrq,
                                   recvIrq |-> val.recvIrq,
                                   error |-> @.error /\ ~acknowledge]]
     /\ UNCHANGED sync

\* Writing IPCSYNC: the other CPU sees the nibble, and is interrupted if asked.
WriteSync(c, nibble, request, irq) ==
  LET r == Other(c)
  IN /\ sync' = [sync EXCEPT ![r].in = nibble, ![c].out = nibble, ![c].irq = irq]
     /\ SetIRQ(r, IF request /\ sync[r].irq THEN {"IPCSync"} ELSE {})
     /\ UNCHANGED queues

-----------------------------------------------------------------------------
(* Any program may make any access at any time. *)

IPCNext ==
  \E c \in CPUs :
    \/ \E w \in Words : SendWord(c, w)
    \/ RecvWord(c)
    \/ \E val \in Settings, clear, ack \in BOOLEAN : WriteCnt(c, val, clear, ack)
    \/ \E n \in Nibbles, request \in BOOLEAN, irq \in SyncIrqs[c] : WriteSync(c, n, request, irq)
    \/ \E i \in Irqs : WriteIF(c, {i})
    \/ \E enabled \in EnableSets : WriteIE(c, enabled)
    \/ \E ime \in BOOLEAN : WriteIME(c, ime)

IPCSpec == IPCInit /\ [][IPCNext]_ipcvars

-----------------------------------------------------------------------------
(* Properties *)

IPCTypeOK ==
  /\ fifo \in [CPUs -> Seq(Words)] /\ \A c \in CPUs : Len(fifo[c]) <= Depth
  /\ cnt \in [CPUs -> [enable : BOOLEAN, sendIrq : BOOLEAN, recvIrq : BOOLEAN, error : BOOLEAN]]
  /\ sync \in [CPUs -> [in : Nibbles \cup {0}, out : Nibbles \cup {0}, irq : BOOLEAN]]
  /\ IE \in [CPUs -> SUBSET Irqs] /\ Flags \in [CPUs -> SUBSET Irqs]
  /\ IME \in [CPUs -> BOOLEAN] /\ IRQ \in [CPUs -> BOOLEAN]

\* The line a CPU looks at after every instruction is cached; whatever is
\* written, it always says what the registers say.
LineCurrent == \A c \in CPUs : IRQ[c] <=> IME[c] /\ \E i \in IE[c] : i \in Flags[c]

\* A CPU that wants to know of waiting words is told: whichever comes first,
\* the word or its wish, the interrupt is pending once both are there.
WantsRecv(c) == cnt[c].recvIrq /\ ~QueueEmpty(Other(c))
RecvIsTold == [][\A c \in CPUs : (cnt'[c].recvIrq /\ fifo'[Other(c)] # <<>> /\ ~WantsRecv(c))
                                   => "IPCRecv" \in Flags'[c]]_ipcvars

\* The same for the sender of an empty queue, whether the last word is read or
\* it asks later.  A sender that already asked and clears the queue itself is
\* not told: the one way for the queue to become empty in silence.
WantsDone(c) == cnt[c].sendIrq /\ QueueEmpty(c)
DoneIsTold ==
  [][\A c \in CPUs : /\ cnt'[c].sendIrq /\ fifo'[c] = <<>> /\ ~WantsDone(c)
                     /\ ~cnt[c].sendIrq \/ RecvWord(Other(c))
                     => "IPCSendDone" \in Flags'[c]]_ipcvars
=============================================================================
