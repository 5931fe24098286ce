----------------------------- MODULE IPCDriver -----------------------------
(***************************************************************************)
(* Two programs that use the queues of module IPC as games do: everything  *)
(* is done by interrupt handlers, and a CPU with nothing to do halts       *)
(* (ARM.cpp, HaltInterrupted).  The programs are not part of the           *)
(* repository; halting and interrupts are.                                 *)
(***************************************************************************)
EXTENDS IPC

CONSTANT MaxWords       \* bound: words each CPU sends

VARIABLES
  pc,          \* where each CPU is
  served,      \* interrupts its handler serves
  sent, received

drivervars == <<pc, served, sent, received>>
drvvars == <<ipcvars, drivervars>>

\* The programs before they start; and with the queues set up.
ProgramsInit ==
  /\ pc = [c \in CPUs |-> "main"] /\ served = [c \in CPUs |-> {}]
  /\ sent = [c \in CPUs |-> <<>>] /\ received = [c \in CPUs |-> <<>>]

DrvInit ==
  /\ fifo = [c \in CPUs |-> <<>>]
  /\ cnt = [c \in CPUs |-> [enable |-> TRUE, sendIrq |-> FALSE, recvIrq |-> TRUE, error |-> FALSE]]
  /\ sync = [c \in CPUs |-> [in |-> 0, out |-> 0, irq |-> FALSE]]
  /\ IE = [c \in CPUs |-> {"IPCSendDone", "IPCRecv"}] /\ Flags = [c \in CPUs |-> {}]
  /\ IME = [c \in CPUs |-> TRUE] /\ IRQ = [c \in CPUs |-> FALSE]
  /\ ProgramsInit

\* The words are numbered.
Number(c) == Len(sent[c]) + 1
Outbox(c) == MaxWords - Len(sent[c])
Wish(send) == [enable |-> TRUE, sendIrq |-> send, recvIrq |-> TRUE]

-----------------------------------------------------------------------------
(* The main program: ask to be told when words can be sent, or halt. *)

AskToSend(c) ==
  /\ pc[c] = "main" /\ ~IRQ[c] /\ Outbox(c) > 0 /\ ~cnt[c].sendIrq
  /\ WriteCnt(c, Wish(TRUE), FALSE, FALSE)
  /\ UNCHANGED drivervars

Halt(c) == /\ pc[c] = "main" /\ ~IRQ[c] /\ (Outbox(c) = 0 \/ cnt[c].sendIrq)
           /\ pc' = [pc EXCEPT ![c] = "halted"]
           /\ UNCHANGED <<ipcvars, served, sent, received>>

HaltInterrupted(c) == (c = 1 \/ IME[c]) /\ Flags[c] \cap IE[c] # {}

\* The CPU takes the interrupt: after an instruction, if its line is raised,
\* or when it is halted and the interrupt is due.
TriggerIRQ(c) ==
  /\ \/ pc[c] = "main" /\ IRQ[c]
     \/ pc[c] = "halted" /\ HaltInterrupted(c) /\ IME[c]
  /\ pc' = [pc EXCEPT ![c] = "acknowledge"]
  /\ UNCHANGED <<ipcvars, served, sent, received>>

-----------------------------------------------------------------------------
(* The handler, with interrupts masked: acknowledge, then serve. *)

Acknowledge(c) ==
  /\ pc[c] = "acknowledge"
  /\ served' = [served EXCEPT ![c] = Flags[c] \cap IE[c]]
  /\ WriteIF(c, Flags[c] \cap IE[c])
  /\ pc' = [pc EXCEPT ![c] = "serve"]
  /\ UNCHANGED <<sent, received>>

Drain(c) ==
  /\ pc[c] = "serve" /\ "IPCRecv" \in served[c]
  /\ IF QueueEmpty(Other(c))
     THEN /\ served' = [served EXCEPT ![c] = @ \ {"IPCRecv"}]
          /\ UNCHANGED <<ipcvars, received>>
     ELSE /\ RecvWord(c)
          /\ received' = [received EXCEPT ![c] = Append(@, Head(fifo[Other(c)]))]
          /\ UNCHANGED served
  /\ UNCHANGED <<pc, sent>>

Fill(c) ==
  /\ pc[c] = "serve" /\ "IPCSendDone" \in served[c] /\ "IPCRecv" \notin served[c]
  /\ \/ /\ Outbox(c) > 0 /\ ~QueueFull(c)
        /\ SendWord(c, Number(c)) /\ sent' = [sent EXCEPT ![c] = Append(@, Number(c))]
        /\ UNCHANGED served
     \/ /\ Outbox(c) > 0 /\ QueueFull(c)
        /\ served' = [served EXCEPT ![c] = @ \ {"IPCSendDone"}]
        /\ UNCHANGED <<ipcvars, sent>>
     \/ /\ Outbox(c) = 0
        /\ WriteCnt(c, Wish(FALSE), FALSE, FALSE)
        /\ served' = [served EXCEPT ![c] = @ \ {"IPCSendDone"}]
        /\ UNCHANGED sent
  /\ UNCHANGED <<pc, received>>

Return(c) == /\ pc[c] = "serve" /\ served[c] = {}
             /\ pc' = [pc EXCEPT ![c] = "main"]
             /\ UNCHANGED <<ipcvars, served, sent, received>>

-----------------------------------------------------------------------------

Step(c) == \/ AskToSend(c) \/ Halt(c) \/ TriggerIRQ(c)
           \/ Acknowledge(c) \/ Drain(c) \/ Fill(c) \/ Return(c)

DrvNext == \E c \in CPUs : Step(c)

-----------------------------------------------------------------------------
(* Properties *)

\* Words are neither lost, repeated nor reordered on their way, however the
\* two CPUs and their interrupts interleave.
InOrder == \A c \in CPUs : sent[c] = received[Other(c)] \o fifo[c]

\* No wakeup is lost: a CPU outside its handler with words waiting, or with
\* words to send and an empty queue it asked about, has an interrupt pending.
NoLostWakeup ==
  \A c \in CPUs : pc[c] \in {"main", "halted"} =>
    /\ ~QueueEmpty(Other(c)) => "IPCRecv" \in Flags[c]
    /\ cnt[c].sendIrq /\ QueueEmpty(c) => "IPCSendDone" \in Flags[c]

\* So both CPUs, halting whenever they can, send and receive everything.
EverythingReceived == <>[](\A c \in CPUs : Len(received[c]) = MaxWords)
=============================================================================
