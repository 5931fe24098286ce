------------------------------ MODULE Devices ------------------------------
(***************************************************************************)
(* The parts of the console that work by themselves between two calls from *)
(* the rest: the ring container, the queues between the CPUs (driven by    *)
(* any accesses, or by a pair of programs), one CPU's timers, the way of   *)
(* commands into the 3D engine, and the way of samples to the host.  They  *)
(* share no state, so a behaviour here is one of one of them, chosen at    *)
(* the start, while the others stand still: their product would only       *)
(* multiply the states.                                                    *)
(***************************************************************************)
EXTENDS FIFO, IPCDriver, Timers, GXTransfer, SPUOutput

VARIABLE device

DeviceNames == {"ring", "ipc", "driver", "timers", "geometry", "sound"}

DevInit ==
  /\ device \in DeviceNames
  /\ Init /\ TimInit /\ GxInit /\ SpuInit
  /\ IF device = "driver" THEN DrvInit ELSE IPCInit /\ ProgramsInit

RingMoves == device = "ring" /\ Next /\ UNCHANGED <<drvvars, timvars, gxvars, spuvars>>

IPCMoves == /\ device = "ipc" /\ IPCNext
            /\ UNCHANGED <<vars, drivervars, timvars, gxvars, spuvars>>

ProgramMoves(c) == device = "driver" /\ Step(c) /\ UNCHANGED <<vars, timvars, gxvars, spuvars>>

TimersMove == device = "timers" /\ TimNext /\ UNCHANGED <<vars, drvvars, gxvars, spuvars>>

GeometryMoves == device = "geometry" /\ GxNext /\ UNCHANGED <<vars, drvvars, timvars, spuvars>>

SoundMoves == device = "sound" /\ SpuNext /\ UNCHANGED <<vars, drvvars, timvars, gxvars>>

DevNext ==
  /\ \/ RingMoves \/ IPCMoves \/ TimersMove \/ GeometryMoves \/ SoundMoves
     \/ \E c \in CPUs : ProgramMoves(c)
  /\ UNCHANGED device

devvars == <<vars, drvvars, timvars, gxvars, spuvars, device>>

\* Both CPUs run on.
DevFairness == \A c \in CPUs : WF_drvvars(device = "driver" /\ Step(c))

DevSpec == DevInit /\ [][DevNext]_devvars /\ DevFairness

-----------------------------------------------------------------------------
(* Properties, those of the devices' modules; and here the types of all of     *)
(* them, and what is said of the programs that use the queues.                 *)

\* Every device keeps its types: the ring's positions agree with its count
\* (FIFO.h), no queue or pool holds more than it can (NDS.cpp, GPU3D.cpp,
\* SPU.cpp), no counter passes its top.  The words of the two programs are
\* numbers, and not among those of IPCTypeOK.
DevTypeOK == /\ device \in DeviceNames
             /\ Inv /\ TimTypeOK /\ GxTypeOK /\ SpuTypeOK
             /\ device # "driver" => IPCTypeOK

\* Words are neither lost, repeated nor reordered between two programs that
\* take their interrupts whenever these come (NDS.cpp, IPCFIFOSEND and -RECV).
DriverInOrder == device = "driver" => InOrder

\* No program sleeps on a word that waits for it, or on a queue it may fill
\* (the interrupts of NDS.cpp, IPCFIFOSEND, IPCFIFORECV and IPCFIFOCNT).
DriverWakesUp == device = "driver" => NoLostWakeup

\* Both programs, halting whenever they can, send and receive everything.
EverythingArrives == device = "driver" => EverythingReceived

\* As long as RunFrame is called again and again, no stall of the ARM9 lasts
\* and no transfer to the command FIFO is forgotten (GPU3D.cpp, CmdFIFORead and
\* CheckFIFODMA; the exception is in NobodyWaitsForever).
StallsAndTransfersEnd == GxFairness => NobodyWaitsForever
=============================================================================
