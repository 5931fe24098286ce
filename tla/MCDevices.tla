----------------------------- MODULE MCDevices -----------------------------
EXTENDS Devices
\* The CPUs' queues
All(on) == [enable |-> on, sendIrq |-> on, recvIrq |-> on]
OffOrOn == {All(FALSE), All(TRUE)}
EveryIrq == {Irqs}
NobodyListens == [c \in CPUs |-> {FALSE}]
\* The timers
Off == [start |-> FALSE, countUp |-> FALSE, irq |-> FALSE, scale |-> 1]
Fast == [start |-> TRUE, countUp |-> FALSE, irq |-> TRUE, scale |-> 2]
Slow == [start |-> TRUE, countUp |-> FALSE, irq |-> FALSE, scale |-> 1]
Chain == [start |-> TRUE, countUp |-> TRUE, irq |-> TRUE, scale |-> 1]
ChainedSettings == 0 :> {Off, Fast, Slow} @@ 1 :> {Chain} @@ 2 :> {Chain}
\* The 3D engine and the channels that feed it
KindCost == "draw" :> 2 @@ "stack" :> 1 @@ "swap" :> 2
OneOrTwo == {<<"draw", "stack">>, <<"swap">>}
OneWord == {<<"draw">>}
Now(n) == [enable |-> TRUE, gxMode |-> FALSE, repeat |-> FALSE, count |-> n]
Repeat(n) == [enable |-> TRUE, gxMode |-> TRUE, repeat |-> TRUE, count |-> n]
GxControls == 0 :> {Now(1)} @@ 1 :> {ChannelOff, Repeat(3)}
=============================================================================
