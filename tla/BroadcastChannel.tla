-------------------------- MODULE BroadcastChannel --------------------------
(***************************************************************************)
(* What local multiplayer promises its callers about frames: a broadcast   *)
(* channel.  A node that is switched on receives what the others send from *)
(* then on, each frame once, in the one order in which they were sent.     *)
(***************************************************************************)
EXTENDS Sequences

CONSTANTS Nodes,   \* who takes part
          Frames   \* what they send

VARIABLES on,      \* which nodes are switched on
          inbox,   \* frames a node has yet to receive
          last     \* the frame a node received last

vars == <<on, inbox, last>>

Init == /\ on = [n \in Nodes |-> FALSE]
        /\ inbox = [n \in Nodes |-> <<>>]
        /\ \A n, m \in Nodes : last[n] = last[m]

\* Switching on or off empties the inbox.
Switch(n) ==
  /\ on' = [on EXCEPT ![n] = ~@]
  /\ inbox' = [inbox EXCEPT ![n] = <<>>]
  /\ UNCHANGED last

\* The same frame joins the inbox of every other node that is on.
Send(n, frame) ==
  /\ on[n]
  /\ inbox' = [k \in Nodes |-> IF on[k] /\ k # n THEN Append(inbox[k], frame)
                              ELSE inbox[k]]
  /\ UNCHANGED <<on, last>>

Deliver(n) ==
  /\ on[n] /\ inbox[n] # <<>>
  /\ last' = [last EXCEPT ![n] = Head(inbox[n])]
  /\ inbox' = [inbox EXCEPT ![n] = Tail(@)]
  /\ UNCHANGED on

Next == \E n \in Nodes : \/ Switch(n)
                         \/ \E frame \in Frames : Send(n, frame)
                         \/ Deliver(n)

Spec == Init /\ [][Next]_vars
=============================================================================
