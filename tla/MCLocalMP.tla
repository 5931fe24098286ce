------------------------------ MODULE MCLocalMP ------------------------------
EXTENDS LocalMP, TLC

Pair(a, b) == (Packet :> a) @@ (Reply :> b)

\* Frames: a ring of six cells after the segment's header, starts
\* where the first packets end before, at and after its end.
Start == Pair(1, 7)
RingEnd == Pair(7, 10)
FrameStarts == {Pair(o, 7) : o \in 4 .. 6}
OneStart == {Pair(1, 7)}

\* Replies: a ring of six cells for them too.
ReplyStart == Pair(1, 7)
ReplyEnd == Pair(7, 13)
ReplyStarts == {Pair(1, o) : o \in 7 .. 12}

=============================================================================
