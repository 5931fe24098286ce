---------------------------- MODULE MCGXTransfer ----------------------------
EXTENDS GXTransfer
KindCost == "draw" :> 2 @@ "stack" :> 1 @@ "swap" :> 2
OneOrTwo == {<<"draw", "stack">>, <<"swap">>}
OneWord == {<<"draw">>}
NoTransfers == 0 :> {ChannelOff}
=============================================================================
