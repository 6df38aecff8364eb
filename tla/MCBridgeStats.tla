----------------------------- MODULE MCBridgeStats ----------------------------
(* Bounds of the runs of the statistics: more frames than there are numbers,  *)
(* one captured at every tick; latencies below, inside and above what they    *)
(* are cut to.                                                                *)
EXTENDS BridgeStats

EveryTick == [f \in 0 .. Frames - 1 |-> DuplicateTime + f]
NoOffsets == {}
OneAge == {0}
SmallOffsets == {0, 1}
SomeAges == {0, 1, 2}
===============================================================================
