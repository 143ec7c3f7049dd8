------------------------------- MODULE MCGaze -------------------------------
(***************************************************************************)
(* Gaze with two connections and joints of a few degrees.                  *)
(***************************************************************************)
EXTENDS Gaze

TwoLists   == {<<0, 3>>, <<3, 0>>}
LowLimits  == [j \in Joint |-> 0]
HighLimits == [j \in Joint |-> 2 - j]
RestPose   == [j \in Joint |-> j]
=============================================================================
