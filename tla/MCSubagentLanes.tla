-------------------------- MODULE MCSubagentLanes --------------------------
(* Small instances of SubagentLanes for TLC. *)
EXTENDS SubagentLanes, TLC
CONSTANTS a, b
TwoLanes == {a, b}
ThreeAndTwo == (a :> 3 @@ b :> 2)
TwoEach == (a :> 2 @@ b :> 2)
=============================================================================
