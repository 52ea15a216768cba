-------------------------------- MODULE MCSim --------------------------------
(* Small instances of Sim: the map is a line of cells with the Red base at *)
(* its left end and the Blue base at its right end.                        *)
EXTENDS Sim

CONSTANT Length

MCPos == 1 .. Length
MCDir == {-1, 0, 1}
MCStep(p, d) == IF p + d \in MCPos THEN p + d ELSE p
MCOverlap(p, q) == p = q
MCBase == [t \in Team |-> IF t = "Red" THEN 1 ELSE Length]
MCSpawn == [t \in Team |-> [s \in SpawnIndex |-> MCBase[t]]]
MCDuel == {[id |-> 0, team |-> "Red", spawn |-> 0],
           [id |-> 1, team |-> "Blue", spawn |-> 0]}
=============================================================================
