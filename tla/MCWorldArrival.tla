---------------------------- MODULE MCWorldArrival ---------------------------
(* A strip of three tiles on one map, whose third ADT cannot be read, and a *)
(* map that is one building.  A doodad and a building straddle the first    *)
(* seam.                                                                    *)
EXTENDS WorldArrival

MCAuthored == [m \in Maps |-> IF m = "strip" THEN Tile ELSE {}]
MCUnreadable == [m \in Maps |-> IF m = "strip" THEN {2} ELSE {}]
MCWdtAnswers == [m \in Maps |-> IF m = "strip" THEN {"ok"} ELSE {"ok", "failed"}]
MCLists == [m \in Maps |-> [t \in Tile |->
             IF m = "strip" /\ t \in {0, 1} THEN {"tree", "inn"} ELSE {}]]
MCGlobalOf == [m \in Maps |-> IF m = "hall" THEN {"dungeon"} ELSE {}]
MCProps == [b \in Buildings |-> IF b = "dungeon" THEN {"lamp"} ELSE {}]
\* the lamp hangs indoors, in no tile's shade
MCGround == [x \in {"tree"} |-> 0]
\* the tree stands on the tile that cannot be read
MCGroundLost == [MCGround EXCEPT !["tree"] = 2]
MCSpots == {1, 5}
MCWalkable == 3 .. 5
\* a shot glides across the first seam, or over the last tile
MCFlown == {1, 2, 4, 5}
\* for the latch: a shot glides anywhere
MCAlong == Chunk
\* and one building of the first tile is all that stands
MCListsFirst == [m \in Maps |-> [t \in Tile |-> IF t = 0 THEN {"inn"} ELSE {}]]
MCNoProps == [b \in Buildings |-> {}]
MCNoGround == [x \in {} |-> 0]
=============================================================================
