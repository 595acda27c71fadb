---------------------------- MODULE MCTileSocket ----------------------------
(* Model-checking instance of TileSocket: a geohash proper, and the JSON      *)
(* values 1, 1.0 and "1", of which two are equal and two print alike.         *)
EXTENDS TileSocket, TLC

MCGeohashes == {"9q8", "one", "one.0", "'1'"}
MCGroup == [g \in MCGeohashes |-> IF g = "'1'" THEN "tile_one" ELSE "tile_" \o g]
MCTile == [g \in MCGeohashes |-> IF g = "one.0" THEN "one" ELSE g]
=============================================================================
