--------------------------- MODULE MCTerrainFlight ---------------------------
(* Small instances of TerrainFlight: one key that is a grid, one that is   *)
(* not, few requests, and reservations small enough to be refused.         *)
EXTENDS TerrainFlight, TLC

CONSTANTS tile, grid    \* the two keys

MCKeys == {tile, grid}
MCCost == (tile :> 0) @@ (grid :> 2)
=============================================================================
