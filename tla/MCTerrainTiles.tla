--------------------------- MODULE MCTerrainTiles ---------------------------
(* Instances of TerrainTiles: a fine and a coarse tile over an ocean cell, *)
(* a cell on land and, where it matters, one that only the coarse tile     *)
(* needs.                                                                  *)
EXTENDS TerrainTiles, TLC

CONSTANTS fine, coarse, ocean, land, coast

MCNeeds == fine :> {ocean, land} @@ coarse :> {ocean, land, coast}
MCSmallNeeds == fine :> {land} @@ coarse :> {ocean, land}
MCCoarser == fine :> coarse @@ coarse :> None
=============================================================================
