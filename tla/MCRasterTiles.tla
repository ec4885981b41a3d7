--------------------------- MODULE MCRasterTiles ---------------------------
(* Instances of RasterTiles: tile a, asked for as x and as x + 2^z, and    *)
(* tiles b and c; an old and a new URL of the provider.                    *)
EXTENDS RasterTiles

CONSTANTS a, b, c, ax, ax2, bx, cx

MCCanonical == [rk \in ResponseKeys |-> 
                   IF rk \in {ax, ax2} THEN a ELSE IF rk = bx THEN b ELSE c]
Symmetry == Permutations(Requests)
=============================================================================
