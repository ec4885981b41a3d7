----------------------------- MODULE TileRanges -----------------------------
(***************************************************************************)
(* The arithmetic of XYZ tile ranges: where a tile lies, which tiles a     *)
(* deletion range names, and which native source cells it touches          *)
(* (src/src/lib/maptiles.cpp, terrain_data.cpp, download_coverage.cpp and  *)
(* copernicus_terrain_provider.cpp).                                       *)
(*                                                                         *)
(* Longitudes and latitudes are whole numbers of ticks, with 0 at the      *)
(* meridian and the equator.  Tile rows are evenly spaced; the Mercator    *)
(* projection stretches them, and nothing below depends on their spacing.  *)
(* It is kept that the tiles end before the poles (Edge).  Floating-point  *)
(* rounding is not modelled.                                               *)
(* Operators named <Definition>_<mistake> are that definition with a       *)
(* mistake; no specification uses them.                                    *)
(***************************************************************************)
EXTENDS Integers, FiniteSetsExt

CONSTANTS
  MaxZoom,   \* 30
  Ticks,     \* positions in a degree
  HalfTurn,  \* 180: longitudes end at +-HalfTurn degrees
  Pole,      \* 90
  Edge       \* tiles end at +-Edge ticks of latitude

Zooms == 0 .. MaxZoom
Turn == 2 * HalfTurn * Ticks

(* Tiles have whole edges at every zoom.                                   *)
ASSUME TileAssumption ==
  /\ MaxZoom \in Nat /\ Ticks \in Nat \ {0} /\ HalfTurn \in Nat \ {0} /\ Pole \in Nat \ {0}
  /\ Edge \in 1 .. Pole * Ticks
  /\ \A zoom \in Zooms :
       /\ 2^zoom \in Nat \ {0}   \* said because a proof would need induction
       /\ Turn % 2^zoom = 0 /\ (2 * Edge) % 2^zoom = 0

Box(west, south, east, north) ==
  [west |-> west, south |-> south, east |-> east, north |-> north]

(* xyzBounds: longitudes grow with x, latitudes fall with y.               *)
ColumnWest(zoom, x) == x * (Turn \div 2^zoom) - HalfTurn * Ticks
RowNorth(zoom, y) == Edge - y * ((2 * Edge) \div 2^zoom)

XyzBounds(zoom, x, y) ==
  Box(ColumnWest(zoom, x), RowNorth(zoom, y + 1), ColumnWest(zoom, x + 1), RowNorth(zoom, y))

-----------------------------------------------------------------------------
(* Columns *)

(* The % of C++: the remainder has the sign of the dividend.               *)
Remainder(a, b) == IF a >= 0 THEN a % b ELSE -((-a) % b)

PositiveModulo(value, divisor) ==
  LET remainder == Remainder(value, divisor)
  IN IF remainder < 0 THEN remainder + divisor ELSE remainder

TileXInsideRange_Unwrapped(x, count, x_min, x_max) ==
  \/ x_max - x_min + 1 >= count
  \/ PositiveModulo(x_min, count) <= x /\ x <= PositiveModulo(x_max, count)

(* The range wraps around the antimeridian.                                *)
TileXInsideRange(x, count, x_min, x_max) ==
  LET range_width == x_max - x_min + 1
      offset == PositiveModulo(x - PositiveModulo(x_min, count), count)
  IN range_width >= count \/ offset < range_width

-----------------------------------------------------------------------------
(* Deletion ranges *)

ValidRange(range) == range.x_min <= range.x_max /\ range.y_min <= range.y_max

BoundedRows(range) == Max({0, range.y_min}) .. Min({2^range.zoom - 1, range.y_max})

(* The tiles deleteTiles and deleteNormalizedTiles take.                   *)
TilesOfRange(range) ==
  {tile \in (0 .. 2^range.zoom - 1) \X BoundedRows(range) :
     TileXInsideRange(tile[1], 2^range.zoom, range.x_min, range.x_max)}

(* The geographic box of the range, with unwrapped longitudes.             *)
BoxOfRange(range) ==
  LET rows == BoundedRows(range)
      all == range.x_max - range.x_min + 1 >= 2^range.zoom
  IN Box(IF all THEN -HalfTurn * Ticks ELSE ColumnWest(range.zoom, range.x_min),
         RowNorth(range.zoom, Max(rows) + 1),
         IF all THEN HalfTurn * Ticks ELSE ColumnWest(range.zoom, range.x_max + 1),
         RowNorth(range.zoom, Min(rows)))

Floor(position) == position \div Ticks
Ceiling(position) == -((-position) \div Ticks)
Clamp(cell) == Max({-Pole, Min({Pole - 1, cell})})

WrappedWest(west) == PositiveModulo(west + HalfTurn, 2 * HalfTurn) - HalfTurn

CellsOfBox_WithNeighbours(box) ==
  (Clamp(Floor(box.south)) .. Clamp(Floor(box.north)))
     \X {WrappedWest(west) : west \in Floor(box.west) .. Floor(box.east)}

(* CopernicusTerrainProvider::deleteSourceData: the cells with a part of   *)
(* positive area in the box, by south and west edge.                       *)
CellsOfBox(box) ==
  LET first == Floor(box.west)
      last == Ceiling(box.east) - 1
  IN (Clamp(Floor(box.south)) .. Clamp(Ceiling(box.north) - 1))
       \X (IF last - first + 1 >= 2 * HalfTurn THEN -HalfTurn .. HalfTurn - 1
           ELSE {WrappedWest(west) : west \in first .. last})

CellsOfRange(range) == IF BoundedRows(range) = {} THEN {} ELSE CellsOfBox(BoxOfRange(range))
=============================================================================
