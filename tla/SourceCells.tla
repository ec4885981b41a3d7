---------------------------- MODULE SourceCells ----------------------------
(***************************************************************************)
(* Which native source cells a normalized tile or an analysis grid is made *)
(* from, and which of their pixels: acquireTileSources and                 *)
(* acquireGridSources list cells from the address alone; fetchTile and     *)
(* fetchAnalysisGrid later read cells as sampling comes across them, and a *)
(* cell that was not listed is a hole then.                                *)
(* (src/src/lib/copernicus_terrain_provider.cpp.)                          *)
(*                                                                         *)
(* Longitudes and latitudes are whole numbers of ticks, chosen so that     *)
(* pixels, half pixels, samples and half sample spacings are whole too:    *)
(* floating-point rounding is not modelled.  Sample rows are evenly spaced *)
(* in latitude; the Mercator projection stretches them, and nothing below  *)
(* depends on their spacing.  Source rasters are tiled, or stripped        *)
(* (blocks as wide as the raster).  No pixel is no-data: such a pixel only *)
(* ends a sample's reading earlier, and adds nothing to an average.        *)
(* Operators named <Definition>_<mistake> are that definition with a       *)
(* mistake; no specification uses them.                                    *)
(***************************************************************************)
EXTENDS Integers, FiniteSetsExt

CONSTANTS
  Ticks,            \* positions in a degree
  HalfTurn,         \* 180: longitudes end at +-HalfTurn degrees
  Pole,             \* 90
  Columns,          \* pixel columns of the cells that start at a latitude
  Rows,             \* pixel rows of every cell
  LongitudeMargin,  \* SourceNeighbourLongitudeMarginDeg
  LatitudeMargin,   \* SourceNeighbourLatitudeMarginDeg
  HalfColumn,       \* MaximumSourceHalfPixelLongitudeDeg
  HalfRow,          \* MaximumSourceHalfPixelLatitudeDeg
  BlockWidth,       \* pixels of a compressed block
  BlockHeight,
  MaxGridCells,     \* MaximumAnalysisGridSourceCells
  Available,        \* the cells that have a source
  Requests,         \* tiles and analysis grids clients ask for
  None

Cells == (-Pole .. Pole - 1) \X (-HalfTurn .. HalfTurn - 1)

ASSUME RasterAssumption ==
  /\ Ticks \in Nat \ {0} /\ HalfTurn \in Nat \ {0} /\ Pole \in Nat \ {0}
  /\ Columns \in [-Pole .. Pole - 1 -> Nat \ {0}] /\ Rows \in Nat \ {0}
  /\ \A s \in -Pole .. Pole - 1 : Ticks % (2 * Columns[s]) = 0
  /\ Ticks % (2 * Rows) = 0
  /\ BlockWidth \in Nat \ {0} /\ BlockHeight \in Nat \ {0}
  /\ Available \subseteq Cells /\ MaxGridCells \in Nat

(* The margins reach over the widest column and row.  HalfColumn is only   *)
(* known to be within them: the code has half of 6", and columns above 85  *)
(* degrees, which tiles reach, are 10" wide (360 in a cell).               *)
ASSUME MarginAssumption ==
  /\ LongitudeMargin \in Nat /\ LatitudeMargin \in Nat /\ HalfColumn \in Nat /\ HalfRow \in Nat
  /\ \A s \in -Pole .. Pole - 1 : LongitudeMargin * Columns[s] >= Ticks
  /\ LatitudeMargin * Rows >= Ticks /\ 2 * HalfRow * Rows = Ticks
  /\ HalfColumn <= LongitudeMargin /\ HalfRow <= LatitudeMargin

(* "point" is a tile of the native zoom, "average" one of a coarser zoom.  *)
(* Tiles and grids end before the last half pixel of the southern pole (at *)
(* 85 degrees: validAnalysisGridRequest, and the extent of Web Mercator).  *)
ASSUME RequestAssumption ==
  \A r \in Requests :
    /\ r.kind \in {"point", "average", "grid"} /\ r.n \in Nat \ {0}
    /\ r.west \in Int /\ r.east \in Int /\ r.south \in Int /\ r.north \in Int
    /\ r.west < r.east /\ -HalfTurn * Ticks <= r.west /\ r.east <= HalfTurn * Ticks
    /\ r.south < r.north /\ -Pole * Ticks + HalfRow < r.south /\ r.north < Pole * Ticks
    /\ (r.east - r.west) % (2 * r.n) = 0 /\ (r.north - r.south) % (2 * r.n) = 0

VARIABLES
  request,  \* the tile or grid in hand
  phase,    \* what became of it
  listed,   \* cells the acquisition stage would have cached
  left,     \* cells accumulateAreaAverages has ahead, with unwrapped longitudes
  read,     \* cells CopernicusRasterSet::raster was asked for
  weights,  \* box_weights
  point,    \* samples done
  pixel     \* the pixel the last native sample was read from

vars == <<request, phase, listed, left, read, weights, point, pixel>>

-----------------------------------------------------------------------------
(* Cells and coordinates *)

(* A cell has its north and west edges, not the south and east ones.       *)
SouthOf(lat) ==
  IF lat <= -Pole * Ticks THEN -Pole
  ELSE IF lat >= Pole * Ticks THEN Pole - 1 ELSE (lat - 1) \div Ticks

(* wrappedSourceWest *)
Wrapped(west) == ((west + HalfTurn) % (2 * HalfTurn)) - HalfTurn

WestOf(lon) ==
  IF lon >= HalfTurn * Ticks THEN HalfTurn - 1
  ELSE IF lon <= -HalfTurn * Ticks THEN -HalfTurn ELSE lon \div Ticks

CellAt(lat, lon) == <<SouthOf(lat), WestOf(lon)>>

-----------------------------------------------------------------------------
(* Samples *)

StepX(r) == (r.east - r.west) \div r.n
StepY(r) == (r.north - r.south) \div r.n

(* A tile has a sample at each grid line, an analysis grid one in the      *)
(* middle of each of its cells.                                            *)
PerRow(r) == IF r.kind = "grid" THEN r.n ELSE r.n + 1
Points(r) == PerRow(r) * PerRow(r)

Longitude(r, column) ==
  r.west + column * StepX(r) + IF r.kind = "grid" THEN StepX(r) \div 2 ELSE 0
Latitude(r, row) ==
  r.north - row * StepY(r) - IF r.kind = "grid" THEN StepY(r) \div 2 ELSE 0

LongitudeOf(r, p) == Longitude(r, p % PerRow(r))
LatitudeOf(r, p) == Latitude(r, p \div PerRow(r))

(* Edges 0 .. n + 1 of the sample boxes: half a spacing to each side.      *)
LongitudeEdge(r, edge) == r.west + edge * StepX(r) - StepX(r) \div 2
LatitudeEdge(r, edge) == r.north - edge * StepY(r) + StepY(r) \div 2

Boxes(r) == (0 .. r.n) \X (0 .. r.n)

-----------------------------------------------------------------------------
(* The acquisition stage *)

TileCells_NoMargin(r) ==
  {<<s, Wrapped(w)>> : s \in SouthOf(r.south) .. SouthOf(r.north),
                       w \in r.west \div Ticks .. r.east \div Ticks}

TileCells(r) ==
  LET beyondX == IF r.kind = "average" THEN StepX(r) \div 2 ELSE 0
      beyondY == IF r.kind = "average" THEN StepY(r) \div 2 ELSE 0
  IN {<<s, Wrapped(w)>> :
        s \in SouthOf(r.south - beyondY - LatitudeMargin)
                .. SouthOf(r.north + beyondY + LatitudeMargin),
        w \in (r.west - beyondX - LongitudeMargin) \div Ticks
                .. (r.east + beyondX + LongitudeMargin) \div Ticks}

(* The cell of each sample, and neighbours its nearest pixel may be in.    *)
GridCells(r) ==
  UNION {LET lon == LongitudeOf(r, p)
             lat == LatitudeOf(r, p)
             s == SouthOf(lat)
             w == WestOf(lon)
             east == w < HalfTurn - 1 /\ lon - w * Ticks >= Ticks - LongitudeMargin
             south == s > -Pole /\ lat - s * Ticks <= LatitudeMargin
         IN {<<s, w>>} \union (IF east THEN {<<s, w + 1>>} ELSE {})
              \union (IF south THEN {<<s - 1, w>>} ELSE {})
              \union (IF east /\ south THEN {<<s - 1, w + 1>>} ELSE {})
         : p \in 0 .. Points(r) - 1}

Listed(r) == IF r.kind = "grid" THEN GridCells(r) ELSE TileCells(r)

TooLarge_Never(r) == FALSE
TooLarge(r) == r.kind = "grid" /\ Cardinality(GridCells(r)) > MaxGridCells

-----------------------------------------------------------------------------
(* Point samples *)

(* The cell of a pixel position of base, which may lie just outside it.    *)
GridValueCell(base, column, row) ==
  CellAt((base[1] + 1) * Ticks - row * (Ticks \div Rows),
         base[2] * Ticks + column * (Ticks \div Columns[base[1]]))

(* The bilinear sample: the pixels around the coordinate that have weight, *)
(* in the order they are read, up to the first that has no source.         *)
SampleReads(lat, lon) ==
  LET base == CellAt(lat, lon)
      width == Ticks \div Columns[base[1]]
      height == Ticks \div Rows
      x == lon - base[2] * Ticks
      y == (base[1] + 1) * Ticks - lat
      corners == {i \in 0 .. 3 : /\ i % 2 = 1 => x % width # 0
                                 /\ i \div 2 = 1 => y % height # 0}
      Cell(i) == GridValueCell(base, x \div width + (i % 2), y \div height + (i \div 2))
  IN {base} \union
     (IF base \in Available
      THEN {Cell(i) : i \in {k \in corners : \A j \in corners : j < k => Cell(j) \in Available}}
      ELSE {})

(* llround of a quotient, for what is not negative.                        *)
Rounded_Down(a, b) == a \div b
Rounded(a, b) == (2 * a + b) \div (2 * b)

Clamped(value, last) == Max({0, Min({value, last})})

(* sampleNative: the pixel at position (column, row) of its cell, or none. *)
NativeCell(lat, lon) ==
  LET base == CellAt(lat, lon)
  IN GridValueCell(base, Rounded(lon - base[2] * Ticks, Ticks \div Columns[base[1]]),
                         Rounded((base[1] + 1) * Ticks - lat, Ticks \div Rows))

NativeReads(lat, lon) ==
  {CellAt(lat, lon)} \union
  (IF CellAt(lat, lon) \in Available THEN {NativeCell(lat, lon)} ELSE {})

NativePixel(lat, lon) ==
  LET base == CellAt(lat, lon)
      cell == NativeCell(lat, lon)
      width == Ticks \div Columns[base[1]]
      height == Ticks \div Rows
      x == base[2] * Ticks + Rounded(lon - base[2] * Ticks, width) * width
      y == (base[1] + 1) * Ticks - Rounded((base[1] + 1) * Ticks - lat, height) * height
  IN IF base \notin Available \/ cell \notin Available THEN None
     ELSE [cell |-> cell,
           column |-> Clamped(Rounded(x - cell[2] * Ticks, Ticks \div Columns[cell[1]]),
                              Columns[cell[1]] - 1),
           row |-> Clamped(Rounded((cell[1] + 1) * Ticks - y, height), Rows - 1)]

-----------------------------------------------------------------------------
(* Area averages.  Longitudes are unwrapped: edges and cells may lie beyond *)
(* +-HalfTurn.                                                             *)

Candidates_NoHalfPixel(r) ==
  (LatitudeEdge(r, r.n + 1) \div Ticks .. LatitudeEdge(r, 0) \div Ticks)
    \X (LongitudeEdge(r, 0) \div Ticks .. LongitudeEdge(r, r.n + 1) \div Ticks)

Candidates(r) ==
  LET west == LongitudeEdge(r, 0)
      east == LongitudeEdge(r, r.n + 1)
      north == LatitudeEdge(r, 0)
      south == LatitudeEdge(r, r.n + 1)
  IN (Max({-Pole, (south - HalfRow) \div Ticks})
        .. Min({Pole - 1, (north - HalfRow - 1) \div Ticks}))
     \X (west \div Ticks .. (east + HalfColumn) \div Ticks)

(* The pixels of a cell whose footprint overlaps the boxes.                *)
ColumnRange(r, c) ==
  LET P == Columns[c[1]]
      west == LongitudeEdge(r, 0) - c[2] * Ticks
      east == LongitudeEdge(r, r.n + 1) - c[2] * Ticks
  IN Max({0, (2 * west * P - Ticks) \div (2 * Ticks) + 1})
       .. Min({P - 1, (2 * east * P + Ticks - 1) \div (2 * Ticks)})

RowRange(r, c) ==
  LET top == (c[1] + 1) * Ticks
      north == top - LatitudeEdge(r, 0)
      south == top - LatitudeEdge(r, r.n + 1)
  IN Max({0, (2 * north * Rows - Ticks) \div (2 * Ticks) + 1})
       .. Min({Rows - 1, (2 * south * Rows + Ticks - 1) \div (2 * Ticks)})

(* visitWindow: the runs of one row in one block, as <<block column, block *)
(* row, row, first column, last column>>.                                  *)
Blocks(first, last, size) ==
  {b \in (first \div size) * size .. last : b % size = 0}

Runs(columns, rows) ==
  LET firstColumn == Min(columns)
      lastColumn == Max(columns)
  IN UNION {{<<bx, by, row, Max({firstColumn, bx}), Min({lastColumn, bx + BlockWidth - 1})>>
             : row \in Max({Min(rows), by}) .. Min({Max(rows), by + BlockHeight - 1})}
            : bx \in Blocks(firstColumn, lastColumn, BlockWidth),
              by \in Blocks(Min(rows), Max(rows), BlockHeight)}

(* An overlap is the set of its ticks.                                     *)
Overlap(low1, high1, low2, high2) == Max({low1, low2}) .. Min({high1, high2}) - 1

(* Where a pixel column, or row, of a cell overlaps a box column, or row:  *)
(* the search for the first box it meets, and the boxes after it.          *)
ColumnOverlap(r, c, column, box) ==
  LET low == c[2] * Ticks + (2 * column - 1) * (Ticks \div (2 * Columns[c[1]]))
      high == low + Ticks \div Columns[c[1]]
      upTo == Cardinality({e \in 0 .. r.n + 1 : LongitudeEdge(r, e) <= low})
  IN IF box >= Max({upTo - 1, 0}) /\ LongitudeEdge(r, box) < high
     THEN Overlap(low, high, LongitudeEdge(r, box), LongitudeEdge(r, box + 1)) ELSE {}

RowOverlap(r, c, row, box) ==
  LET high == (c[1] + 1) * Ticks - (2 * row - 1) * (Ticks \div (2 * Rows))
      low == high - Ticks \div Rows
      passed == Cardinality({b \in 0 .. r.n : LatitudeEdge(r, b + 1) >= high})
  IN IF box >= passed /\ LatitudeEdge(r, box) > low
     THEN Overlap(low, high, LatitudeEdge(r, box + 1), LatitudeEdge(r, box)) ELSE {}

(* The square ticks of a box that the runs of a cell come to, a tick once  *)
(* for each run and pixel column it is met in.                             *)
Visits(r, c, box) ==
  LET columns == ColumnRange(r, c)
      rows == RowRange(r, c)
      pixels == {v \in Runs(columns, rows) \X columns : v[2] \in v[1][4] .. v[1][5]}
  IN IF columns = {} \/ rows = {} THEN {}
     ELSE UNION {{v} \X (ColumnOverlap(r, c, v[2], box[2]) \X RowOverlap(r, c, v[1][3], box[1]))
                 : v \in pixels}

(* What the pixels of a cell add to the weight of a box.                   *)
Contribution(r, c, box) == Cardinality(Visits(r, c, box))

(* A box smaller than a source pixel takes a point sample instead.         *)
BoxCoversPixel(r, cell) ==
  StepX(r) * Columns[cell[1]] >= Ticks /\ StepY(r) * Rows >= Ticks

-----------------------------------------------------------------------------
(* Requests *)

Init ==
  /\ phase = "idle" /\ request = None
  /\ listed = {} /\ left = {} /\ read = {}
  /\ weights = << >> /\ point = 0 /\ pixel = None

Accept(r) ==
  /\ phase # "fetching" /\ ~TooLarge(r)
  /\ phase' = "fetching" /\ request' = r
  /\ listed' = Listed(r)
  /\ left' = IF r.kind = "average" THEN Candidates(r) ELSE {}
  /\ read' = {}
  /\ weights' = IF r.kind = "average" THEN [b \in Boxes(r) |-> 0] ELSE << >>
  /\ point' = 0 /\ pixel' = None

(* Neither the acquisition nor the CPU stage reads anything.               *)
Refuse(r) ==
  /\ phase # "fetching" /\ TooLarge(r)
  /\ phase' = "refused" /\ request' = r
  /\ listed' = {} /\ left' = {} /\ read' = {}
  /\ weights' = << >> /\ point' = 0 /\ pixel' = None

Before(c, d) == c[1] < d[1] \/ (c[1] = d[1] /\ c[2] < d[2])

AverageCell(c) ==
  LET cell == <<c[1], Wrapped(c[2])>>
  IN /\ phase = "fetching" /\ c \in left /\ \A d \in left \ {c} : Before(c, d)
     /\ left' = left \ {c}
     /\ read' = read \union {cell}
     /\ weights' = IF cell \in Available
                   THEN [b \in DOMAIN weights |-> weights[b] + Contribution(request, c, b)]
                   ELSE weights
     /\ UNCHANGED <<request, phase, listed, point, pixel>>

Sample ==
  LET lat == LatitudeOf(request, point)
      lon == LongitudeOf(request, point)
      base == CellAt(lat, lon)
  IN /\ phase = "fetching" /\ left = {} /\ point < Points(request)
     /\ point' = point + 1
     /\ \/ /\ request.kind = "point"
           /\ read' = read \union SampleReads(lat, lon)
           /\ UNCHANGED pixel
        \/ /\ request.kind = "average"
           /\ read' = read \union
                        IF base \notin Available \/ BoxCoversPixel(request, base)
                        THEN {base} ELSE SampleReads(lat, lon)
           /\ UNCHANGED pixel
        \/ /\ request.kind = "grid"
           /\ read' = read \union NativeReads(lat, lon)
           /\ pixel' = NativePixel(lat, lon)
     /\ UNCHANGED <<request, phase, listed, left, weights>>

Answer ==
  /\ phase = "fetching" /\ left = {} /\ point = Points(request)
  /\ phase' = "answered"
  /\ UNCHANGED <<request, listed, left, read, weights, point, pixel>>

Next ==
  \/ \E r \in Requests : Accept(r) \/ Refuse(r)
  \/ \E c \in left : AverageCell(c)
  \/ Sample
  \/ Answer

Spec == Init /\ [][Next]_vars

-----------------------------------------------------------------------------
TypeOK ==
  /\ request \in Requests \union {None}
  /\ phase \in {"idle", "fetching", "refused", "answered"}
  /\ listed \subseteq Cells /\ read \subseteq Cells
  /\ phase = "fetching" => point \in 0 .. Points(request)

(* Every cell the CPU stage reads was listed for acquisition, so a hole is *)
(* a cell without a source, never one nobody fetched: margins, neighbours, *)
(* half samples, half pixels and the antimeridian included.  ("...lists a  *)
(* superset of these cells", comment in accumulateAreaAverages.)           *)
ReadsAreListed == read \subseteq listed

(* No grid opens more source cells than the cap.  ("...the cap also bounds *)
(* file descriptors and decode buffers", comment in fetchAnalysisGrid.)    *)
OpenCellsAreBounded ==
  phase # "idle" /\ request.kind = "grid" => Cardinality(read) <= MaxGridCells

(* The owner of the square tick north-east of (x, y): the cell of the      *)
(* pixel whose centre is nearest, with its longitude not yet wrapped.      *)
Owner(x, y) ==
  LET s == (y - Ticks \div (2 * Rows)) \div Ticks
  IN <<s, (x + Ticks \div (2 * Columns[s])) \div Ticks>>

HasSource(c) == <<c[1], Wrapped(c[2])>> \in Available

(* The square ticks of a sample box.                                       *)
BoxTicks(r, b) ==
  (LongitudeEdge(r, b[2]) .. LongitudeEdge(r, b[2] + 1) - 1)
    \X (LatitudeEdge(r, b[1] + 1) .. LatitudeEdge(r, b[1]) - 1)

(* A cell that begins farther east of the boxes than HalfColumn, although  *)
(* half of one of its columns is wider than that.                          *)
OutOfReach(r, c) ==
  /\ 2 * HalfColumn * Columns[c[1]] < Ticks
  /\ c[2] * Ticks > LongitudeEdge(r, r.n + 1) + HalfColumn

(* The weight of a sample box is the area of it that pixels of existing    *)
(* cells cover: every pixel counts once, however blocks, cells and the     *)
(* antimeridian cut the window.  Only the first column of a cell out of    *)
(* reach is left out: the constant falls short of the widest columns.      *)
(* (accumulateAreaAverages, visitWindow.)                                  *)
AveragesAreExact ==
  phase \in {"fetching", "answered"} /\ request.kind = "average" /\ left = {} =>
    \A b \in Boxes(request) :
      weights[b] = Cardinality({t \in BoxTicks(request, b) :
                                  LET owner == Owner(t[1], t[2])
                                  IN HasSource(owner) /\ ~OutOfReach(request, owner)})

(* A native sample is the pixel whose footprint the coordinate lies in, of *)
(* a neighbour cell when it lies in the last half pixel; but not where the *)
(* neighbour has wider pixels, or lies beyond the antimeridian.  (Comment  *)
(* at sampleNative.)                                                       *)
NativeIsNearest ==
  pixel # None =>
    LET lat == LatitudeOf(request, point - 1)
        lon == LongitudeOf(request, point - 1)
        P == Columns[pixel.cell[1]]
    IN P = Columns[SouthOf(lat)] /\ 2 * P * (HalfTurn * Ticks - lon) > Ticks =>
         LET dx == P * (lon - pixel.cell[2] * Ticks) - pixel.column * Ticks
             dy == Rows * ((pixel.cell[1] + 1) * Ticks - lat) - pixel.row * Ticks
         IN 2 * dx \in -Ticks .. Ticks /\ 2 * dy \in -Ticks .. Ticks
=============================================================================
