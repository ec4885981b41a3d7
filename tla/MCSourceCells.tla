--------------------------- MODULE MCSourceCells ---------------------------
(* A small world: six degrees around, four from pole to pole, and cells    *)
(* with four pixel columns near the equator and two elsewhere.             *)
EXTENDS SourceCells

MCColumns == [s \in -2 .. 1 |-> IF s \in {-1, 0} THEN 4 ELSE 2]
MCAvailable == Cells \ {<<-1, 0>>, <<0, -3>>}

Box(kind, west, east, south, north, n) ==
  [kind |-> kind, west |-> west, east |-> east, south |-> south, north |-> north, n |-> n]

(* Tiles of four and eight to the circle, at several latitudes, and boxes  *)
(* whose east edge is four or five ticks west of a cell: between HalfColumn *)
(* and half of the wider columns.                                          *)
MCTiles ==
  {Box(kind, x * 36 - 72, x * 36 - 36, south, south + 24, n) :
     kind \in {"point", "average"}, x \in 0 .. 3, south \in {-31, -24, -20, -4, 0, 5}, n \in {2, 3}}
  \union
  {Box(kind, x * 18 - 72, x * 18 - 54, south, south + 18, 3) :
     kind \in {"point", "average"}, x \in 0 .. 7, south \in {-13, 0, 3, 24}}
  \union
  {Box("average", west, west + 20, south, south + 20, 2) : west \in {-5, -6}, south \in {-28, 24}}

MCGrids ==
  {Box("grid", west, west + size, south, south + size, n) :
     west \in {-72, -51, -7, 0, 13, 48}, south \in {-40, -29, -12, 3}, size \in {12, 24}, n \in {1, 2, 3}}

MCRequests == MCTiles \union MCGrids
=============================================================================
