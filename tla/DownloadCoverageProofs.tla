------------------------ MODULE DownloadCoverageProofs ------------------------
(***************************************************************************)
(* What a deletion range takes, for every world, zoom and range: exactly   *)
(* the tiles it names, however often it goes round the world, and exactly  *)
(* the source cells those tiles lie on.  And what the server permits, for  *)
(* every configuration: what reaches a region of the zoom's tier.          *)
(*                                                                         *)
(* A column c of the range is the tile c % 2^z, moved by whole turns.  The *)
(* columns of a range, and its rows, follow one another without gaps, so a *)
(* cell lies under one of them when it lies under the box around them; and *)
(* moving the cell back by the turns of its column is what wrapping it     *)
(* does.                                                                   *)
(*                                                                         *)
(* Permission follows the configuration because the tier found for a zoom  *)
(* is the one that starts last up to it, and regions and profiles stay as  *)
(* they were read.  Whether a polygon meets a box is not decided here:     *)
(* PermittedTouches says what it needs of intersectsPolygon.               *)
(***************************************************************************)
EXTENDS DownloadCoverage, FiniteSetTheorems, WellFoundedInduction, TLAPS

-----------------------------------------------------------------------------
(* Whole quotients and remainders.                                         *)

(* The quotient rounds down, for negative numbers too, and the remainder   *)
(* is what is left.                                                        *)
LEMMA Division ==
  ASSUME NEW a \in Int, NEW b \in Nat \ {0}
  PROVE  /\ a \div b \in Int /\ b * (a \div b) \in Int
         /\ b * (a \div b) <= a /\ a < b * (a \div b) + b
         /\ a = b * (a \div b) + (a % b) /\ a % b \in 0 .. b - 1
BY SMTT(20)

(* Products are ordered as their factors.                                  *)
LEMMA Ordered ==
  ASSUME NEW b \in Nat \ {0}, NEW q \in Int, NEW r \in Int
  PROVE  /\ b * q \in Int /\ b * r \in Int
         /\ q <= r => b * q <= b * r
         /\ q < r => b * q + b <= b * r
BY SMTT(20)

(* There is one quotient.                                                  *)
LEMMA QuotientIs ==
  ASSUME NEW a \in Int, NEW b \in Nat \ {0}, NEW q \in Int, b * q <= a, a < b * q + b
  PROVE  a \div b = q
<1> DEFINE p == a \div b
<1>1. p \in Int /\ b * p \in Int /\ b * p <= a /\ a < b * p + b
  BY Division
<1> HIDE DEF p
<1>2. ~(p < q) /\ ~(q < p)
  BY <1>1, Ordered
<1> QED
  BY <1>1, <1>2 DEF p

(* There is one remainder.                                                 *)
LEMMA RemainderIs ==
  ASSUME NEW a \in Int, NEW b \in Nat \ {0}, NEW q \in Int, NEW r \in 0 .. b - 1,
         a = b * q + r
  PROVE  a % b = r
<1>1. b * q \in Int /\ b * q <= a /\ a < b * q + b
  BY Ordered
<1>2. a \div b = q
  BY <1>1, QuotientIs
<1>3. a = b * (a \div b) + (a % b) /\ a % b \in 0 .. b - 1
  BY Division
<1> QED
  BY <1>1, <1>2, <1>3

(* positiveModulo is the remainder.                                        *)
LEMMA PositiveModuloIs ==
  ASSUME NEW v \in Int, NEW n \in Nat \ {0}
  PROVE  PositiveModulo(v, n) = v % n
<1>1. v % n \in 0 .. n - 1
  BY Division
<1>2. CASE v >= 0
  BY <1>1, <1>2 DEF PositiveModulo, Remainder
<1>3. CASE v < 0
  <2> DEFINE q == (-v) \div n
             m == (-v) % n
  <2>0. -v \in Int
    OBVIOUS
  <2>1. q \in Int /\ -v = n * q + m /\ m \in 0 .. n - 1
    BY <2>0, Division
  <2>2. PositiveModulo(v, n) = IF m = 0 THEN 0 ELSE n - m
    <3>1. Remainder(v, n) = -m
      BY <1>3 DEF Remainder
    <3> HIDE DEF m
    <3> QED
      BY <2>1, <3>1 DEF PositiveModulo
  <2> HIDE DEF q, m
  <2>3. /\ n * q \in Int /\ -q \in Int /\ -q - 1 \in Int
        /\ n * (-q) = -(n * q) /\ n * (-q - 1) = -(n * q) - n
    BY <2>1, SMTT(20)
  <2>4. CASE m = 0
    <3>1. v = n * (-q) + 0
      BY <2>1, <2>3, <2>4
    <3>2. v % n = 0
      BY <2>1, <2>3, <3>1, RemainderIs
    <3> QED
      BY <2>2, <2>4, <3>2
  <2>5. CASE m # 0
    <3>1. v = n * (-q - 1) + (n - m) /\ n - m \in 0 .. n - 1
      BY <2>1, <2>3, <2>5
    <3>2. v % n = n - m
      BY <2>1, <2>3, <3>1, RemainderIs
    <3> QED
      BY <2>2, <2>5, <3>2
  <2> QED
    BY <2>4, <2>5
<1> QED
  BY <1>2, <1>3

(* The number c of the range from a that leaves the remainder x, and how   *)
(* far it is from a.                                                       *)
LEMMA FromFirst ==
  ASSUME NEW n \in Nat \ {0}, NEW x \in 0 .. n - 1, NEW a \in Int
  PROVE  LET o == (x - (a % n)) % n
         IN /\ o \in 0 .. n - 1
            /\ (a + o) % n = x
            /\ \A c \in Int : c % n = x /\ c - a \in 0 .. n - 1 => c - a = o
<1> DEFINE p == a \div n
           m == a % n
           k == (x - m) \div n
           o == (x - m) % n
<1>1. p \in Int /\ n * p \in Int /\ a = n * p + m /\ m \in 0 .. n - 1
  BY Division
<1>2. x - m \in Int
  BY <1>1
<1>3. k \in Int /\ n * k \in Int /\ x - m = n * k + o /\ o \in 0 .. n - 1
  BY <1>2, Division
<1> HIDE DEF p, m, k, o
<1>4. (a + o) % n = x
  <2>1. n * (p - k) = n * p - n * k /\ p - k \in Int /\ a + o \in Int
    BY <1>1, <1>3, SMTT(20)
  <2>2. a + o = n * (p - k) + x
    BY <1>1, <1>3, <2>1
  <2> QED
    BY <2>1, <2>2, RemainderIs
<1>5. ASSUME NEW c \in Int, c % n = x, c - a \in 0 .. n - 1 PROVE c - a = o
  <2> DEFINE q == c \div n
  <2>1. q \in Int /\ n * q \in Int /\ c = n * q + x
    BY <1>5, Division
  <2> HIDE DEF q
  <2>2. n * (p - q) = n * p - n * q /\ p - q \in Int
    BY <1>1, <2>1, SMTT(20)
  <2>3. x - m = n * (p - q) + (c - a)
    BY <1>1, <2>1, <2>2
  <2>4. (x - m) % n = c - a
    BY <1>2, <1>5, <2>2, <2>3, RemainderIs
  <2> QED
    BY <2>4 DEF o
<1> QED
  BY <1>3, <1>4, <1>5 DEF o, m

-----------------------------------------------------------------------------
(* Columns.                                                                *)

(* tileXInsideRange finds the columns of the range, moved by whole turns.  *)
LEMMA InsideRange ==
  ASSUME NEW n \in Nat \ {0}, NEW x \in 0 .. n - 1, NEW a \in Int, NEW b \in Int, a <= b
  PROVE  TileXInsideRange(x, n, a, b) <=> \E c \in a .. b : c % n = x
<1> DEFINE o == (x - (a % n)) % n
<1>1. /\ o \in 0 .. n - 1 /\ (a + o) % n = x
      /\ \A c \in Int : c % n = x /\ c - a \in 0 .. n - 1 => c - a = o
  BY FromFirst
<1>2. TileXInsideRange(x, n, a, b) <=> b - a + 1 >= n \/ o < b - a + 1
  <2>1. PositiveModulo(a, n) = a % n
    BY PositiveModuloIs
  <2>2. a % n \in Int /\ x - (a % n) \in Int
    BY Division
  <2>3. PositiveModulo(x - (a % n), n) = o
    BY <2>2, PositiveModuloIs
  <2> HIDE DEF o
  <2> QED
    BY <2>1, <2>3 DEF TileXInsideRange
<1> HIDE DEF o
<1>3. ASSUME b - a + 1 >= n \/ o < b - a + 1 PROVE \E c \in a .. b : c % n = x
  <2>1. a + o \in a .. b
    BY <1>1, <1>3
  <2> QED
    BY <1>1, <2>1
<1>4. ASSUME NEW c \in a .. b, c % n = x PROVE b - a + 1 >= n \/ o < b - a + 1
  <2>1. CASE b - a + 1 < n
    <3>1. c \in Int /\ c - a \in 0 .. n - 1
      BY <2>1
    <3>2. c - a = o
      BY <1>1, <1>4, <3>1
    <3> QED
      BY <3>2
  <2> QED
    BY <2>1
<1> QED
  BY <1>2, <1>3, <1>4

(* Intervals of one length that follow one another meet what the interval  *)
(* around them meets.                                                      *)
LEMMA Contiguous ==
  ASSUME NEW h \in Nat \ {0}, NEW lo \in Int, NEW hi \in Int, lo <= hi,
         NEW s \in Int, NEW t \in Int, s < t
  PROVE  (\E y \in lo .. hi : s < h * (y + 1) /\ h * y < t) <=>
           s < h * (hi + 1) /\ h * lo < t
<1>1. \A y \in Int : h * y \in Int /\ h * (y + 1) = h * y + h
  BY SMTT(20)
<1>2. ASSUME NEW y \in lo .. hi, s < h * (y + 1), h * y < t
      PROVE  s < h * (hi + 1) /\ h * lo < t
  <2>1. h * y <= h * hi /\ h * lo <= h * y
    BY Ordered
  <2> QED
    BY <1>1, <1>2, <2>1
<1>3. ASSUME s < h * (hi + 1), h * lo < t
      PROVE  \E y \in lo .. hi : s < h * (y + 1) /\ h * y < t
  <2> DEFINE k == (t - 1) \div h
  <2>1. k \in Int /\ h * k <= t - 1 /\ t - 1 < h * k + h
    <3>1. t - 1 \in Int
      OBVIOUS
    <3> QED
      BY <3>1, Division
  <2> HIDE DEF k
  <2>2. CASE hi < k
    <3>1. h * hi <= h * k
      BY <2>1, <2>2, Ordered
    <3> QED
      BY <1>1, <1>3, <2>1, <3>1
  <2>3. CASE k <= hi
    <3>1. ~(k < lo)
      <4> SUFFICES ASSUME k < lo PROVE FALSE
        OBVIOUS
      <4>1. h * k + h <= h * lo
        BY <2>1, Ordered
      <4> QED
        BY <1>1, <1>3, <2>1, <4>1
    <3>2. k \in lo .. hi
      BY <2>1, <2>3, <3>1
    <3> QED
      BY <1>1, <1>3, <2>1, <3>2
  <2> QED
    BY <2>1, <2>2, <2>3
<1> QED
  BY <1>2, <1>3

(* Parts of equal size.                                                    *)
LEMMA Parts ==
  ASSUME NEW a \in Nat \ {0}, NEW n \in Nat \ {0}, a % n = 0
  PROVE  a \div n \in Nat \ {0} /\ n * (a \div n) = a
<1> DEFINE q == a \div n
<1>1. q \in Int /\ n * q = a
  BY Division
<1> HIDE DEF q
<1>2. q > 0
  <2> SUFFICES ASSUME q <= 0 PROVE FALSE
    BY <1>1
  <2>1. n * q <= n * 0
    BY <1>1, Ordered
  <2> QED
    BY <1>1, <2>1
<1> QED
  BY <1>1, <1>2 DEF q

(* The cells from Floor to Ceiling are those with a part between the edges.*)
LEMMA CellsBetween ==
  ASSUME NEW west \in Int, NEW east \in Int, NEW u \in Int
  PROVE  u \in Floor(west) .. Ceiling(east) - 1 <=>
           u * Ticks < east /\ west < (u + 1) * Ticks
<1> DEFINE f == west \div Ticks
           g == (-east) \div Ticks
<1>1. Ticks \in Nat \ {0} /\ -east \in Int
  BY TileAssumption
<1>2. f \in Int /\ Ticks * f \in Int /\ Ticks * f <= west /\ west < Ticks * f + Ticks
  BY <1>1, Division
<1>3. g \in Int /\ Ticks * g \in Int /\ Ticks * g <= -east /\ -east < Ticks * g + Ticks
  BY <1>1, Division
<1>4. Floor(west) = f /\ Ceiling(east) = -g
  BY DEF Floor, Ceiling
<1> HIDE DEF f, g
<1>5. /\ Ticks * u \in Int /\ u * Ticks = Ticks * u /\ (u + 1) * Ticks = Ticks * u + Ticks
      /\ -u \in Int /\ Ticks * (-u) = -(Ticks * u)
  BY <1>1, SMTT(20)
<1>6. f <= u <=> west < Ticks * u + Ticks
  <2>1. f <= u => Ticks * f <= Ticks * u
    BY <1>1, <1>2, Ordered
  <2>2. u < f => Ticks * u + Ticks <= Ticks * f
    BY <1>1, <1>2, Ordered
  <2> QED
    BY <1>1, <1>2, <1>5, <2>1, <2>2
<1>7. u <= -g - 1 <=> Ticks * u < east
  <2>1. g < -u => Ticks * g + Ticks <= Ticks * (-u)
    BY <1>1, <1>3, <1>5, Ordered
  <2>2. -u <= g => Ticks * (-u) <= Ticks * g
    BY <1>1, <1>3, <1>5, Ordered
  <2> QED
    BY <1>1, <1>3, <1>5, <2>1, <2>2
<1> QED
  BY <1>2, <1>3, <1>4, <1>5, <1>6, <1>7

-----------------------------------------------------------------------------
(* Cells under columns and rows of tiles.                                  *)

(* A cell and a column of a zoom have a part in common.                    *)
Under(zoom, w, c) ==
  w * Ticks < ColumnWest(zoom, c + 1) /\ ColumnWest(zoom, c) < (w + 1) * Ticks

(* A cell and a row.                                                       *)
Beside(zoom, s, y) ==
  s * Ticks < RowNorth(zoom, y) /\ RowNorth(zoom, y + 1) < (s + 1) * Ticks

Width(zoom) == Turn \div 2^zoom
Height(zoom) == (2 * Edge) \div 2^zoom

(* The sizes of the world and of its tiles.                                *)
LEMMA Sizes ==
  ASSUME NEW zoom \in Zooms
  PROVE  /\ Ticks \in Nat \ {0} /\ HalfTurn \in Nat \ {0} /\ Pole \in Nat \ {0}
         /\ HalfTurn * Ticks \in Nat \ {0} /\ Pole * Ticks \in Nat \ {0}
         /\ Turn = 2 * (HalfTurn * Ticks) /\ Turn = (2 * HalfTurn) * Ticks
         /\ Edge \in 1 .. Pole * Ticks
         /\ 2^zoom \in Nat \ {0}
         /\ Width(zoom) \in Nat \ {0} /\ 2^zoom * Width(zoom) = Turn
         /\ Height(zoom) \in Nat \ {0} /\ 2^zoom * Height(zoom) = 2 * Edge
<1>1. /\ Ticks \in Nat \ {0} /\ HalfTurn \in Nat \ {0} /\ Pole \in Nat \ {0}
      /\ Edge \in 1 .. Pole * Ticks
      /\ 2^zoom \in Nat \ {0} /\ Turn % 2^zoom = 0 /\ (2 * Edge) % 2^zoom = 0
  BY TileAssumption
<1>2. /\ HalfTurn * Ticks \in Nat \ {0} /\ Pole * Ticks \in Nat \ {0}
      /\ Turn = 2 * (HalfTurn * Ticks) /\ Turn = (2 * HalfTurn) * Ticks
  BY <1>1, SMTT(20) DEF Turn
<1>3. Turn \in Nat \ {0} /\ 2 * Edge \in Nat \ {0}
  BY <1>1, <1>2
<1>4. Width(zoom) \in Nat \ {0} /\ 2^zoom * Width(zoom) = Turn
  BY <1>1, <1>3, Parts DEF Width
<1>5. Height(zoom) \in Nat \ {0} /\ 2^zoom * Height(zoom) = 2 * Edge
  BY <1>1, <1>3, Parts DEF Height
<1> QED
  BY <1>1, <1>2, <1>4, <1>5

(* Edges of columns: they grow with the column and stay in the world.      *)
LEMMA ColumnEdges ==
  ASSUME NEW zoom \in Zooms, NEW x \in Int
  PROVE  /\ ColumnWest(zoom, x) \in Int
         /\ ColumnWest(zoom, x) = Width(zoom) * x - HalfTurn * Ticks
         /\ 0 <= x => -(HalfTurn * Ticks) <= ColumnWest(zoom, x)
         /\ x <= 2^zoom => ColumnWest(zoom, x) <= HalfTurn * Ticks
         /\ x = 0 => ColumnWest(zoom, x) = -(HalfTurn * Ticks)
         /\ x = 2^zoom => ColumnWest(zoom, x) = HalfTurn * Ticks
<1>1. /\ Width(zoom) \in Nat \ {0} /\ 2^zoom \in Nat \ {0} /\ HalfTurn * Ticks \in Nat \ {0}
      /\ 2^zoom * Width(zoom) = 2 * (HalfTurn * Ticks)
  BY Sizes
<1> DEFINE w == Width(zoom)
           n == 2^zoom
           half == HalfTurn * Ticks
<1>2. ColumnWest(zoom, x) = x * w - half
  BY DEF ColumnWest, Width
<1> HIDE DEF w, n, half
<1>3. w \in Nat \ {0} /\ n \in Nat \ {0} /\ half \in Nat \ {0} /\ n * w = 2 * half
  BY <1>1 DEF w, n, half
<1>4. x * w = w * x /\ n * w = w * n /\ w * 0 = 0 /\ w * x \in Int
  BY <1>3, SMTT(20)
<1>5. 0 <= x => w * 0 <= w * x
  BY <1>3, Ordered
<1>6. x <= n => w * x <= w * n
  BY <1>3, Ordered
<1>7. /\ ColumnWest(zoom, x) \in Int /\ ColumnWest(zoom, x) = w * x - half
      /\ 0 <= x => -half <= ColumnWest(zoom, x)
      /\ x <= n => ColumnWest(zoom, x) <= half
      /\ x = 0 => ColumnWest(zoom, x) = -half
      /\ x = n => ColumnWest(zoom, x) = half
  BY <1>2, <1>3, <1>4, <1>5, <1>6
<1> QED
  BY <1>7 DEF w, n, half

(* Edges of rows: they fall with the row, from Edge to -Edge.              *)
LEMMA RowEdges ==
  ASSUME NEW zoom \in Zooms, NEW y \in Int
  PROVE  /\ RowNorth(zoom, y) \in Int
         /\ RowNorth(zoom, y) = Edge - Height(zoom) * y
         /\ 0 <= y => RowNorth(zoom, y) <= Edge
         /\ y <= 2^zoom => -Edge <= RowNorth(zoom, y)
<1> DEFINE h == Height(zoom)
           n == 2^zoom
<1>1. h \in Nat \ {0} /\ n \in Nat \ {0} /\ Edge \in Nat /\ n * h = 2 * Edge
  BY Sizes
<1>2. RowNorth(zoom, y) = Edge - y * h
  BY DEF RowNorth, Height
<1> HIDE DEF h, n
<1>3. y * h = h * y /\ n * h = h * n /\ h * 0 = 0 /\ h * y \in Int
  BY <1>1, SMTT(20)
<1>4. 0 <= y => h * 0 <= h * y
  BY <1>1, Ordered
<1>5. y <= n => h * y <= h * n
  BY <1>1, Ordered
<1>6. /\ RowNorth(zoom, y) \in Int /\ RowNorth(zoom, y) = Edge - h * y
      /\ 0 <= y => RowNorth(zoom, y) <= Edge
      /\ y <= n => -Edge <= RowNorth(zoom, y)
  BY <1>1, <1>2, <1>3, <1>4, <1>5
<1> QED
  BY <1>6 DEF h, n

(* The cells of the box around some columns.                               *)
LEMMA ColumnCells ==
  ASSUME NEW zoom \in Zooms, NEW a \in Int, NEW b \in Int, a <= b, NEW u \in Int
  PROVE  u \in Floor(ColumnWest(zoom, a)) .. Ceiling(ColumnWest(zoom, b + 1)) - 1 <=>
           \E c \in a .. b : Under(zoom, u, c)
<1> DEFINE h == Width(zoom)
           half == HalfTurn * Ticks
           s == u * Ticks + half
           t == (u + 1) * Ticks + half
<1>1. h \in Nat \ {0} /\ half \in Nat \ {0} /\ Ticks \in Nat \ {0}
  BY Sizes
<1>2. u * Ticks \in Int /\ (u + 1) * Ticks = u * Ticks + Ticks
  BY <1>1, SMTT(20)
<1>3. s \in Int /\ t \in Int /\ s < t
  BY <1>1, <1>2
<1>4. ASSUME NEW c \in Int
      PROVE  /\ u * Ticks < ColumnWest(zoom, c + 1) <=> s < h * (c + 1)
             /\ ColumnWest(zoom, c) < (u + 1) * Ticks <=> h * c < t
  <2>1. c + 1 \in Int
    OBVIOUS
  <2>2. ColumnWest(zoom, c + 1) = h * (c + 1) - half /\ ColumnWest(zoom, c) = h * c - half
    BY <2>1, ColumnEdges
  <2>3. h * (c + 1) \in Int /\ h * c \in Int
    BY <1>1, SMTT(20)
  <2> HIDE DEF h, half
  <2> QED
    BY <1>1, <1>2, <2>2, <2>3
<1>5. u \in Floor(ColumnWest(zoom, a)) .. Ceiling(ColumnWest(zoom, b + 1)) - 1 <=>
        u * Ticks < ColumnWest(zoom, b + 1) /\ ColumnWest(zoom, a) < (u + 1) * Ticks
  <2>1. ColumnWest(zoom, a) \in Int /\ ColumnWest(zoom, b + 1) \in Int
    BY ColumnEdges
  <2> QED
    BY <2>1, CellsBetween
<1>6. (\E c \in a .. b : Under(zoom, u, c)) <=>
        \E c \in a .. b : s < h * (c + 1) /\ h * c < t
  BY <1>4 DEF Under
<1> HIDE DEF h, half, s, t
<1>7. (\E c \in a .. b : s < h * (c + 1) /\ h * c < t) <=> s < h * (b + 1) /\ h * a < t
  BY <1>1, <1>3, Contiguous
<1> QED
  BY <1>4, <1>5, <1>6, <1>7

(* Clamping leaves a cell of the world where it is.                        *)
LEMMA ClampIs ==
  ASSUME NEW cell \in -Pole .. Pole - 1
  PROVE  Clamp(cell) = cell
<1>1. Pole \in Nat \ {0}
  BY TileAssumption
<1>2. Min({Pole - 1, cell}) = cell
  <2>1. cell \in {Pole - 1, cell} /\ \A y \in {Pole - 1, cell} : cell <= y
    BY <1>1
  <2>2. \A x \in {Pole - 1, cell} : (\A y \in {Pole - 1, cell} : x <= y) => x = cell
    BY <1>1
  <2> QED
    BY <2>1, <2>2 DEF Min
<1>3. Max({-Pole, cell}) = cell
  <2>1. cell \in {-Pole, cell} /\ \A y \in {-Pole, cell} : cell >= y
    BY <1>1
  <2>2. \A x \in {-Pole, cell} : (\A y \in {-Pole, cell} : x >= y) => x = cell
    BY <1>1
  <2> QED
    BY <2>1, <2>2 DEF Max
<1> QED
  BY <1>2, <1>3 DEF Clamp

(* A position is in a cell of the world.                                   *)
LEMMA FloorInWorld ==
  ASSUME NEW p \in Int, -(Pole * Ticks) <= p, p < Pole * Ticks
  PROVE  Floor(p) \in -Pole .. Pole - 1
<1>1. Pole \in Nat \ {0} /\ Ticks \in Nat \ {0}
  BY TileAssumption
<1> DEFINE f == p \div Ticks
<1>2. f \in Int /\ Ticks * f \in Int /\ Ticks * f <= p /\ p < Ticks * f + Ticks
  BY <1>1, Division
<1>3. Floor(p) = f
  BY DEF Floor
<1> HIDE DEF f
<1>4. /\ Pole * Ticks = Ticks * Pole /\ -Pole \in Int /\ Ticks * Pole \in Int
      /\ Ticks * (-Pole) = -(Ticks * Pole)
  BY <1>1, SMTT(20)
<1>5. ~(f < -Pole)
  <2> SUFFICES ASSUME f < -Pole PROVE FALSE
    OBVIOUS
  <2>1. Ticks * f + Ticks <= Ticks * (-Pole)
    BY <1>1, <1>2, <1>4, Ordered
  <2> QED
    BY <1>1, <1>2, <1>4, <2>1
<1>6. ~(Pole <= f)
  <2> SUFFICES ASSUME Pole <= f PROVE FALSE
    OBVIOUS
  <2>1. Ticks * Pole <= Ticks * f
    BY <1>1, <1>2, Ordered
  <2> QED
    BY <1>1, <1>2, <1>4, <2>1
<1> QED
  BY <1>1, <1>2, <1>3, <1>5, <1>6

(* The last cell before a position.                                        *)
LEMMA LastBefore ==
  ASSUME NEW p \in Int
  PROVE  Ceiling(p) - 1 = Floor(p - 1)
<1>1. Ticks \in Nat \ {0} /\ -p \in Int /\ p - 1 \in Int
  BY TileAssumption
<1> DEFINE g == (-p) \div Ticks
<1>2. g \in Int /\ Ticks * g \in Int /\ Ticks * g <= -p /\ -p < Ticks * g + Ticks
  BY <1>1, Division
<1>3. Ceiling(p) = -g
  BY DEF Ceiling
<1> HIDE DEF g
<1>4. -g - 1 \in Int /\ Ticks * (-g - 1) = -(Ticks * g) - Ticks
  BY <1>1, <1>2, SMTT(20)
<1>5. Ticks * (-g - 1) <= p - 1 /\ p - 1 < Ticks * (-g - 1) + Ticks
  BY <1>1, <1>2, <1>4
<1>6. (p - 1) \div Ticks = -g - 1
  BY <1>1, <1>4, <1>5, QuotientIs
<1> QED
  BY <1>2, <1>3, <1>6 DEF Floor

(* The cells of the box around some rows: none is clamped away.            *)
LEMMA RowCells ==
  ASSUME NEW zoom \in Zooms, NEW lo \in 0 .. 2^zoom - 1, NEW hi \in 0 .. 2^zoom - 1,
         lo <= hi, NEW s \in Int
  PROVE  s \in Clamp(Floor(RowNorth(zoom, hi + 1))) .. Clamp(Ceiling(RowNorth(zoom, lo)) - 1)
           <=> s \in -Pole .. Pole - 1 /\ \E y \in lo .. hi : Beside(zoom, s, y)
<1> DEFINE h == Height(zoom)
           south == RowNorth(zoom, hi + 1)
           north == RowNorth(zoom, lo)
           p == Edge - (s + 1) * Ticks
           t == Edge - s * Ticks
<1>1. /\ h \in Nat \ {0} /\ Ticks \in Nat \ {0} /\ Pole \in Nat \ {0} /\ 2^zoom \in Nat \ {0}
      /\ Edge \in Nat \ {0} /\ Edge <= Pole * Ticks /\ Pole * Ticks \in Nat
  BY Sizes
<1>2. s * Ticks \in Int /\ (s + 1) * Ticks = s * Ticks + Ticks
  BY <1>1, SMTT(20)
<1>3. p \in Int /\ t \in Int /\ p < t
  BY <1>1, <1>2
<1>4. lo \in Int /\ hi \in Int /\ 0 <= lo /\ hi + 1 <= 2^zoom /\ hi + 1 \in Int
  BY <1>1
<1>5. /\ south \in Int /\ south = Edge - h * (hi + 1) /\ -Edge <= south
      /\ north \in Int /\ north = Edge - h * lo /\ north <= Edge
  BY <1>4, RowEdges
<1>6. h * (hi + 1) \in Int /\ h * lo \in Int /\ h * lo + h <= h * (hi + 1)
  <2>1. lo < hi + 1
    BY <1>4
  <2> QED
    BY <1>1, <1>4, <2>1, Ordered
<1>7. ASSUME NEW y \in Int
      PROVE  Beside(zoom, s, y) <=> p < h * (y + 1) /\ h * y < t
  <2>1. y + 1 \in Int
    OBVIOUS
  <2>2. RowNorth(zoom, y + 1) = Edge - h * (y + 1) /\ RowNorth(zoom, y) = Edge - h * y
    BY <2>1, RowEdges
  <2>3. h * (y + 1) \in Int /\ h * y \in Int
    BY <1>1, SMTT(20)
  <2> HIDE DEF h
  <2> QED
    BY <1>1, <1>2, <2>2, <2>3 DEF Beside
<1> HIDE DEF h, south, north
<1>8. Floor(south) \in -Pole .. Pole - 1 /\ Ceiling(north) - 1 \in -Pole .. Pole - 1
  <2>1. south < north
    BY <1>1, <1>5, <1>6
  <2>2. north - 1 \in Int /\ -(Pole * Ticks) <= north - 1 /\ north - 1 < Pole * Ticks
    BY <1>1, <1>5, <2>1
  <2> QED
    BY <1>1, <1>5, <2>1, <2>2, FloorInWorld, LastBefore
<1>9. Clamp(Floor(south)) = Floor(south) /\ Clamp(Ceiling(north) - 1) = Ceiling(north) - 1
  BY <1>8, ClampIs
<1>10. s \in Floor(south) .. Ceiling(north) - 1 <=> p < h * (hi + 1) /\ h * lo < t
  <2>1. s \in Floor(south) .. Ceiling(north) - 1 <=>
          s * Ticks < north /\ south < (s + 1) * Ticks
    BY <1>5, CellsBetween
  <2> QED
    BY <1>1, <1>2, <1>5, <1>6, <2>1
<1> HIDE DEF p, t
<1>11. (\E y \in lo .. hi : p < h * (y + 1) /\ h * y < t) <=> p < h * (hi + 1) /\ h * lo < t
  BY <1>1, <1>3, <1>4, Contiguous
<1>12. (\E y \in lo .. hi : Beside(zoom, s, y)) <=>
         \E y \in lo .. hi : p < h * (y + 1) /\ h * y < t
  BY <1>4, <1>7
<1> QED
  BY <1>1, <1>8, <1>9, <1>10, <1>11, <1>12 DEF south, north

-----------------------------------------------------------------------------
(* Whole turns.                                                            *)

(* A cell and a column may be moved by the same turns.                     *)
LEMMA Shifted ==
  ASSUME NEW zoom \in Zooms, NEW w \in Int, NEW c \in Int, NEW q \in Int
  PROVE  Under(zoom, w + (2 * HalfTurn) * q, c + 2^zoom * q) <=> Under(zoom, w, c)
<1> DEFINE h == Width(zoom)
           n == 2^zoom
           half == HalfTurn * Ticks
           whole == 2 * HalfTurn
           c1 == c + n * q
           w1 == w + whole * q
<1>1. /\ h \in Nat \ {0} /\ n \in Nat \ {0} /\ half \in Nat \ {0} /\ Ticks \in Nat \ {0}
      /\ whole \in Nat \ {0} /\ n * h = Turn /\ Turn = whole * Ticks /\ Turn \in Nat
  BY Sizes
<1>2. ColumnWest(zoom, c) = h * c - half /\ ColumnWest(zoom, c + 1) = h * (c + 1) - half
  BY ColumnEdges
<1>3. n * q \in Int /\ c1 \in Int /\ c1 + 1 \in Int
  BY <1>1, SMTT(20)
<1>4. ColumnWest(zoom, c1) = h * c1 - half /\ ColumnWest(zoom, c1 + 1) = h * (c1 + 1) - half
  BY <1>3, ColumnEdges
<1> HIDE DEF h, n, half, whole
<1>5. whole * q \in Int /\ Turn * q \in Int
  BY <1>1, SMTT(20)
<1>6. h * (n * q) = Turn * q /\ (whole * q) * Ticks = Turn * q
  <2>1. h * (n * q) = (n * h) * q
    BY <1>1, SMTT(20)
  <2>2. (whole * q) * Ticks = (whole * Ticks) * q
    BY <1>1, SMTT(20)
  <2> QED
    BY <1>1, <2>1, <2>2
<1>7. /\ h * c \in Int /\ h * (c + 1) = h * c + h
      /\ h * c1 = h * c + h * (n * q) /\ h * (c1 + 1) = h * c + h * (n * q) + h
  <2>1. \A x, y \in Int : h * x \in Int /\ h * (x + y) = h * x + h * y /\ h * 1 = h
    BY <1>1, SMTT(20)
  <2> QED
    BY <1>3, <2>1
<1>8. /\ w * Ticks \in Int /\ (w + 1) * Ticks = w * Ticks + Ticks
      /\ w1 * Ticks = w * Ticks + (whole * q) * Ticks
      /\ (w1 + 1) * Ticks = w * Ticks + (whole * q) * Ticks + Ticks
  <2>1. \A x, y \in Int :
          x * Ticks \in Int /\ (x + y) * Ticks = x * Ticks + y * Ticks /\ 1 * Ticks = Ticks
    BY <1>1, SMTT(20)
  <2>2. w1 \in Int /\ w1 * Ticks = w * Ticks + (whole * q) * Ticks
    <3> DEFINE y == whole * q
    <3>1. y \in Int /\ w1 = w + y
      BY <1>5
    <3> HIDE DEF y, w1
    <3>2. (w + y) * Ticks = w * Ticks + y * Ticks /\ w + y \in Int
      BY <1>1, <3>1, SMTT(20)
    <3> QED
      BY <3>1, <3>2 DEF y
  <2>3. (w + 1) * Ticks = w * Ticks + Ticks /\ (w1 + 1) * Ticks = w1 * Ticks + Ticks
    <3> HIDE DEF w1
    <3> QED
      BY <2>1, <2>2
  <2> QED
    BY <2>1, <2>2, <2>3
<1> HIDE DEF c1, w1
<1>9. Under(zoom, w1, c1) <=> Under(zoom, w, c)
  BY <1>1, <1>2, <1>4, <1>5, <1>6, <1>7, <1>8 DEF Under
<1> QED
  BY <1>9 DEF c1, w1, n, whole

(* What wrapping a cell does.                                              *)
LEMMA Wrapping ==
  ASSUME NEW u \in Int
  PROVE  /\ WrappedWest(u) \in -HalfTurn .. HalfTurn - 1
         /\ \E q \in Int : u = WrappedWest(u) + (2 * HalfTurn) * q
         /\ \A w \in -HalfTurn .. HalfTurn - 1 : \A q \in Int :
              u = w + (2 * HalfTurn) * q => WrappedWest(u) = w
<1> DEFINE whole == 2 * HalfTurn
           v == u + HalfTurn
           q0 == v \div whole
<1>1. HalfTurn \in Nat \ {0} /\ whole \in Nat \ {0} /\ v \in Int
  BY TileAssumption
<1>2. WrappedWest(u) = (v % whole) - HalfTurn
  BY <1>1, PositiveModuloIs DEF WrappedWest
<1>3. q0 \in Int /\ whole * q0 \in Int /\ v = whole * q0 + (v % whole) /\ v % whole \in 0 .. whole - 1
  BY <1>1, Division
<1>4. WrappedWest(u) \in -HalfTurn .. HalfTurn - 1
  BY <1>1, <1>2, <1>3
<1>5. u = WrappedWest(u) + whole * q0
  <2>1. v = u + HalfTurn
    OBVIOUS
  <2> HIDE DEF q0, whole, v
  <2> QED
    BY <1>1, <1>2, <1>3, <2>1
<1>6. ASSUME NEW w \in -HalfTurn .. HalfTurn - 1, NEW q \in Int, u = w + whole * q
      PROVE  WrappedWest(u) = w
  <2>1. whole * q \in Int
    BY <1>1, SMTT(20)
  <2>2. v = whole * q + (w + HalfTurn) /\ w + HalfTurn \in 0 .. whole - 1
    BY <1>1, <1>6, <2>1
  <2>3. v % whole = w + HalfTurn
    BY <1>1, <2>2, RemainderIs
  <2> QED
    BY <1>1, <1>2, <2>3
<1> QED
  BY <1>3, <1>4, <1>5, <1>6

(* A cell of the world lies under a column of the world that some cell     *)
(* lies under the column moved: the one that wraps to it.                  *)
LEMMA TurnedBack ==
  ASSUME NEW zoom \in Zooms, NEW c \in Int, NEW w \in -HalfTurn .. HalfTurn - 1
  PROVE  Under(zoom, w, c % 2^zoom) <=> \E u \in Int : WrappedWest(u) = w /\ Under(zoom, u, c)
<1> DEFINE n == 2^zoom
           x == c % n
           q == c \div n
           whole == 2 * HalfTurn
<1>1. /\ n \in Nat \ {0} /\ HalfTurn \in Nat \ {0} /\ whole \in Nat \ {0}
      /\ Ticks \in Nat \ {0} /\ HalfTurn * Ticks \in Nat \ {0}
  BY Sizes
<1>2. q \in Int /\ n * q \in Int /\ c = x + n * q /\ x \in 0 .. n - 1
  <2> HIDE DEF n
  <2>1. q \in Int /\ n * q \in Int /\ c = n * q + x /\ x \in 0 .. n - 1
    BY <1>1, Division
  <2> HIDE DEF q, x
  <2> QED
    BY <1>1, <2>1
<1>3. w \in Int /\ x \in Int
  BY <1>1, <1>2
<1>4. ASSUME Under(zoom, w, x) PROVE \E u \in Int : WrappedWest(u) = w /\ Under(zoom, u, c)
  <2> DEFINE u == w + whole * q
  <2>1. u \in Int
    BY <1>1, <1>2, <1>3, SMTT(20)
  <2>2. WrappedWest(u) = w
    BY <1>2, <2>1, Wrapping
  <2>3. Under(zoom, u, c)
    BY <1>2, <1>3, <1>4, Shifted
  <2> QED
    BY <2>1, <2>2, <2>3
<1>5. ASSUME NEW u \in Int, WrappedWest(u) = w, Under(zoom, u, c) PROVE Under(zoom, w, x)
  <2>1. PICK q1 \in Int : u = w + whole * q1
    BY <1>5, Wrapping
  <2> DEFINE w1 == w + whole * (q1 - q)
  <2>2. /\ q1 - q \in Int /\ w1 \in Int /\ u = w1 + whole * q
        /\ whole * (q1 - q) \in Int
    <3> HIDE DEF q, whole
    <3>1. whole * q1 \in Int /\ whole * q \in Int /\ whole * (q1 - q) = whole * q1 - whole * q
      BY <1>1, <1>2, SMTT(20)
    <3> QED
      BY <1>2, <1>3, <2>1, <3>1
  <2> HIDE DEF w1
  <2>3. Under(zoom, w1, x)
    BY <1>2, <1>3, <1>5, <2>2, Shifted
  <2>4. /\ x + 1 \in Int /\ ColumnWest(zoom, x) \in Int /\ ColumnWest(zoom, x + 1) \in Int
        /\ -(HalfTurn * Ticks) <= ColumnWest(zoom, x)
        /\ ColumnWest(zoom, x + 1) <= HalfTurn * Ticks
    <3>1. x + 1 \in Int /\ 0 <= x /\ x + 1 <= n
      <4> HIDE DEF n, x
      <4> QED
        BY <1>1, <1>2
    <3> QED
      BY <1>3, <3>1, ColumnEdges
  <2>5. /\ w1 * Ticks = Ticks * w1 /\ Ticks * w1 \in Int
        /\ (w1 + 1) * Ticks = Ticks * w1 + Ticks
        /\ HalfTurn * Ticks = Ticks * HalfTurn /\ -HalfTurn \in Int
        /\ Ticks * (-HalfTurn) = -(HalfTurn * Ticks)
    BY <1>1, <2>2, SMTT(20)
  <2>6. Ticks * w1 < HalfTurn * Ticks /\ -(HalfTurn * Ticks) < Ticks * w1 + Ticks
    BY <1>1, <2>3, <2>4, <2>5 DEF Under
  <2>7. w1 < HalfTurn
    <3> SUFFICES ASSUME HalfTurn <= w1 PROVE FALSE
      BY <1>1, <2>2
    <3>1. Ticks * HalfTurn <= Ticks * w1
      BY <1>1, <2>2, Ordered
    <3> QED
      BY <1>1, <2>5, <2>6, <3>1
  <2>8. -HalfTurn <= w1
    <3> SUFFICES ASSUME w1 < -HalfTurn PROVE FALSE
      BY <1>1, <2>2
    <3>1. Ticks * w1 + Ticks <= Ticks * (-HalfTurn)
      BY <1>1, <2>2, <2>5, Ordered
    <3> QED
      BY <1>1, <2>5, <2>6, <3>1
  <2>9. WrappedWest(w1) = w /\ WrappedWest(w1) = w1
    <3>1. w1 \in -HalfTurn .. HalfTurn - 1
      BY <1>1, <2>2, <2>7, <2>8
    <3>2. w1 = w1 + whole * 0
      BY <1>1, <2>2
    <3>3. w1 = w + whole * (q1 - q)
      BY DEF w1
    <3> QED
      BY <2>2, <3>1, <3>2, <3>3, Wrapping
  <2> QED
    BY <2>3, <2>9
<1> QED
  BY <1>4, <1>5

(* deleteSourceData's cells of an interval are its cells, wrapped, also    *)
(* where the interval is longer than the world.                            *)
LEMMA WrappedCells ==
  ASSUME NEW first \in Int, NEW last \in Int
  PROVE  (IF last - first + 1 >= 2 * HalfTurn THEN -HalfTurn .. HalfTurn - 1
          ELSE {WrappedWest(west) : west \in first .. last})
           = {w \in -HalfTurn .. HalfTurn - 1 : \E u \in first .. last : WrappedWest(u) = w}
<1>1. HalfTurn \in Nat \ {0} /\ 2 * HalfTurn \in Nat \ {0}
  BY TileAssumption
<1>2. \A u \in Int : WrappedWest(u) \in -HalfTurn .. HalfTurn - 1
  BY Wrapping
<1>3. ASSUME last - first + 1 >= 2 * HalfTurn, NEW w \in -HalfTurn .. HalfTurn - 1
      PROVE  \E u \in first .. last : WrappedWest(u) = w
  <2> DEFINE a == first + HalfTurn
             x == w + HalfTurn
             whole == 2 * HalfTurn
             o == (x - (a % whole)) % whole
  <2>1. a \in Int /\ x \in 0 .. whole - 1
    BY <1>1
  <2>2. o \in 0 .. whole - 1 /\ (a + o) % whole = x
    BY <1>1, <2>1, FromFirst
  <2> HIDE DEF o
  <2>3. first + o \in first .. last /\ first + o \in Int /\ (first + o) + HalfTurn = a + o
    BY <1>1, <1>3, <2>2
  <2>4. a + o \in Int
    BY <2>1, <2>2, <1>1
  <2>5. PositiveModulo((first + o) + HalfTurn, whole) = x
    <3> HIDE DEF a, whole, x
    <3> QED
      BY <1>1, <2>2, <2>3, <2>4, PositiveModuloIs DEF whole
  <2>6. WrappedWest(first + o) = x - HalfTurn
    BY <2>5 DEF WrappedWest
  <2> QED
    BY <1>1, <2>3, <2>6
<1> QED
  BY <1>2, <1>3


-----------------------------------------------------------------------------
(* Ranges.                                                                 *)

(* The rows of a range are those of the world between its ends, and its    *)
(* box goes from the first of them to the last.                            *)
LEMMA RangeRows ==
  ASSUME NEW range \in RangeType
  PROVE  /\ range.zoom \in Zooms /\ 2^range.zoom \in Nat \ {0}
         /\ BoundedRows(range) =
              (range.y_min .. range.y_max) \intersect (0 .. 2^range.zoom - 1)
         /\ BoundedRows(range) # {} =>
              \E lo, hi \in 0 .. 2^range.zoom - 1 :
                /\ lo <= hi /\ BoundedRows(range) = lo .. hi
                /\ Min(BoundedRows(range)) = lo /\ Max(BoundedRows(range)) = hi
<1> DEFINE n == 2^range.zoom
           lo == Max({0, range.y_min})
           hi == Min({n - 1, range.y_max})
<1>1. range.zoom \in Zooms /\ range.y_min \in Int /\ range.y_max \in Int
  BY DEF RangeType
<1>2. n \in Nat \ {0}
  BY <1>1, Sizes
<1> HIDE DEF n
<1>3. lo = IF range.y_min > 0 THEN range.y_min ELSE 0
  <2> DEFINE m == IF range.y_min > 0 THEN range.y_min ELSE 0
  <2>1. m \in {0, range.y_min} /\ \A y \in {0, range.y_min} : m >= y
    BY <1>1
  <2>2. \A x \in {0, range.y_min} : (\A y \in {0, range.y_min} : x >= y) => x = m
    BY <1>1
  <2> HIDE DEF m
  <2>3. lo = m
    BY <2>1, <2>2 DEF Max
  <2> QED
    BY <2>3 DEF m
<1>4. hi = IF range.y_max < n - 1 THEN range.y_max ELSE n - 1
  <2> DEFINE m == IF range.y_max < n - 1 THEN range.y_max ELSE n - 1
  <2>1. m \in {n - 1, range.y_max} /\ \A y \in {n - 1, range.y_max} : m <= y
    BY <1>1, <1>2
  <2>2. \A x \in {n - 1, range.y_max} : (\A y \in {n - 1, range.y_max} : x <= y) => x = m
    BY <1>1, <1>2
  <2> HIDE DEF m
  <2>3. hi = m
    BY <2>1, <2>2 DEF Min
  <2> QED
    BY <2>3 DEF m
<1>5. BoundedRows(range) = lo .. hi
  BY DEF BoundedRows, n
<1> HIDE DEF lo, hi
<1>6. BoundedRows(range) = (range.y_min .. range.y_max) \intersect (0 .. n - 1)
  BY <1>1, <1>2, <1>3, <1>4, <1>5
<1>7. ASSUME BoundedRows(range) # {}
      PROVE  /\ lo \in 0 .. n - 1 /\ hi \in 0 .. n - 1 /\ lo <= hi
             /\ Min(BoundedRows(range)) = lo /\ Max(BoundedRows(range)) = hi
  <2>1. lo \in 0 .. n - 1 /\ hi \in 0 .. n - 1 /\ lo <= hi
    BY <1>1, <1>2, <1>3, <1>4, <1>5, <1>7
  <2>2. Min(lo .. hi) = lo
    <3>1. lo \in lo .. hi /\ \A y \in lo .. hi : lo <= y
      BY <2>1
    <3>2. \A x \in lo .. hi : (\A y \in lo .. hi : x <= y) => x = lo
      BY <2>1
    <3> QED
      BY <3>1, <3>2 DEF Min
  <2>3. Max(lo .. hi) = hi
    <3>1. hi \in lo .. hi /\ \A y \in lo .. hi : hi >= y
      BY <2>1
    <3>2. \A x \in lo .. hi : (\A y \in lo .. hi : x >= y) => x = hi
      BY <2>1
    <3> QED
      BY <3>1, <3>2 DEF Max
  <2> QED
    BY <1>5, <2>1, <2>2, <2>3
<1> QED
  BY <1>1, <1>2, <1>5, <1>6, <1>7 DEF n

(* The tiles of a range.                                                   *)
LEMMA RangeTiles ==
  ASSUME NEW range \in RangeType, ValidRange(range)
  PROVE  TilesOfRange(range) =
           {<<x % 2^range.zoom, y>> : x \in range.x_min .. range.x_max,
                                      y \in (range.y_min .. range.y_max) \intersect
                                              (0 .. 2^range.zoom - 1)}
<1> DEFINE n == 2^range.zoom
           a == range.x_min
           b == range.x_max
           rows == BoundedRows(range)
<1>1. n \in Nat \ {0} /\ rows = (range.y_min .. range.y_max) \intersect (0 .. n - 1)
  BY RangeRows
<1>2. a \in Int /\ b \in Int /\ a <= b
  BY DEF RangeType, ValidRange
<1> HIDE DEF n, a, b, rows
<1>3. \A x \in 0 .. n - 1 : TileXInsideRange(x, n, a, b) <=> \E c \in a .. b : c % n = x
  BY <1>1, <1>2, InsideRange
<1>4. \A c \in a .. b : c % n \in 0 .. n - 1
  BY <1>1, <1>2, Division
<1>5. TilesOfRange(range) =
        {tile \in (0 .. n - 1) \X rows : TileXInsideRange(tile[1], n, a, b)}
  BY DEF TilesOfRange, n, a, b, rows
<1>6. {tile \in (0 .. n - 1) \X rows : TileXInsideRange(tile[1], n, a, b)}
        = {<<c % n, y>> : c \in a .. b, y \in rows}
  BY <1>3, <1>4
<1> QED
  BY <1>1, <1>5, <1>6 DEF n, a, b


(* The cells of the box around some columns, wrapped.                      *)
LEMMA IntervalCells ==
  ASSUME NEW zoom \in Zooms, NEW a \in Int, NEW b \in Int, a <= b
  PROVE  LET first == Floor(ColumnWest(zoom, a))
             last == Ceiling(ColumnWest(zoom, b + 1)) - 1
         IN (IF last - first + 1 >= 2 * HalfTurn THEN -HalfTurn .. HalfTurn - 1
             ELSE {WrappedWest(west) : west \in first .. last})
              = {w \in -HalfTurn .. HalfTurn - 1 : \E c \in a .. b : Under(zoom, w, c % 2^zoom)}
<1> DEFINE first == Floor(ColumnWest(zoom, a))
           last == Ceiling(ColumnWest(zoom, b + 1)) - 1
<1>1. first \in Int /\ last \in Int
  <2>1. Ticks \in Nat \ {0} /\ b + 1 \in Int
    BY TileAssumption
  <2>2. ColumnWest(zoom, a) \in Int /\ ColumnWest(zoom, b + 1) \in Int
    BY <2>1, ColumnEdges
  <2>3. -ColumnWest(zoom, b + 1) \in Int
    BY <2>2
  <2>4. ColumnWest(zoom, a) \div Ticks \in Int /\ (-ColumnWest(zoom, b + 1)) \div Ticks \in Int
    BY <2>1, <2>2, <2>3, Division
  <2> QED
    BY <2>4 DEF Floor, Ceiling
<1>2. \A u \in Int : u \in first .. last <=> \E c \in a .. b : Under(zoom, u, c)
  BY ColumnCells
<1> HIDE DEF first, last
<1>3. (IF last - first + 1 >= 2 * HalfTurn THEN -HalfTurn .. HalfTurn - 1
       ELSE {WrappedWest(west) : west \in first .. last})
        = {w \in -HalfTurn .. HalfTurn - 1 : \E u \in first .. last : WrappedWest(u) = w}
  BY <1>1, WrappedCells
<1>4. ASSUME NEW w \in -HalfTurn .. HalfTurn - 1
      PROVE  (\E u \in first .. last : WrappedWest(u) = w) <=>
               \E c \in a .. b : Under(zoom, w, c % 2^zoom)
  <2>1. \A c \in a .. b :
          Under(zoom, w, c % 2^zoom) <=> \E u \in Int : WrappedWest(u) = w /\ Under(zoom, u, c)
    <3> TAKE c \in a .. b
    <3>1. c \in Int
      OBVIOUS
    <3> QED
      BY <3>1, TurnedBack
  <2>2. \A u \in first .. last : u \in Int
    BY <1>1
  <2> QED
    BY <1>2, <2>1, <2>2
<1> QED
  BY <1>3, <1>4 DEF first, last

(* Columns that go all the way round the world are all of its columns.     *)
LEMMA AllColumns ==
  ASSUME NEW n \in Nat \ {0}, NEW a \in Int, NEW b \in Int, b - a + 1 >= n
  PROVE  {c % n : c \in a .. b} = 0 .. n - 1
<1>1. a <= b
  OBVIOUS
<1>2. \A c \in a .. b : c % n \in 0 .. n - 1
  BY Division
<1>3. \A x \in 0 .. n - 1 : \E c \in a .. b : c % n = x
  <2> TAKE x \in 0 .. n - 1
  <2>1. TileXInsideRange(x, n, a, b)
    BY DEF TileXInsideRange
  <2> QED
    BY <1>1, <2>1, InsideRange
<1> QED
  BY <1>2, <1>3

(* The cells in the box of a range, and those in its tiles, by columns.    *)
LEMMA RangeColumns ==
  ASSUME NEW zoom \in Zooms, NEW a \in Int, NEW b \in Int, a <= b
  PROVE  LET all == b - a + 1 >= 2^zoom
             first == Floor(IF all THEN -HalfTurn * Ticks ELSE ColumnWest(zoom, a))
             last == Ceiling(IF all THEN HalfTurn * Ticks ELSE ColumnWest(zoom, b + 1)) - 1
         IN (IF last - first + 1 >= 2 * HalfTurn THEN -HalfTurn .. HalfTurn - 1
             ELSE {WrappedWest(west) : west \in first .. last})
              = {w \in -HalfTurn .. HalfTurn - 1 : \E c \in a .. b : Under(zoom, w, c % 2^zoom)}
<1> DEFINE n == 2^zoom
<1>1. CASE b - a + 1 >= n
  <2>1. n \in Nat \ {0}
    BY Sizes
  <2>2. 0 \in Int /\ n \in Int /\ n - 1 \in Int /\ 0 <= n - 1 /\ (n - 1) + 1 = n
    <3> HIDE DEF n
    <3> QED
      BY <2>1
  <2>3. /\ ColumnWest(zoom, 0) = -(HalfTurn * Ticks)
        /\ ColumnWest(zoom, (n - 1) + 1) = HalfTurn * Ticks
    BY <2>2, ColumnEdges
  <2>4. -HalfTurn * Ticks = -(HalfTurn * Ticks)
    OBVIOUS
  <2>5. {c % n : c \in a .. b} = {c % n : c \in 0 .. n - 1}
    <3> HIDE DEF n
    <3>1. (n - 1) - 0 + 1 >= n
      BY <2>1
    <3> QED
      BY <1>1, <2>1, <2>2, <3>1, AllColumns
  <2>6. \A w : (\E c \in a .. b : Under(zoom, w, c % n)) <=>
                 \E c \in 0 .. n - 1 : Under(zoom, w, c % n)
    <3> HIDE DEF n
    <3> QED
      BY <2>5
  <2>7. LET first == Floor(ColumnWest(zoom, 0))
            last == Ceiling(ColumnWest(zoom, (n - 1) + 1)) - 1
        IN (IF last - first + 1 >= 2 * HalfTurn THEN -HalfTurn .. HalfTurn - 1
            ELSE {WrappedWest(west) : west \in first .. last})
             = {w \in -HalfTurn .. HalfTurn - 1 : \E c \in 0 .. n - 1 : Under(zoom, w, c % n)}
    BY <2>2, IntervalCells
  <2> QED
    BY <1>1, <2>3, <2>4, <2>6, <2>7
<1>2. CASE ~(b - a + 1 >= n)
  BY <1>2, IntervalCells
<1> QED
  BY <1>1, <1>2


(* The cells of a range.                                                   *)
LEMMA RangeCells ==
  ASSUME NEW range \in RangeType, ValidRange(range)
  PROVE  CellsOfRange(range) =
           {cell \in (-Pole .. Pole - 1) \X (-HalfTurn .. HalfTurn - 1) :
              \E t \in TilesOfRange(range) :
                Beside(range.zoom, cell[1], t[2]) /\ Under(range.zoom, cell[2], t[1])}
<1> DEFINE zoom == range.zoom
           n == 2^zoom
           a == range.x_min
           b == range.x_max
           rows == BoundedRows(range)
           columns == {w \in -HalfTurn .. HalfTurn - 1 : \E c \in a .. b : Under(zoom, w, c % n)}
           beside == {s \in -Pole .. Pole - 1 : \E y \in rows : Beside(zoom, s, y)}
<1>1. zoom \in Zooms /\ a \in Int /\ b \in Int /\ a <= b
  BY DEF RangeType, ValidRange
<1>2. TilesOfRange(range) = {<<c % n, y>> : c \in a .. b, y \in rows}
  BY RangeTiles, RangeRows
<1>3. {cell \in (-Pole .. Pole - 1) \X (-HalfTurn .. HalfTurn - 1) :
         \E t \in TilesOfRange(range) : Beside(zoom, cell[1], t[2]) /\ Under(zoom, cell[2], t[1])}
        = beside \X columns
  <2> HIDE DEF zoom, n, a, b, rows
  <2>1. \A s, w : (\E t \in TilesOfRange(range) : Beside(zoom, s, t[2]) /\ Under(zoom, w, t[1]))
                    <=> /\ \E y \in rows : Beside(zoom, s, y)
                        /\ \E c \in a .. b : Under(zoom, w, c % n)
    <3> TAKE s, w
    <3>1. ASSUME NEW t \in TilesOfRange(range), Beside(zoom, s, t[2]), Under(zoom, w, t[1])
          PROVE  (\E y \in rows : Beside(zoom, s, y)) /\ \E c \in a .. b : Under(zoom, w, c % n)
      <4>1. PICK c \in a .. b, y \in rows : t = <<c % n, y>>
        BY <1>2
      <4>2. t[1] = c % n /\ t[2] = y
        BY <4>1
      <4> QED
        BY <3>1, <4>2
    <3>2. ASSUME NEW y \in rows, Beside(zoom, s, y), NEW c \in a .. b, Under(zoom, w, c % n)
          PROVE  \E t \in TilesOfRange(range) : Beside(zoom, s, t[2]) /\ Under(zoom, w, t[1])
      <4>1. <<c % n, y>> \in TilesOfRange(range)
        BY <1>2
      <4>2. <<c % n, y>>[1] = c % n /\ <<c % n, y>>[2] = y
        OBVIOUS
      <4> QED
        BY <3>2, <4>1, <4>2, Zenon
    <3> QED
      BY <3>1, <3>2, Zenon
  <2> QED
    BY <2>1
<1>4. CASE rows = {}
  <2>1. CellsOfRange(range) = {} /\ beside = {}
    BY <1>4 DEF CellsOfRange
  <2> QED
    BY <1>3, <2>1
<1>5. CASE rows # {}
  <2>1. PICK lo, hi \in 0 .. n - 1 :
          lo <= hi /\ rows = lo .. hi /\ Min(rows) = lo /\ Max(rows) = hi
    BY <1>5, RangeRows
  <2> DEFINE all == b - a + 1 >= n
             west == IF all THEN -HalfTurn * Ticks ELSE ColumnWest(zoom, a)
             east == IF all THEN HalfTurn * Ticks ELSE ColumnWest(zoom, b + 1)
             south == RowNorth(zoom, hi + 1)
             north == RowNorth(zoom, lo)
             first == Floor(west)
             last == Ceiling(east) - 1
             under == IF last - first + 1 >= 2 * HalfTurn THEN -HalfTurn .. HalfTurn - 1
                      ELSE {WrappedWest(w) : w \in first .. last}
             between == Clamp(Floor(south)) .. Clamp(Ceiling(north) - 1)
  <2>2. BoxOfRange(range) = Box(west, south, east, north)
    BY <2>1 DEF BoxOfRange
  <2>3. CellsOfRange(range) = CellsOfBox(Box(west, south, east, north))
    BY <1>5, <2>2 DEF CellsOfRange
  <2>4. CellsOfBox(Box(west, south, east, north)) = between \X under
    <3> HIDE DEF west, south, east, north
    <3> QED
      BY DEF CellsOfBox, Box
  <2>5. under = columns
    BY <1>1, RangeColumns
  <2>6. between = beside
    <3>1. \A s \in Int : s \in between <=>
            s \in -Pole .. Pole - 1 /\ \E y \in lo .. hi : Beside(zoom, s, y)
      BY <1>1, <2>1, RowCells
    <3>2. \A s \in between : s \in Int
      OBVIOUS
    <3>3. \A s \in -Pole .. Pole - 1 : s \in Int
      OBVIOUS
    <3> HIDE DEF between
    <3> QED
      BY <2>1, <3>1, <3>2, <3>3
  <2> QED
    BY <1>3, <2>3, <2>4, <2>5, <2>6
<1> QED
  BY <1>4, <1>5

-----------------------------------------------------------------------------
(* Questions.                                                              *)

(* What a deletion is answered.                                            *)
RangeAnswer(range) ==
  IF ValidRange(range) THEN [tiles |-> TilesOfRange(range), cells |-> CellsOfRange(range)]
  ELSE None

Asked ==
  \/ question = None
  \/ question.kind \in {"tile", "grid"}
  \/ /\ question.kind = "range" /\ question.range \in Ranges
     /\ answer = RangeAnswer(question.range)

(* The answer a deletion left is the one of its range.                     *)
THEOREM Invariance == Spec => []Asked
<1>1. Init => Asked
  BY DEF Init, Asked
<1>2. Asked /\ [Next]_vars => Asked'
  <2> SUFFICES ASSUME Asked, [Next]_vars PROVE Asked'
    OBVIOUS
  <2>1. CASE ReadFeatures \/ ReadRectangles \/ ReadProfiles
    BY <2>1 DEF ReadFeatures, ReadRectangles, ReadProfiles, Asked
  <2>2. CASE \E t \in Tiles, profile \in Profiles : AskTile(t, profile)
    BY <2>2 DEF AskTile, Ask, Asked
  <2>3. CASE \E area \in Areas, profile \in Profiles : AskGrid(area, profile)
    BY <2>3 DEF AskGrid, Ask, Asked
  <2>4. CASE \E range \in Ranges : DeleteRange(range)
    BY <2>4 DEF DeleteRange, Ask, Asked, RangeAnswer
  <2>5. CASE Done
    BY <2>5 DEF Done, Asked
  <2>6. CASE UNCHANGED vars
    BY <2>6 DEF vars, Asked
  <2> QED
    BY <2>1, <2>2, <2>3, <2>4, <2>5, <2>6 DEF Next
<1> QED
  BY <1>1, <1>2, PTL DEF Spec

(* A deletion answered is one of a valid range, with its tiles and cells.  *)
LEMMA DeletedIs ==
  ASSUME Asked, Deleted
  PROVE  /\ question.range \in RangeType /\ ValidRange(question.range)
         /\ answer.tiles = TilesOfRange(question.range)
         /\ answer.cells = CellsOfRange(question.range)
BY RangesAssumption DEF Asked, Deleted, RangeAnswer

(* A deletion takes exactly the tiles of its range, in every world.        *)
THEOREM RangeDeleted == Spec => []DeletesTheRange
<1>1. Asked => DeletesTheRange
  <2> SUFFICES ASSUME Asked, Deleted PROVE DeletesTheRange
    BY DEF DeletesTheRange
  <2>1. /\ question.range \in RangeType /\ ValidRange(question.range)
        /\ answer.tiles = TilesOfRange(question.range)
    BY DeletedIs
  <2> QED
    BY <2>1, RangeTiles DEF DeletesTheRange
<1> QED
  BY <1>1, Invariance, PTL

(* A deletion of sources takes exactly the cells in the tiles of its range,*)
(* in every world.                                                         *)
THEOREM CellsDeleted == Spec => []DeletesTheCells
<1>1. Asked => DeletesTheCells
  <2> SUFFICES ASSUME Asked, Deleted PROVE DeletesTheCells
    BY DEF DeletesTheCells
  <2>1. /\ question.range \in RangeType /\ ValidRange(question.range)
        /\ answer.tiles = TilesOfRange(question.range)
        /\ answer.cells = CellsOfRange(question.range)
    BY DeletedIs
  <2> DEFINE zoom == question.range.zoom
  <2>2. answer.cells =
          {cell \in (-Pole .. Pole - 1) \X (-HalfTurn .. HalfTurn - 1) :
             \E t \in answer.tiles : Beside(zoom, cell[1], t[2]) /\ Under(zoom, cell[2], t[1])}
    BY <2>1, RangeCells
  <2>3. ASSUME NEW cell, NEW t
        PROVE  (Beside(zoom, cell[1], t[2]) /\ Under(zoom, cell[2], t[1])) <=>
                 LET box == XyzBounds(zoom, t[1], t[2])
                 IN /\ cell[1] * Ticks < box.north /\ box.south < (cell[1] + 1) * Ticks
                    /\ cell[2] * Ticks < box.east /\ box.west < (cell[2] + 1) * Ticks
    BY DEF Beside, Under, XyzBounds, Box
  <2> QED
    BY <2>2, <2>3 DEF DeletesTheCells
<1> QED
  BY <1>1, Invariance, PTL

-----------------------------------------------------------------------------
(* Tiers.                                                                  *)

(* A set of natural numbers has a least one.                               *)
LEMMA Least ==
  ASSUME NEW S \in SUBSET Nat, S # {}
  PROVE  Min(S) \in S /\ \A x \in S : Min(S) <= x
<1> DEFINE R == OpToRel(<, Nat)
<1>1. IsWellFoundedOn(R, Nat)
  BY NatLessThanWellFounded
<1>2. \A x, y \in Nat : ~(<<y, x>> \in R) => x <= y
  BY DEF OpToRel
<1> HIDE DEF R
<1>3. PICK m \in S : \A y \in S : ~(<<y, m>> \in R)
  BY <1>1, WFMin
<1>4. m \in S /\ \A y \in S : m <= y
  <2>1. \A y \in S : y \in Nat
    OBVIOUS
  <2> QED
    BY <1>2, <1>3, <2>1, Zenon
<1> QED
  BY <1>4 DEF Min

(* The start of the tier that holds a zoom is the last one up to it.       *)
LEMMA TierOfZoom ==
  ASSUME NEW starts, DOMAIN starts \subseteq Zooms, NEW zoom \in Zooms,
         NEW k \in DOMAIN starts,
         LET later == {n \in DOMAIN starts : n > k}
         IN zoom \in k .. (IF later = {} THEN MaxZoom ELSE Min(later) - 1)
  PROVE  Max({n \in DOMAIN starts : n <= zoom}) = k
<1> DEFINE D == DOMAIN starts
           later == {n \in D : n > k}
           before == {n \in D : n <= zoom}
<1>1. MaxZoom \in Nat /\ \A n \in D : n \in Nat /\ n <= MaxZoom
  BY TileAssumption DEF Zooms
<1>2. zoom \in Nat /\ k \in Nat /\ k \in D
  BY <1>1, TileAssumption DEF Zooms
<1> HIDE DEF D
<1>3. k <= zoom /\ \A n \in later : zoom < n
  <2>1. CASE later = {}
    <3>1. zoom \in k .. MaxZoom
      BY <2>1 DEF D
    <3> QED BY <1>1, <1>2, <2>1, <3>1
  <2>2. CASE later # {}
    <3>1. later \in SUBSET Nat
      BY <1>1
    <3>2. Min(later) \in later /\ \A n \in later : Min(later) <= n
      BY <2>2, <3>1, Least
    <3>3. zoom \in k .. Min(later) - 1
      BY <2>2 DEF D
    <3> DEFINE l == Min(later)
    <3>4. l \in Nat /\ \A n \in later : n \in Nat
      BY <3>1, <3>2
    <3> HIDE DEF l, later
    <3> QED BY <1>2, <3>2, <3>3, <3>4 DEF l
  <2> QED BY <2>1, <2>2
<1>4. k \in before /\ \A n \in before : k >= n
  BY <1>1, <1>2, <1>3
<1>5. \A x \in before : (\A y \in before : x >= y) => x = k
  BY <1>1, <1>2, <1>4
<1> HIDE DEF before
<1>6. Max(before) = k
  BY <1>4, <1>5 DEF Max
<1> QED
  BY <1>6 DEF before, D

(* A column wraps to its remainder.                                        *)
LEMMA Wraps ==
  ASSUME NEW x \in Int, NEW n \in Nat \ {0}
  PROVE  Remainder(Remainder(x, n) + n, n) = x % n
<1> DEFINE r == Remainder(x, n)
<1>1. x % n = IF r < 0 THEN r + n ELSE r
  BY PositiveModuloIs DEF PositiveModulo
<1>2. r \in Int /\ -n < r /\ r < n
  <2>1. -x \in Int /\ x % n \in 0 .. n - 1 /\ (-x) % n \in 0 .. n - 1
    BY Division
  <2> QED
    BY <2>1 DEF Remainder
<1> HIDE DEF r
<1>3. Remainder(r + n, n) = (r + n) % n
  BY <1>2 DEF Remainder
<1>4. CASE r < 0
  <2>1. r + n \in 0 .. n - 1 /\ n * 0 = 0 /\ r + n \in Int /\ 0 \in Int
    BY <1>2, <1>4
  <2>2. r + n = n * 0 + (r + n)
    BY <2>1
  <2> QED
    BY <1>1, <1>3, <1>4, <2>1, <2>2, RemainderIs DEF r
<1>5. CASE r >= 0
  <2>1. r \in 0 .. n - 1 /\ n * 1 = n /\ r + n \in Int /\ 1 \in Int
    BY <1>2, <1>5
  <2>2. r + n = n * 1 + r
    BY <2>1
  <2>3. (r + n) % n = r
    BY <2>1, <2>2, RemainderIs
  <2> QED
    BY <1>1, <1>2, <1>3, <1>5, <2>3 DEF r
<1> QED
  BY <1>2, <1>4, <1>5

-----------------------------------------------------------------------------
(* What is permitted.                                                      *)

PolygonsOf(c) ==
  IF c.features = None THEN {}
  ELSE UNION {FeaturePolygons(c.features[i]) : i \in DOMAIN c.features}

(* Regions have the polygons of the file.                                  *)
RegionsRead ==
  \A name \in DOMAIN regions :
    \E rectangles, polygons :
      /\ polygons \in SUBSET PolygonsOf(configuration)
      /\ regions[name] = [rectangles |-> rectangles, polygons |-> polygons]

(* Profiles are the tiers of the groups, each checked by addProfile.       *)
ProfilesRead ==
  stage = "serving" =>
    /\ DOMAIN profiles = DOMAIN configuration.profiles
    /\ \A name \in DOMAIN profiles :
         /\ profiles[name] = TiersOf(configuration.profiles[name])
         /\ ValidProfile(name, profiles[name])

TileAnswered ==
  \E t \in Tiles, profile \in Profiles :
    /\ question = [kind |-> "tile", profile |-> profile, zoom |-> t.zoom, x |-> t.x, y |-> t.y]
    /\ answer = PermitsTile(profile, t.zoom, t.x, t.y)

GridAnswered ==
  \E area \in Areas, profile \in Profiles :
    /\ question = [kind |-> "grid", profile |-> profile, zoom |-> area.zoom, box |-> area.box]
    /\ answer = PermitsArea(profile, area.zoom, area.box)

Answered ==
  \/ question = None
  \/ stage = "serving" /\ (TileAnswered \/ GridAnswered \/ question.kind = "range")

Served ==
  /\ configuration \in Configurations
  /\ RegionsRead
  /\ ProfilesRead
  /\ Answered

(* ReadFeatures gives each region polygons of the file.                    *)
LEMMA FeaturesStep ==
  ASSUME RegionsRead, ReadFeatures
  PROVE  RegionsRead'
<1>1. CASE UNCHANGED regions
  BY <1>1 DEF RegionsRead, ReadFeatures
<1>2. CASE ~UNCHANGED regions
  <2> DEFINE features == configuration.features
             Given(name) == UNION {FeaturePolygons(features[i]) :
                                     i \in {j \in DOMAIN features : features[j].id = name}}
  <2>1. /\ features # None
        /\ regions' = [name \in Named(features) |-> [rectangles |-> {}, polygons |-> Given(name)]]
        /\ configuration' = configuration
    BY <1>2 DEF ReadFeatures, Refuse
  <2>2. \A name : Given(name) \subseteq PolygonsOf(configuration)
    BY <2>1 DEF PolygonsOf
  <2> HIDE DEF Given
  <2>3. \A name \in DOMAIN regions' :
          /\ regions'[name] = [rectangles |-> {}, polygons |-> Given(name)]
          /\ Given(name) \in SUBSET PolygonsOf(configuration)'
    BY <2>1, <2>2 DEF PolygonsOf
  <2> QED
    BY <2>3 DEF RegionsRead
<1> QED
  BY <1>1, <1>2

(* ReadRectangles keeps the polygons.                                      *)
LEMMA RectanglesStep ==
  ASSUME RegionsRead, ReadRectangles
  PROVE  RegionsRead'
<1>1. CASE UNCHANGED regions
  BY <1>1 DEF RegionsRead, ReadRectangles
<1>2. CASE ~UNCHANGED regions
  <2> DEFINE groups == configuration.rectangles
             Of(name) == IF name \in DOMAIN groups THEN groups[name] ELSE {}
             before(name) == IF name \in DOMAIN regions THEN regions[name]
                             ELSE [rectangles |-> {}, polygons |-> {}]
  <2>1. /\ regions' = [name \in DOMAIN regions \union DOMAIN groups |->
                         [before(name) EXCEPT !.rectangles = @ \union Of(name)]]
        /\ configuration' = configuration
    BY <1>2 DEF ReadRectangles, Refuse
  <2>2. \A name : \E rectangles, polygons :
          /\ polygons \in SUBSET PolygonsOf(configuration)
          /\ before(name) = [rectangles |-> rectangles, polygons |-> polygons]
    BY DEF RegionsRead
  <2> HIDE DEF before, Of
  <2>3. ASSUME NEW name \in DOMAIN regions'
        PROVE  \E rectangles, polygons :
                 /\ polygons \in SUBSET PolygonsOf(configuration)'
                 /\ regions'[name] = [rectangles |-> rectangles, polygons |-> polygons]
    <3>1. regions'[name] = [before(name) EXCEPT !.rectangles = @ \union Of(name)]
      BY <2>1, <2>3
    <3>2. PICK rectangles, polygons :
            /\ polygons \in SUBSET PolygonsOf(configuration)
            /\ before(name) = [rectangles |-> rectangles, polygons |-> polygons]
      BY <2>2
    <3>3. regions'[name] = [rectangles |-> rectangles \union Of(name), polygons |-> polygons]
      BY <3>1, <3>2
    <3>4. PolygonsOf(configuration)' = PolygonsOf(configuration)
      BY <2>1 DEF PolygonsOf
    <3> QED
      BY <3>2, <3>3, <3>4, Zenon
  <2> QED
    BY <2>3 DEF RegionsRead
<1> QED
  BY <1>1, <1>2

(* The server answers from the configuration it read.                      *)
THEOREM ServedAsConfigured == Spec => []Served
<1>1. Init => Served
  BY DEF Init, Served, RegionsRead, ProfilesRead, Answered
<1>2. Served /\ [Next]_vars => Served'
  <2> SUFFICES ASSUME Served, [Next]_vars PROVE Served'
    OBVIOUS
  <2> USE DEF Served
  <2>1. CASE ReadFeatures
    <3>1. RegionsRead'
      BY <2>1, FeaturesStep
    <3>2. ProfilesRead' /\ Answered'
      BY <2>1 DEF ReadFeatures, Refuse, ProfilesRead, Answered
    <3> QED
      BY <2>1, <3>1, <3>2 DEF ReadFeatures
  <2>2. CASE ReadRectangles
    <3>1. RegionsRead'
      BY <2>2, RectanglesStep
    <3>2. ProfilesRead' /\ Answered'
      BY <2>2 DEF ReadRectangles, Refuse, ProfilesRead, Answered
    <3> QED
      BY <2>2, <3>1, <3>2 DEF ReadRectangles
  <2>3. CASE ReadProfiles
    <3>1. UNCHANGED <<configuration, regions, question>>
      BY <2>3 DEF ReadProfiles, Refuse
    <3>2. RegionsRead'
      BY <3>1 DEF RegionsRead, PolygonsOf
    <3>3. Answered'
      BY <2>3, <3>1 DEF ReadProfiles, Answered
    <3>4. ProfilesRead'
      <4> DEFINE groups == configuration.profiles
      <4>1. CASE stage' # "serving"
        BY <4>1 DEF ProfilesRead
      <4>2. CASE stage' = "serving"
        <5>1. /\ \A name \in DOMAIN groups : ValidProfile(name, TiersOf(groups[name]))
              /\ profiles' = [name \in DOMAIN groups |-> TiersOf(groups[name])]
          BY <2>3, <4>2 DEF ReadProfiles, Refuse
        <5>2. \A name, tiers : ValidProfile(name, tiers)' <=> ValidProfile(name, tiers)
          BY <3>1 DEF ValidProfile, HasRegion
        <5> QED
          BY <3>1, <5>1, <5>2 DEF ProfilesRead
      <4> QED
        BY <4>1, <4>2
    <3> QED
      BY <3>1, <3>2, <3>3, <3>4
  <2>4. ASSUME UNCHANGED <<configuration, stage, regions, profiles>>
        PROVE  /\ configuration' \in Configurations /\ RegionsRead' /\ ProfilesRead'
    <3>1. PolygonsOf(configuration)' = PolygonsOf(configuration)
      BY <2>4 DEF PolygonsOf
    <3>2. RegionsRead'
      BY <2>4, <3>1 DEF RegionsRead
    <3>3. \A name, tiers : ValidProfile(name, tiers)' <=> ValidProfile(name, tiers)
      BY <2>4 DEF ValidProfile, HasRegion
    <3>4. ProfilesRead'
      BY <2>4, <3>3 DEF ProfilesRead
    <3> QED
      BY <2>4, <3>2, <3>4
  <2>5. ASSUME UNCHANGED <<regions, profiles>>
        PROVE  /\ Profiles' = Profiles
               /\ \A profile, zoom, x, y : PermitsTile(profile, zoom, x, y)' = PermitsTile(profile, zoom, x, y)
               /\ \A profile, zoom, box : PermitsArea(profile, zoom, box)' = PermitsArea(profile, zoom, box)
    BY <2>5 DEF Profiles, PermitsTile, PermitsArea
  <2>6. ASSUME NEW t \in Tiles, NEW profile \in Profiles, AskTile(t, profile) PROVE Served'
    BY <2>4, <2>5, <2>6 DEF AskTile, Ask, Answered, TileAnswered
  <2>7. ASSUME NEW area \in Areas, NEW profile \in Profiles, AskGrid(area, profile) PROVE Served'
    BY <2>4, <2>5, <2>7 DEF AskGrid, Ask, Answered, GridAnswered
  <2>8. ASSUME NEW range \in Ranges, DeleteRange(range) PROVE Served'
    BY <2>4, <2>8 DEF DeleteRange, Ask, Answered
  <2>9. CASE Done
    BY <2>4, <2>9 DEF Done, Answered
  <2>10. CASE UNCHANGED vars
    BY <2>4, <2>5, <2>10 DEF vars, Answered, TileAnswered, GridAnswered
  <2> QED
    BY <2>1, <2>2, <2>3, <2>6, <2>7, <2>8, <2>9, <2>10 DEF Next
<1> QED
  BY <1>1, <1>2, PTL DEF Spec

(* A box meets a region as the code decides it.                            *)
Reaches(name, box) ==
  \/ name = "world"
  \/ \E b \in regions[name].rectangles : Intersects(b, box)
  \/ \E p \in regions[name].polygons : IntersectsPolygon(p, box)

(* The tier that permitsArea finds has the regions that the configuration  *)
(* gives for the zoom, and all of them exist.                              *)
LEMMA AreaPermitted ==
  ASSUME Served, stage = "serving", NEW profile \in DOMAIN profiles, NEW zoom \in Zooms, NEW box
  PROVE  /\ PermitsArea(profile, zoom, box) <=> \E name \in Allowed(profile, zoom) : Reaches(name, box)
         /\ \A name \in Allowed(profile, zoom) : HasRegion(name)
<1> DEFINE starts == configuration.profiles[profile]
           Holds(tier) == zoom \in tier.minimum_zoom .. tier.maximum_zoom
           tiers == profiles[profile]
<1>1. /\ tiers = TiersOf(starts) /\ ValidProfile(profile, tiers)
      /\ DOMAIN starts \subseteq Zooms
  BY QuestionsAssumption DEF Served, ProfilesRead
<1>2. /\ profile # "" /\ Cardinality({tier \in tiers : Holds(tier)}) = 1
      /\ \A tier \in tiers : \A name \in tier.regions : HasRegion(name)
  BY <1>1 DEF ValidProfile
<1>3. \E tier \in tiers : Holds(tier)
  <2> DEFINE held == {tier \in tiers : Holds(tier)}
  <2>1. Cardinality({}) = 0 /\ Cardinality(held) = 1
    BY <1>2, FS_EmptySet
  <2> HIDE DEF held
  <2>2. held # {}
    BY <2>1
  <2> QED
    BY <2>2 DEF held
<1>4. ASSUME NEW tier \in tiers, Holds(tier)
      PROVE  tier.regions = Allowed(profile, zoom)
  <2> DEFINE later(k) == {n \in DOMAIN starts : n > k}
             last(k) == IF later(k) = {} THEN MaxZoom ELSE Min(later(k)) - 1
  <2>1. PICK k \in DOMAIN starts :
          tier = [minimum_zoom |-> k, maximum_zoom |-> last(k), regions |-> starts[k]]
    BY <1>1 DEF TiersOf
  <2>2. zoom \in k .. last(k)
    <3> HIDE DEF last
    <3> QED BY <1>4, <2>1
  <2>3. Max({n \in DOMAIN starts : n <= zoom}) = k
    <3> HIDE DEF starts
    <3> QED BY <1>1, <2>2, TierOfZoom
  <2>4. tier.regions = starts[k]
    BY <2>1
  <2> QED
    BY <2>3, <2>4 DEF Allowed
<1>5. PermitsArea(profile, zoom, box) <=>
        \E tier \in tiers : Holds(tier) /\ \E name \in tier.regions :
          \/ name = "world"
          \/ /\ name \in DOMAIN regions
             /\ \/ \E b \in regions[name].rectangles : Intersects(b, box)
                \/ \E p \in regions[name].polygons : IntersectsPolygon(p, box)
  BY <1>2 DEF PermitsArea
<1> HIDE DEF Holds, tiers, starts
<1>6. \A tier \in tiers : Holds(tier) =>
        tier.regions = Allowed(profile, zoom) /\ \A name \in tier.regions : HasRegion(name)
  BY <1>2, <1>4
<1> QED
  BY <1>3, <1>5, <1>6, Zenon DEF Reaches, HasRegion

Reached(q) == \E name \in Allowed(q.profile, q.zoom) : Reaches(name, AskedBox(q))

(* The box of a question that is in the world.                             *)
AskedBoxes ==
  {XyzBounds(t.zoom, t.x % 2^t.zoom, t.y) : t \in {u \in Tiles : u.y \in 0 .. 2^u.zoom - 1}}
    \union {area.box : area \in Areas}

(* The answer, for tiles and grids alike.                                  *)
LEMMA AnswerIs ==
  ASSUME Served, Restricted(question)
  PROVE  /\ answer <=> Reached(question)
         /\ \A name \in Allowed(question.profile, question.zoom) : HasRegion(name)
         /\ AskedBox(question) \in AskedBoxes
<1> DEFINE profile == question.profile
           zoom == question.zoom
<1>1. question # None /\ profile \in DOMAIN profiles /\ question.kind \in {"tile", "grid"}
  BY DEF Restricted
<1>2. stage = "serving" /\ (TileAnswered \/ GridAnswered)
  BY <1>1 DEF Served, Answered
<1>3. CASE TileAnswered
  <2>1. PICK t \in Tiles, p \in Profiles :
          /\ question = [kind |-> "tile", profile |-> p, zoom |-> t.zoom, x |-> t.x, y |-> t.y]
          /\ answer = PermitsTile(p, t.zoom, t.x, t.y)
    BY <1>3 DEF TileAnswered
  <2>2. /\ question.kind = "tile" /\ profile = p /\ zoom = t.zoom
        /\ question.x = t.x /\ question.y = t.y
    BY <2>1
  <2> DEFINE n == 2^zoom
             box == XyzBounds(zoom, t.x % n, t.y)
  <2>3. zoom \in Zooms /\ t.x \in Int /\ n \in Nat \ {0}
    BY <2>2, QuestionsAssumption, TileAssumption
  <2>4. t.y \in 0 .. n - 1
    BY <2>2 DEF Restricted
  <2>5. AskedBox(question) = box /\ box \in AskedBoxes
    BY <2>2, <2>4 DEF AskedBox, AskedBoxes
  <2>6. Remainder(Remainder(t.x, n) + n, n) = t.x % n
    BY <2>3, Wraps
  <2>7. profile # ""
    BY <1>1, <1>2 DEF Served, ProfilesRead, ValidProfile
  <2>8. PermitsTile(profile, zoom, t.x, t.y) <=> PermitsArea(profile, zoom, box)
    <3>1. PermitsTile(profile, zoom, t.x, t.y) <=>
            PermitsArea(profile, zoom, XyzBounds(zoom, Remainder(Remainder(t.x, n) + n, n), t.y))
      <4> HIDE DEF profile, zoom
      <4> QED BY <1>1, <2>3, <2>4, <2>7, Zenon DEF PermitsTile
    <3> QED
      BY <2>6, <3>1, Zenon
  <2>9. /\ PermitsArea(profile, zoom, box) <=> \E name \in Allowed(profile, zoom) : Reaches(name, box)
        /\ \A name \in Allowed(profile, zoom) : HasRegion(name)
    BY <1>1, <1>2, <2>3, AreaPermitted
  <2>10. answer = PermitsTile(profile, zoom, t.x, t.y)
    BY <2>1, <2>2
  <2> HIDE DEF box
  <2> QED
    BY <2>5, <2>8, <2>9, <2>10, Zenon DEF Reached
<1>4. CASE GridAnswered
  <2>1. PICK area \in Areas, p \in Profiles :
          /\ question = [kind |-> "grid", profile |-> p, zoom |-> area.zoom, box |-> area.box]
          /\ answer = PermitsArea(p, area.zoom, area.box)
    BY <1>4 DEF GridAnswered
  <2>2. /\ question.kind = "grid" /\ profile = p /\ zoom = area.zoom /\ question.box = area.box
    BY <2>1
  <2>3. zoom \in Zooms
    BY <2>2, QuestionsAssumption
  <2>5. AskedBox(question) = area.box /\ area.box \in AskedBoxes
    BY <2>2 DEF AskedBox, AskedBoxes
  <2>9. /\ PermitsArea(profile, zoom, area.box)
             <=> \E name \in Allowed(profile, zoom) : Reaches(name, area.box)
        /\ \A name \in Allowed(profile, zoom) : HasRegion(name)
    BY <1>1, <1>2, <2>3, AreaPermitted
  <2>10. answer = PermitsArea(profile, zoom, area.box)
    BY <2>1, <2>2
  <2> QED
    BY <2>5, <2>9, <2>10, Zenon DEF Reached
<1> QED
  BY <1>2, <1>3, <1>4

(* A tile or grid is permitted exactly when it reaches a region that the   *)
(* configuration gives for its zoom, whatever the regions, the tiers and   *)
(* the column asked for.                                                   *)
THEOREM AnswersFollowTheProfile ==
  Spec => [](Restricted(question) => (answer <=> Reached(question)))
<1>1. Served => (Restricted(question) => (answer <=> Reached(question)))
  BY AnswerIs
<1> QED
  BY <1>1, ServedAsConfigured, PTL

-----------------------------------------------------------------------------
(* What is permitted, and the shapes of regions.                           *)

(* What intersectsPolygon finds in common is there.                        *)
FindsWhatIsThere ==
  \A c \in Configurations : \A p \in PolygonsOf(c), box \in AskedBoxes :
    IntersectsPolygon(p, box) => MeetsPolygon(p, box)

LEMMA PolygonsConfigured ==
  ASSUME Served, NEW name \in DOMAIN regions, NEW p \in regions[name].polygons
  PROVE  configuration \in Configurations /\ p \in PolygonsOf(configuration)
BY DEF Served, RegionsRead

(* Whatever is permitted touches a region of its zoom, if what             *)
(* intersectsPolygon finds of the polygons of the file is there.           *)
THEOREM PermittedTouches ==
  ASSUME FindsWhatIsThere
  PROVE  Spec => []PermittedTouchesRegion
<1>1. Served => PermittedTouchesRegion
  <2> SUFFICES ASSUME Served, Restricted(question), answer PROVE Touched(question)
    BY DEF PermittedTouchesRegion
  <2> DEFINE box == AskedBox(question)
  <2>1. PICK name \in Allowed(question.profile, question.zoom) : Reaches(name, box)
    BY AnswerIs DEF Reached
  <2>2. HasRegion(name) /\ box \in AskedBoxes
    BY AnswerIs
  <2> HIDE DEF box
  <2>3. MeetsRegion(name, box)
    <3>1. CASE name = "world"
      BY <3>1 DEF MeetsRegion
    <3>2. CASE name # "world"
      <4>1. name \in DOMAIN regions
        BY <2>2, <3>2 DEF HasRegion
      <4>2. \A p \in regions[name].polygons : IntersectsPolygon(p, box) => MeetsPolygon(p, box)
        BY <2>2, <4>1, PolygonsConfigured DEF FindsWhatIsThere
      <4> QED
        BY <2>1, <3>2, <4>2, Zenon DEF Reaches, MeetsRegion
    <3> QED
      BY <3>1, <3>2
  <2> QED
    BY <2>3 DEF Touched, box
<1> QED
  BY <1>1, ServedAsConfigured, PTL
=============================================================================
