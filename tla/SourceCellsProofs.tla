------------------------- MODULE SourceCellsProofs -------------------------
(* What the CPU stage reads was listed for acquisition, native samples are *)
(* nearest, and averages are exact: for every world, pixel width, margin,  *)
(* block size, tile and grid that meet the assumptions of SourceCells.     *)
EXTENDS SourceCells, FiniteSetTheorems, FunctionTheorems, TLAPS

-----------------------------------------------------------------------------
(* Arithmetic *)

(* A quotient is the whole part, for negative numbers too.                 *)
LEMMA DivBounds ==
  ASSUME NEW a \in Int, NEW b \in Nat \ {0}
  PROVE a \div b \in Int /\ b * (a \div b) <= a /\ a < b * (a \div b) + b
  BY SMTT(20)

(* Quotients by the same number are ordered as the dividends.              *)
LEMMA DivMonotone ==
  ASSUME NEW a \in Int, NEW c \in Int, NEW b \in Nat \ {0}, a <= c
  PROVE a \div b <= c \div b
  BY DivBounds, SMTT(20)

(* The quotient is the only whole part.                                    *)
LEMMA DivIs ==
  ASSUME NEW a \in Int, NEW q \in Int, NEW b \in Nat \ {0}, b * q <= a, a < b * q + b
  PROVE a \div b = q
  BY DivBounds, SMTT(20)

(* Quotient and remainder.                                                 *)
LEMMA ModDiv ==
  ASSUME NEW a \in Int, NEW b \in Nat \ {0}
  PROVE a = (b * (a \div b)) + (a % b) /\ a % b \in 0 .. b - 1
  BY SMTT(20)

(* What divides by 2b divides by b, and the quotient is even.              *)
LEMMA Halves ==
  ASSUME NEW a \in Int, NEW b \in Nat \ {0}, a % (2 * b) = 0
  PROVE /\ b * (a \div b) = a
        /\ 2 * ((a \div b) \div 2) = a \div b
        /\ (a \div b) \div 2 = a \div (2 * b)
  <1> DEFINE q == a \div (2 * b)
  <1>1. q \in Int /\ a = (2 * b) * q
    <2>1. 2 * b \in Nat \ {0}
      BY SMT
    <2>2. a = ((2 * b) * q) + (a % (2 * b)) /\ q \in Int
      BY <2>1, ModDiv, DivBounds
    <2> QED BY <2>1, <2>2, SMTT(20)
  <1>2. a \div b = 2 * q
    <2>1. b * (2 * q) = a
      BY <1>1, SMTT(20)
    <2> QED BY <1>1, <2>1, DivIs
  <1> HIDE DEF q
  <1>3. (2 * q) \div 2 = q
    BY <1>1, SMT
  <1> QED BY <1>1, <1>2, <1>3, SMTT(20) DEF q

(* The factors of a positive number are ordered as the number is.          *)
LEMMA Factor ==
  ASSUME NEW c \in Nat \ {0}, NEW t \in Nat \ {0}, NEW m \in Nat, NEW x \in Int,
         c * x = t, m * c >= t
  PROVE x > 0 /\ x * c = t /\ x <= m
  <1>1. x * c = t
    BY SMTT(20)
  <1>2. \A a \in Int : \A b \in Int : a < b => a * c < b * c
    BY SMTT(20)
  <1>3. 0 * c = 0 /\ m * c \in Int
    BY SMT
  <1>4. x < 0 => x * c < 0 * c
    BY <1>2
  <1>5. m < x => m * c < x * c
    BY <1>2
  <1>6. x = 0 => x * c = 0
    BY <1>3
  <1> QED BY <1>1, <1>3, <1>4, <1>5, <1>6

(* The larger of two.                                                      *)
LEMMA MaxOfTwo ==
  ASSUME NEW a \in Int, NEW b \in Int
  PROVE /\ Max({a, b}) \in Int /\ Max({a, b}) >= a /\ Max({a, b}) >= b
        /\ Max({a, b}) = a \/ Max({a, b}) = b
  <1>1. \E x \in {a, b} : \A y \in {a, b} : x >= y
    BY SMT
  <1> QED BY <1>1 DEF Max

(* The smaller of two.                                                     *)
LEMMA MinOfTwo ==
  ASSUME NEW a \in Int, NEW b \in Int
  PROVE /\ Min({a, b}) \in Int /\ Min({a, b}) <= a /\ Min({a, b}) <= b
        /\ Min({a, b}) = a \/ Min({a, b}) = b
  <1>1. \E x \in {a, b} : \A y \in {a, b} : x <= y
    BY SMT
  <1> QED BY <1>1 DEF Min

(* Rounding is off by at most half.                                        *)
LEMMA RoundedBounds ==
  ASSUME NEW a \in Nat, NEW b \in Nat \ {0}
  PROVE /\ Rounded(a, b) \in Nat
        /\ 2 * (b * Rounded(a, b)) <= 2 * a + b
        /\ 2 * a < 2 * (b * Rounded(a, b)) + b
  <1>1. 2 * a + b \in Int /\ 2 * b \in Nat \ {0}
    BY SMT
  <1>2. /\ Rounded(a, b) \in Int
        /\ (2 * b) * Rounded(a, b) <= 2 * a + b
        /\ 2 * a + b < (2 * b) * Rounded(a, b) + 2 * b
    BY <1>1, DivBounds DEF Rounded
  <1>3. (2 * b) * Rounded(a, b) = 2 * (b * Rounded(a, b))
    BY <1>2, SMTT(20)
  <1>4. Rounded(a, b) >= 0
    BY <1>2, SMTT(20)
  <1> QED BY <1>2, <1>3, <1>4

-----------------------------------------------------------------------------
(* Cells and coordinates *)

Souths == -Pole .. Pole - 1
Wests == -HalfTurn .. HalfTurn - 1

(* The world's edges, whole numbers of ticks.                              *)
LEMMA World ==
  /\ Ticks \in Nat \ {0} /\ HalfTurn \in Nat \ {0} /\ Pole \in Nat \ {0}
  /\ Pole * Ticks \in Nat \ {0} /\ HalfTurn * Ticks \in Nat \ {0}
  /\ Souths \subseteq Int /\ Wests \subseteq Int
  <1>1. Ticks \in Nat \ {0} /\ HalfTurn \in Nat \ {0} /\ Pole \in Nat \ {0}
    BY RasterAssumption
  <1>2. \A a, b \in Nat \ {0} : a * b \in Nat \ {0}
    BY SMTT(20)
  <1> QED BY <1>1, <1>2 DEF Souths, Wests

(* Degrees and ticks order positions alike.                                *)
LEMMA Degrees ==
  ASSUME NEW a \in Int, NEW b \in Int
  PROVE /\ a * Ticks \in Int /\ Ticks * a = a * Ticks
        /\ (a + 1) * Ticks = a * Ticks + Ticks
        /\ (-a) * Ticks = -(a * Ticks)
        /\ a < b <=> a * Ticks < b * Ticks
        /\ a <= b <=> a * Ticks <= b * Ticks
  <1> DEFINE t == Ticks
  <1>1. t \in Nat \ {0}
    BY World
  <1> HIDE DEF t
  <1>2. \A x \in Int : /\ x * t \in Int /\ t * x = x * t
                       /\ (x + 1) * t = x * t + t /\ (-x) * t = -(x * t)
    BY <1>1, SMTT(20)
  <1>3. \A x \in Int : \A y \in Int : x < y => x * t < y * t
    BY <1>1, SMTT(20)
  <1>4. /\ a < b => a * t < b * t
        /\ b < a => b * t < a * t
    BY <1>3
  <1>5. a = b => a * t = b * t
    OBVIOUS
  <1>6. a * t \in Int /\ b * t \in Int
    BY <1>2
  <1>7. (a < b <=> a * t < b * t) /\ (a <= b <=> a * t <= b * t)
    BY <1>4, <1>5, <1>6
  <1> QED BY <1>2, <1>7 DEF t

(* sourceSouthForLatitude: a cell of the world, which holds the latitude.  *)
LEMMA SouthBounds ==
  ASSUME NEW lat \in Int
  PROVE /\ SouthOf(lat) \in Souths
        /\ -Pole * Ticks < lat /\ lat <= Pole * Ticks =>
             SouthOf(lat) * Ticks < lat /\ lat <= SouthOf(lat) * Ticks + Ticks
  <1> DEFINE s == (lat - 1) \div Ticks
  <1>1. s \in Int /\ s * Ticks <= lat - 1 /\ lat - 1 < s * Ticks + Ticks
    BY World, DivBounds, Degrees
  <1>2. s * Ticks \in Int /\ (s + 1) * Ticks = s * Ticks + Ticks
    BY <1>1, Degrees
  <1>3. -Pole \in Int /\ (-Pole) * Ticks = -(Pole * Ticks)
    BY World, Degrees
  <1> HIDE DEF s
  <1>4. CASE lat <= -Pole * Ticks
    BY <1>4, World DEF SouthOf, Souths
  <1>5. CASE lat >= Pole * Ticks
    <2>1. ~(lat <= -Pole * Ticks)
      BY <1>5, World
    <2>2. SouthOf(lat) = Pole - 1
      BY <1>5, <2>1 DEF SouthOf
    <2>3. (Pole - 1) * Ticks \in Int /\ Pole * Ticks = (Pole - 1) * Ticks + Ticks
      BY World, Degrees, (Pole - 1) \in Int, (Pole - 1) + 1 = Pole
    <2> QED BY <1>5, <2>2, <2>3, World DEF Souths
  <1>6. CASE -Pole * Ticks < lat /\ lat < Pole * Ticks
    <2>1. SouthOf(lat) = s
      BY <1>6, World DEF SouthOf, s
    <2>2. s < Pole
      <3>1. s * Ticks < Pole * Ticks
        BY <1>1, <1>2, <1>6, World
      <3> QED BY <3>1, <1>1, World, Degrees
    <2>3. -Pole < s + 1
      <3>1. (-Pole) * Ticks < (s + 1) * Ticks
        BY <1>1, <1>2, <1>3, <1>6, World
      <3> QED BY <3>1, <1>1, <1>3, Degrees, s + 1 \in Int
    <2> QED BY <1>1, <1>2, <2>1, <2>2, <2>3, World DEF Souths
  <1> QED BY <1>4, <1>5, <1>6, World

(* Farther north, no cell is farther south.                                *)
LEMMA SouthMonotone ==
  ASSUME NEW a \in Int, NEW b \in Int, a <= b
  PROVE SouthOf(a) <= SouthOf(b)
  <1>1. SouthOf(a) \in Souths /\ SouthOf(b) \in Souths
    BY SouthBounds
  <1>2. CASE a <= -Pole * Ticks
    BY <1>1, <1>2, World DEF SouthOf, Souths
  <1>3. CASE b >= Pole * Ticks
    <2>1. ~(b <= -Pole * Ticks)
      BY <1>3, World
    <2> QED BY <1>1, <1>3, <2>1, World DEF SouthOf, Souths
  <1>4. CASE ~(a <= -Pole * Ticks) /\ ~(b >= Pole * Ticks)
    <2>1. ~(b <= -Pole * Ticks) /\ ~(a >= Pole * Ticks)
      BY <1>4, World
    <2>2. (a - 1) \div Ticks <= (b - 1) \div Ticks
      BY DivMonotone, World
    <2> QED BY <1>4, <2>1, <2>2 DEF SouthOf
  <1> QED BY <1>2, <1>3, <1>4

(* sourceWestForLongitude: a cell of the world, which holds the longitude. *)
LEMMA WestBounds ==
  ASSUME NEW lon \in Int
  PROVE /\ WestOf(lon) \in Wests
        /\ -HalfTurn * Ticks <= lon /\ lon <= HalfTurn * Ticks =>
             WestOf(lon) * Ticks <= lon /\ lon <= WestOf(lon) * Ticks + Ticks
        /\ lon < HalfTurn * Ticks => lon < WestOf(lon) * Ticks + Ticks
  <1> DEFINE w == lon \div Ticks
  <1>1. w \in Int /\ w * Ticks <= lon /\ lon < w * Ticks + Ticks
    BY World, DivBounds, Degrees
  <1>2. w * Ticks \in Int /\ (w + 1) * Ticks = w * Ticks + Ticks
    BY <1>1, Degrees
  <1>3. -HalfTurn \in Int /\ (-HalfTurn) * Ticks = -(HalfTurn * Ticks)
    BY World, Degrees
  <1> HIDE DEF w
  <1>4. CASE lon <= -HalfTurn * Ticks
    <2>1. ~(lon >= HalfTurn * Ticks)
      BY <1>4, World
    <2>2. WestOf(lon) = -HalfTurn
      BY <1>4, <2>1 DEF WestOf
    <2> QED BY <1>3, <1>4, <2>2, World DEF Wests
  <1>5. CASE lon >= HalfTurn * Ticks
    <2>1. WestOf(lon) = HalfTurn - 1
      BY <1>5 DEF WestOf
    <2>2. (HalfTurn - 1) * Ticks \in Int /\ HalfTurn * Ticks = (HalfTurn - 1) * Ticks + Ticks
      BY World, Degrees, (HalfTurn - 1) \in Int, (HalfTurn - 1) + 1 = HalfTurn
    <2> QED BY <1>5, <2>1, <2>2, World DEF Wests
  <1>6. CASE -HalfTurn * Ticks < lon /\ lon < HalfTurn * Ticks
    <2>1. WestOf(lon) = w
      BY <1>6, World DEF WestOf, w
    <2>2. w < HalfTurn
      <3>1. w * Ticks < HalfTurn * Ticks
        BY <1>1, <1>2, <1>6, World
      <3> QED BY <3>1, <1>1, World, Degrees
    <2>3. -HalfTurn < w + 1
      <3>1. (-HalfTurn) * Ticks < (w + 1) * Ticks
        BY <1>1, <1>2, <1>3, <1>6, World
      <3> QED BY <3>1, <1>1, <1>3, Degrees, w + 1 \in Int
    <2> QED BY <1>1, <1>2, <2>1, <2>2, <2>3, World DEF Wests
  <1> QED BY <1>4, <1>5, <1>6, World

(* Clamping does not leave a range of cells that overlaps the world.       *)
LEMMA WestWithin ==
  ASSUME NEW lon \in Int, NEW a \in Int, NEW b \in Int, a <= lon, lon <= b,
         a < HalfTurn * Ticks, -HalfTurn * Ticks <= b
  PROVE a \div Ticks <= WestOf(lon) /\ WestOf(lon) <= b \div Ticks
  <1> DEFINE wa == a \div Ticks
             wb == b \div Ticks
  <1>1. /\ wa \in Int /\ wb \in Int
        /\ wa * Ticks <= a /\ b < wb * Ticks + Ticks
        /\ a < wa * Ticks + Ticks
    BY World, DivBounds, Degrees
  <1>2. wa <= lon \div Ticks /\ lon \div Ticks <= wb
    BY DivMonotone, World
  <1>3. /\ -HalfTurn \in Int /\ (-HalfTurn) * Ticks = -(HalfTurn * Ticks)
        /\ wa * Ticks \in Int /\ wb * Ticks \in Int /\ (wb + 1) * Ticks = wb * Ticks + Ticks
        /\ (wa + 1) * Ticks = wa * Ticks + Ticks
    BY <1>1, World, Degrees
  <1> HIDE DEF wa, wb
  <1>4. wa < HalfTurn
    <2>1. wa * Ticks < HalfTurn * Ticks
      BY <1>1, <1>3, World
    <2> QED BY <2>1, <1>1, World, Degrees
  <1>5. -HalfTurn <= wb
    <2>1. (-HalfTurn) * Ticks < (wb + 1) * Ticks
      BY <1>1, <1>3, World
    <2>2. -HalfTurn < wb + 1
      BY <2>1, <1>1, <1>3, Degrees, wb + 1 \in Int
    <2> QED BY <2>2, <1>1, World
  <1>6. wa <= WestOf(lon) /\ WestOf(lon) <= wb
    <2>1. CASE lon >= HalfTurn * Ticks
      <3>1. HalfTurn - 1 < wb
        <4>1. HalfTurn * Ticks < (wb + 1) * Ticks
          BY <1>1, <1>3, <2>1, World
        <4>2. HalfTurn < wb + 1
          BY <4>1, <1>1, World, Degrees, wb + 1 \in Int
        <4> QED BY <4>2, <1>1, World
      <3> QED BY <1>1, <1>4, <2>1, <3>1, World DEF WestOf
    <2>2. CASE lon <= -HalfTurn * Ticks
      <3>1. wa * Ticks <= (-HalfTurn) * Ticks
        BY <1>1, <1>3, <2>2, World
      <3>2. wa <= -HalfTurn
        BY <3>1, <1>1, <1>3, Degrees
      <3>3. ~(lon >= HalfTurn * Ticks)
        BY <2>2, World
      <3> QED BY <1>1, <1>5, <2>2, <3>2, <3>3 DEF WestOf
    <2>3. CASE ~(lon <= -HalfTurn * Ticks) /\ ~(lon >= HalfTurn * Ticks)
      BY <1>2, <2>3 DEF WestOf
    <2> QED BY <2>1, <2>2, <2>3
  <1> QED BY <1>6 DEF wa, wb

(* wrappedSourceWest: a cell of the world, its own if it has one.          *)
LEMMA WrappedType ==
  ASSUME NEW w \in Int
  PROVE Wrapped(w) \in Wests /\ (w \in Wests => Wrapped(w) = w)
  <1> DEFINE turn == 2 * HalfTurn
             v == w + HalfTurn
  <1>1. turn \in Nat \ {0} /\ v \in Int
    BY World
  <1>2. v % turn \in 0 .. turn - 1 /\ v = (turn * (v \div turn)) + (v % turn)
    BY <1>1, ModDiv
  <1>3. ASSUME w \in Wests PROVE v % turn = v
    <2>1. v >= 0 /\ v < turn
      BY <1>3, World DEF Wests
    <2> HIDE DEF turn, v
    <2>2. v \div turn = 0
      BY <1>1, <2>1, DivIs, turn * 0 = 0
    <2> QED BY <1>1, <1>2, <2>2
  <1> QED BY <1>1, <1>2, <1>3, World DEF Wrapped, Wests

(* The cell of a position is the one it lies in.                           *)
LEMMA SouthIs ==
  ASSUME NEW lat \in Int, NEW s \in Souths, s * Ticks < lat, lat <= s * Ticks + Ticks
  PROVE SouthOf(lat) = s
  <1> DEFINE q == SouthOf(lat)
  <1>1. /\ s \in Int /\ s * Ticks \in Int /\ (s + 1) * Ticks = s * Ticks + Ticks
        /\ -Pole \in Int /\ (-Pole) * Ticks = -(Pole * Ticks)
    BY World, Degrees
  <1>2. -Pole * Ticks < lat /\ lat <= Pole * Ticks
    <2>1. (-Pole) * Ticks <= s * Ticks
      BY <1>1, Degrees, World DEF Souths
    <2>2. (s + 1) * Ticks <= Pole * Ticks
      BY <1>1, Degrees, World, s + 1 \in Int, s + 1 <= Pole DEF Souths
    <2> QED BY <1>1, <2>1, <2>2, World
  <1>3. q \in Int /\ q * Ticks < lat /\ lat <= q * Ticks + Ticks
    BY <1>2, SouthBounds, World
  <1>4. q * Ticks \in Int /\ (q + 1) * Ticks = q * Ticks + Ticks
    BY <1>3, Degrees
  <1> HIDE DEF q
  <1>5. q < s + 1
    <2>1. q * Ticks < (s + 1) * Ticks
      BY <1>1, <1>3, <1>4, World
    <2> QED BY <2>1, <1>1, <1>3, Degrees, s + 1 \in Int
  <1>6. s < q + 1
    <2>1. s * Ticks < (q + 1) * Ticks
      BY <1>1, <1>3, <1>4, World
    <2> QED BY <2>1, <1>1, <1>3, Degrees, q + 1 \in Int
  <1>7. q = s
    BY <1>1, <1>3, <1>5, <1>6
  <1> QED BY <1>7 DEF q

(* The same for longitudes.                                                *)
LEMMA WestIs ==
  ASSUME NEW lon \in Int, NEW w \in Wests, w * Ticks <= lon, lon < w * Ticks + Ticks
  PROVE WestOf(lon) = w
  <1> DEFINE q == WestOf(lon)
  <1>1. /\ w \in Int /\ w * Ticks \in Int /\ (w + 1) * Ticks = w * Ticks + Ticks
        /\ -HalfTurn \in Int /\ (-HalfTurn) * Ticks = -(HalfTurn * Ticks)
    BY World, Degrees
  <1>2. -HalfTurn * Ticks <= lon /\ lon < HalfTurn * Ticks
    <2>1. (-HalfTurn) * Ticks <= w * Ticks
      BY <1>1, Degrees, World DEF Wests
    <2>2. (w + 1) * Ticks <= HalfTurn * Ticks
      <3>1. w + 1 \in Int /\ HalfTurn \in Int /\ w + 1 <= HalfTurn
        BY <1>1, World DEF Wests
      <3> QED BY <3>1, Degrees
    <2> QED BY <1>1, <2>1, <2>2, World
  <1>3. q \in Int /\ q * Ticks <= lon /\ lon < q * Ticks + Ticks
    <2>1. lon <= HalfTurn * Ticks
      BY <1>2, World
    <2>2. q \in Wests /\ q * Ticks <= lon /\ lon < q * Ticks + Ticks
      BY <1>2, <2>1, WestBounds
    <2> QED BY <2>2, World
  <1>4. q * Ticks \in Int /\ (q + 1) * Ticks = q * Ticks + Ticks
    BY <1>3, Degrees
  <1> HIDE DEF q
  <1>5. q < w + 1
    <2>1. q * Ticks < (w + 1) * Ticks
      BY <1>1, <1>3, <1>4, World
    <2> QED BY <2>1, <1>1, <1>3, Degrees, w + 1 \in Int
  <1>6. w < q + 1
    <2>1. w * Ticks < (q + 1) * Ticks
      BY <1>1, <1>3, <1>4, World
    <2> QED BY <2>1, <1>1, <1>3, Degrees, q + 1 \in Int
  <1>7. q = w
    BY <1>1, <1>3, <1>5, <1>6
  <1> QED BY <1>7 DEF q

(* sourceAddressForCoordinate names cells of the world.                    *)
LEMMA CellAtType ==
  ASSUME NEW lat \in Int, NEW lon \in Int
  PROVE CellAt(lat, lon) \in Cells
  BY SouthBounds, WestBounds DEF CellAt, Cells, Souths, Wests

(* Pixels fill a cell, and a margin is at least a pixel.                   *)
LEMMA PixelWidth ==
  ASSUME NEW s \in Souths
  PROVE LET width == Ticks \div Columns[s]
        IN /\ width \in Nat \ {0} /\ Columns[s] \in Nat \ {0} /\ width * Columns[s] = Ticks
           /\ width <= LongitudeMargin /\ LongitudeMargin \in Nat
  <1> DEFINE c == Columns[s]
             t == Ticks
             width == t \div c
             m == LongitudeMargin
  <1>1. /\ c \in Nat \ {0} /\ t % (2 * c) = 0
        /\ m * c >= t /\ m \in Nat /\ t \in Nat \ {0}
    BY RasterAssumption, MarginAssumption DEF Souths
  <1> HIDE DEF c, t, m
  <1>2. c * width = t /\ width \in Int
    <2>1. t \in Int
      BY <1>1
    <2>2. t \div c \in Int
      BY <1>1, <2>1, DivBounds
    <2>3. c * (t \div c) = t
      BY <1>1, <2>1, Halves
    <2> QED BY <2>2, <2>3
  <1> HIDE DEF width
  <1>3. width > 0 /\ width * c = t /\ width <= m
    BY <1>1, <1>2, Factor
  <1> QED BY <1>1, <1>2, <1>3 DEF c, t, width, m

(* The same for rows.                                                      *)
LEMMA PixelHeight ==
  LET height == Ticks \div Rows
  IN /\ height \in Nat \ {0} /\ Rows \in Nat \ {0} /\ height * Rows = Ticks
     /\ height <= LatitudeMargin /\ LatitudeMargin \in Nat
  <1> DEFINE c == Rows
             t == Ticks
             height == t \div c
             m == LatitudeMargin
  <1>1. /\ c \in Nat \ {0} /\ t % (2 * c) = 0
        /\ m * c >= t /\ m \in Nat /\ t \in Nat \ {0}
    BY RasterAssumption, MarginAssumption
  <1> HIDE DEF c, t, m
  <1>2. c * height = t /\ height \in Int
    <2>1. t \in Int
      BY <1>1
    <2>2. t \div c \in Int
      BY <1>1, <2>1, DivBounds
    <2>3. c * (t \div c) = t
      BY <1>1, <2>1, Halves
    <2> QED BY <2>2, <2>3
  <1> HIDE DEF height
  <1>3. height > 0 /\ height * c = t /\ height <= m
    BY <1>1, <1>2, Factor
  <1> QED BY <1>1, <1>2, <1>3 DEF c, t, height, m

-----------------------------------------------------------------------------
(* Samples *)

(* What requests are, one by one.                                          *)
LEMMA RequestEdges ==
  ASSUME NEW r \in Requests
  PROVE /\ r.n \in Nat \ {0} /\ r.kind \in {"point", "average", "grid"}
        /\ r.west \in Int /\ r.east \in Int /\ r.south \in Int /\ r.north \in Int
        /\ r.west < r.east /\ -HalfTurn * Ticks <= r.west /\ r.east <= HalfTurn * Ticks
        /\ r.south < r.north /\ -Pole * Ticks < r.south /\ r.north < Pole * Ticks
  <1>1. -Pole * Ticks + HalfRow < r.south /\ r.south \in Int
    BY RequestAssumption
  <1>2. -Pole * Ticks < r.south
    BY <1>1, MarginAssumption, World
  <1> QED BY <1>2, RequestAssumption

(* A spacing of the samples is a whole part of an edge, and even.          *)
LEMMA Spacing ==
  ASSUME NEW n \in Nat \ {0}, NEW length \in Nat \ {0}, length % (2 * n) = 0
  PROVE LET step == length \div n
        IN step \in Nat \ {0} /\ step * n = length /\ step \div 2 \in Nat
             /\ 2 * (step \div 2) = step
  <1> DEFINE step == length \div n
             half == step \div 2
  <1>1. n * step = length /\ 2 * half = step
    <2>1. length \in Int
      OBVIOUS
    <2>2. n * (length \div n) = length /\ 2 * ((length \div n) \div 2) = length \div n
      BY <2>1, Halves
    <2> QED BY <2>2
  <1>2. step \in Int /\ length * n >= length
    BY DivBounds, SMTT(20)
  <1>3. step > 0 /\ step * n = length
    BY <1>1, <1>2, Factor
  <1> HIDE DEF step
  <1>4. half \in Int
    BY <1>2, DivBounds
  <1> HIDE DEF half
  <1>5. half \in Nat
    BY <1>1, <1>3, <1>4
  <1> QED BY <1>1, <1>2, <1>3, <1>5 DEF step, half

(* Spacing, for the samples of a request.                                  *)
LEMMA Spacings ==
  ASSUME NEW r \in Requests
  PROVE /\ StepX(r) \in Nat \ {0} /\ StepX(r) * r.n = r.east - r.west
        /\ StepX(r) \div 2 \in Nat /\ 2 * (StepX(r) \div 2) = StepX(r)
        /\ StepY(r) \in Nat \ {0} /\ StepY(r) * r.n = r.north - r.south
        /\ StepY(r) \div 2 \in Nat /\ 2 * (StepY(r) \div 2) = StepY(r)
  <1>1. /\ r.n \in Nat \ {0}
        /\ r.east - r.west \in Nat \ {0} /\ (r.east - r.west) % (2 * r.n) = 0
        /\ r.north - r.south \in Nat \ {0} /\ (r.north - r.south) % (2 * r.n) = 0
    BY RequestEdges, RequestAssumption
  <1> QED BY <1>1, Spacing DEF StepX, StepY

(* A sample's row and column in its lattice.                               *)
LEMMA LatticePosition ==
  ASSUME NEW k \in Nat \ {0}, NEW p \in Nat, p < k * k
  PROVE p % k \in 0 .. k - 1 /\ p \div k \in 0 .. k - 1
  <1> DEFINE q == p \div k
  <1>1. q \in Int /\ p = (k * q) + (p % k) /\ p % k \in 0 .. k - 1
    BY DivBounds, ModDiv
  <1> HIDE DEF q
  <1>2. \A a \in Int : \A b \in Int : a < b => k * a < k * b
    BY SMTT(20)
  <1>3. k * k \in Int /\ k * q \in Int /\ k * (-1) = -k /\ p % k \in Int
    BY <1>1, SMTT(20)
  <1>4. ~(k < q) /\ k # q
    BY <1>1, <1>2, <1>3
  <1>5. ~(q < -1) /\ q # -1
    BY <1>1, <1>2, <1>3
  <1>6. q \in 0 .. k - 1
    BY <1>1, <1>4, <1>5
  <1> QED BY <1>1, <1>6 DEF q

(* Lines of the lattice lie between the first and the last one.            *)
LEMMA LatticeLine ==
  ASSUME NEW step \in Nat \ {0}, NEW n \in Nat \ {0}, NEW i \in Nat
  PROVE /\ i * step \in Nat
        /\ i <= n => i * step <= step * n
        /\ i < n => i * step + step <= step * n
  <1>1. \A a \in Int : \A b \in Int : a <= b => a * step <= b * step
    BY SMTT(20)
  <1>2. (i + 1) * step = i * step + step /\ n * step = step * n /\ i * step \in Nat
    BY SMTT(20)
  <1>3. i < n => (i + 1) * step <= n * step
    BY <1>1, i + 1 \in Int, i < n => i + 1 <= n
  <1> QED BY <1>1, <1>2, <1>3

(* Samples lie in their tile or grid, those of a grid inside it.           *)
LEMMA SamplePosition ==
  ASSUME NEW r \in Requests, NEW p \in Nat, p < Points(r)
  PROVE LET lon == LongitudeOf(r, p)
            lat == LatitudeOf(r, p)
        IN /\ lon \in Int /\ lat \in Int
           /\ r.west <= lon /\ lon <= r.east /\ r.south <= lat /\ lat <= r.north
           /\ r.kind = "grid" => lon < r.east
  <1> DEFINE k == PerRow(r)
             column == p % k
             row == p \div k
  <1>1. k \in Nat \ {0} /\ p < k * k
    BY RequestEdges DEF PerRow, Points
  <1>2. column \in 0 .. k - 1 /\ row \in 0 .. k - 1
    BY <1>1, LatticePosition
  <1> HIDE DEF column, row
  <1> DEFINE x == column * StepX(r)
             y == row * StepY(r)
  <1>3. /\ r.n \in Nat \ {0}
        /\ StepX(r) \in Nat \ {0} /\ StepX(r) * r.n = r.east - r.west
        /\ StepX(r) \div 2 \in Nat /\ 2 * (StepX(r) \div 2) = StepX(r)
        /\ StepY(r) \in Nat \ {0} /\ StepY(r) * r.n = r.north - r.south
        /\ StepY(r) \div 2 \in Nat /\ 2 * (StepY(r) \div 2) = StepY(r)
        /\ r.west \in Int /\ r.east \in Int /\ r.south \in Int /\ r.north \in Int
    BY Spacings, RequestEdges
  <1>4. column \in Nat /\ row \in Nat
    BY <1>1, <1>2
  <1>5. /\ x \in Nat /\ (column <= r.n => x <= StepX(r) * r.n)
        /\ column < r.n => x + StepX(r) <= StepX(r) * r.n
    BY <1>3, <1>4, LatticeLine
  <1>6. /\ y \in Nat /\ (row <= r.n => y <= StepY(r) * r.n)
        /\ row < r.n => y + StepY(r) <= StepY(r) * r.n
    BY <1>3, <1>4, LatticeLine
  <1>7. /\ LongitudeOf(r, p) = r.west + x + IF r.kind = "grid" THEN StepX(r) \div 2 ELSE 0
        /\ LatitudeOf(r, p) = r.north - y - IF r.kind = "grid" THEN StepY(r) \div 2 ELSE 0
    BY DEF LongitudeOf, LatitudeOf, Longitude, Latitude, column, row
  <1> HIDE DEF x, y
  <1>8. CASE r.kind = "grid"
    <2>1. column < r.n /\ row < r.n
      BY <1>2, <1>3, <1>8 DEF PerRow
    <2> QED BY <1>3, <1>5, <1>6, <1>7, <1>8, <2>1
  <1>9. CASE r.kind # "grid"
    <2>1. column <= r.n /\ row <= r.n
      BY <1>2, <1>3, <1>9 DEF PerRow
    <2> QED BY <1>3, <1>5, <1>6, <1>7, <1>9, <2>1
  <1> QED BY <1>8, <1>9

-----------------------------------------------------------------------------
(* Tiles *)

(* How far beyond its edges a tile of a coarser zoom reads.                *)
BeyondX(r) == IF r.kind = "average" THEN StepX(r) \div 2 ELSE 0
BeyondY(r) == IF r.kind = "average" THEN StepY(r) \div 2 ELSE 0

(* Edge boxes do not shrink a tile.                                        *)
LEMMA Beyond ==
  ASSUME NEW r \in Requests
  PROVE BeyondX(r) \in Nat /\ BeyondY(r) \in Nat
  BY Spacings DEF BeyondX, BeyondY

(* The cells in reach of a tile are listed.                                *)
LEMMA TileCellIsListed ==
  ASSUME NEW r \in Requests, NEW lat \in Int, NEW lon \in Int,
         r.south - BeyondY(r) - LatitudeMargin <= lat,
         lat <= r.north + BeyondY(r) + LatitudeMargin,
         r.west - BeyondX(r) - LongitudeMargin <= lon,
         lon <= r.east + BeyondX(r) + LongitudeMargin
  PROVE CellAt(lat, lon) \in TileCells(r)
  <1> DEFINE low == r.south - BeyondY(r) - LatitudeMargin
             high == r.north + BeyondY(r) + LatitudeMargin
             west == r.west - BeyondX(r) - LongitudeMargin
             east == r.east + BeyondX(r) + LongitudeMargin
  <1>1. low \in Int /\ high \in Int /\ west \in Int /\ east \in Int
    BY RequestEdges, Beyond, MarginAssumption
  <1>2. low <= lat /\ lat <= high /\ west <= lon /\ lon <= east
    OBVIOUS
  <1>3. west < HalfTurn * Ticks /\ -HalfTurn * Ticks <= east
    BY RequestEdges, Beyond, MarginAssumption, World
  <1>4. TileCells(r) = {<<s, Wrapped(w)>> : s \in SouthOf(low) .. SouthOf(high),
                                            w \in west \div Ticks .. east \div Ticks}
    BY DEF TileCells, BeyondX, BeyondY
  <1> HIDE DEF low, high, west, east
  <1>5. SouthOf(lat) \in SouthOf(low) .. SouthOf(high)
    <2>1. /\ SouthOf(lat) \in Int /\ SouthOf(low) \in Int /\ SouthOf(high) \in Int
          /\ SouthOf(low) <= SouthOf(lat) /\ SouthOf(lat) <= SouthOf(high)
      BY <1>1, <1>2, SouthMonotone, SouthBounds, World
    <2> QED BY <2>1
  <1>6. WestOf(lon) \in west \div Ticks .. east \div Ticks
    <2>1. WestOf(lon) \in Int /\ west \div Ticks \in Int /\ east \div Ticks \in Int
      BY <1>1, WestBounds, DivBounds, World
    <2>2. west \div Ticks <= WestOf(lon) /\ WestOf(lon) <= east \div Ticks
      BY <1>1, <1>2, <1>3, WestWithin
    <2> QED BY <2>1, <2>2
  <1>7. Wrapped(WestOf(lon)) = WestOf(lon)
    BY WestBounds, WrappedType, World
  <1> QED BY <1>4, <1>5, <1>6, <1>7 DEF CellAt

(* normalizedTileSourceAddresses lists cells of the world.                 *)
LEMMA TileCellsType ==
  ASSUME NEW r \in Requests
  PROVE TileCells(r) \subseteq Cells
  <1> DEFINE low == r.south - BeyondY(r) - LatitudeMargin
             high == r.north + BeyondY(r) + LatitudeMargin
             west == r.west - BeyondX(r) - LongitudeMargin
             east == r.east + BeyondX(r) + LongitudeMargin
  <1>1. low \in Int /\ high \in Int /\ west \in Int /\ east \in Int
    BY RequestEdges, Beyond, MarginAssumption
  <1>2. TileCells(r) = {<<s, Wrapped(w)>> : s \in SouthOf(low) .. SouthOf(high),
                                            w \in west \div Ticks .. east \div Ticks}
    BY DEF TileCells, BeyondX, BeyondY
  <1> HIDE DEF low, high, west, east
  <1>3. SouthOf(low) \in Souths /\ SouthOf(high) \in Souths
    BY <1>1, SouthBounds
  <1>4. ASSUME NEW s \in SouthOf(low) .. SouthOf(high) PROVE s \in Souths
    BY <1>3, World DEF Souths
  <1>5. ASSUME NEW w \in west \div Ticks .. east \div Ticks PROVE Wrapped(w) \in Wests
    <2>1. w \in Int
      OBVIOUS
    <2> QED BY <2>1, WrappedType
  <1>6. Cells = Souths \X Wests
    BY DEF Cells, Souths, Wests
  <1> QED BY <1>2, <1>4, <1>5, <1>6

(* An average reads no cell that is not listed.                            *)
LEMMA CandidateIsListed ==
  ASSUME NEW r \in Requests, r.kind = "average", NEW c \in Candidates(r)
  PROVE <<c[1], Wrapped(c[2])>> \in TileCells(r)
  <1> DEFINE low == r.south - BeyondY(r) - LatitudeMargin
             high == r.north + BeyondY(r) + LatitudeMargin
             west == r.west - BeyondX(r) - LongitudeMargin
             east == r.east + BeyondX(r) + LongitudeMargin
             n == LatitudeEdge(r, 0)
             s == LatitudeEdge(r, r.n + 1)
             w == LongitudeEdge(r, 0)
             e == LongitudeEdge(r, r.n + 1)
             first == (s - HalfRow) \div Ticks
             last == (n - HalfRow - 1) \div Ticks
  <1>1. /\ low \in Int /\ high \in Int /\ west \in Int /\ east \in Int
        /\ HalfRow \in Nat /\ HalfColumn \in Nat
    BY RequestEdges, Beyond, MarginAssumption
  <1>2. TileCells(r) = {<<a, Wrapped(b)>> : a \in SouthOf(low) .. SouthOf(high),
                                            b \in west \div Ticks .. east \div Ticks}
    BY DEF TileCells, BeyondX, BeyondY
  <1>3. /\ n \in Int /\ s \in Int /\ w \in Int /\ e \in Int
        /\ n = r.north + BeyondY(r) /\ s = r.south - BeyondY(r)
        /\ w = r.west - BeyondX(r) /\ e = r.east + BeyondX(r)
    <2>1. /\ StepX(r) \in Nat \ {0} /\ StepX(r) * r.n = r.east - r.west
          /\ StepX(r) \div 2 \in Nat /\ 2 * (StepX(r) \div 2) = StepX(r)
          /\ StepY(r) \in Nat \ {0} /\ StepY(r) * r.n = r.north - r.south
          /\ StepY(r) \div 2 \in Nat /\ 2 * (StepY(r) \div 2) = StepY(r)
          /\ r.west \in Int /\ r.east \in Int /\ r.south \in Int /\ r.north \in Int
          /\ r.n \in Nat \ {0}
      BY Spacings, RequestEdges
    <2>2. \A x \in Nat \ {0} : /\ 0 * x = 0
                               /\ (r.n + 1) * x = x * r.n + x
      BY <2>1, SMTT(20)
    <2>3. /\ 0 * StepX(r) = 0 /\ (r.n + 1) * StepX(r) = StepX(r) * r.n + StepX(r)
          /\ 0 * StepY(r) = 0 /\ (r.n + 1) * StepY(r) = StepY(r) * r.n + StepY(r)
      BY <2>1, <2>2
    <2>4. w = r.west - StepX(r) \div 2 /\ n = r.north + StepY(r) \div 2
      BY <2>1, <2>3 DEF LongitudeEdge, LatitudeEdge
    <2>5. e = r.east + StepX(r) \div 2 /\ s = r.south - StepY(r) \div 2
      <3>1. /\ e = r.west + (r.n + 1) * StepX(r) - StepX(r) \div 2
            /\ s = r.north - (r.n + 1) * StepY(r) + StepY(r) \div 2
        BY DEF LongitudeEdge, LatitudeEdge
      <3>2. /\ e = r.west + ((r.east - r.west) + StepX(r)) - StepX(r) \div 2
            /\ s = r.north - ((r.north - r.south) + StepY(r)) + StepY(r) \div 2
        BY <2>1, <2>3, <3>1
      <3>3. \A a, b, h \in Int : /\ a + ((b - a) + 2 * h) - h = b + h
                                 /\ a - ((a - b) + 2 * h) + h = b - h
        OBVIOUS
      <3> QED BY <2>1, <3>2, <3>3
    <2>6. BeyondX(r) = StepX(r) \div 2 /\ BeyondY(r) = StepY(r) \div 2
      BY DEF BeyondX, BeyondY
    <2> QED BY <2>1, <2>4, <2>5, <2>6
  <1>4. /\ low <= s - HalfRow /\ n <= high /\ west <= w /\ e + HalfColumn <= east
        /\ low < Pole * Ticks /\ -Pole * Ticks < high
    BY <1>1, <1>3, RequestEdges, Beyond, MarginAssumption, World
  <1>5. /\ c[1] \in Max({-Pole, first}) .. Min({Pole - 1, last})
        /\ c[2] \in w \div Ticks .. (e + HalfColumn) \div Ticks
    BY DEF Candidates
  <1> HIDE DEF low, high, west, east, n, s, w, e
  <1>6. first \in Int /\ last \in Int
    BY <1>1, <1>3, DivBounds, World
  <1>7. /\ c[1] \in Int /\ -Pole <= c[1] /\ first <= c[1]
        /\ c[1] <= Pole - 1 /\ c[1] <= last
    <2> HIDE DEF first, last
    <2>1. /\ Max({-Pole, first}) \in Int /\ Max({-Pole, first}) >= -Pole
          /\ Max({-Pole, first}) >= first
          /\ Min({Pole - 1, last}) \in Int /\ Min({Pole - 1, last}) <= Pole - 1
          /\ Min({Pole - 1, last}) <= last
      BY <1>6, MaxOfTwo, MinOfTwo, World, -Pole \in Int, Pole - 1 \in Int
    <2> QED BY <1>5, <1>6, <2>1, World
  <1>8. c[1] \in SouthOf(low) .. SouthOf(high)
    <2>1. SouthOf(low) \in Souths /\ SouthOf(high) \in Souths
      BY <1>1, SouthBounds
    <2>2. SouthOf(low) <= c[1]
      <3>1. CASE low <= -Pole * Ticks
        BY <1>7, <3>1 DEF SouthOf
      <3>2. CASE ~(low <= -Pole * Ticks)
        <4>1. SouthOf(low) = (low - 1) \div Ticks
          BY <1>1, <1>4, <3>2, World DEF SouthOf
        <4>2. (low - 1) \div Ticks <= first
          <5>1. low - 1 \in Int /\ s - HalfRow \in Int /\ low - 1 <= s - HalfRow
            BY <1>1, <1>3, <1>4
          <5> QED BY <5>1, DivMonotone, World
        <4>3. (low - 1) \div Ticks \in Int
          BY <1>1, DivBounds, World
        <4> QED BY <1>6, <1>7, <4>1, <4>2, <4>3
      <3> QED BY <3>1, <3>2
    <2>3. c[1] <= SouthOf(high)
      <3>1. ~(high <= -Pole * Ticks)
        BY <1>1, <1>4, World
      <3>2. CASE high >= Pole * Ticks
        BY <1>7, <3>1, <3>2 DEF SouthOf
      <3>3. CASE ~(high >= Pole * Ticks)
        <4>1. SouthOf(high) = (high - 1) \div Ticks
          BY <3>1, <3>3 DEF SouthOf
        <4>2. last <= (high - 1) \div Ticks
          <5>1. /\ high - 1 \in Int /\ n - HalfRow - 1 \in Int
                /\ n - HalfRow - 1 <= high - 1
            BY <1>1, <1>3, <1>4
          <5> QED BY <5>1, DivMonotone, World
        <4>3. (high - 1) \div Ticks \in Int
          BY <1>1, DivBounds, World
        <4> QED BY <1>6, <1>7, <4>1, <4>2, <4>3
      <3> QED BY <3>2, <3>3
    <2> QED BY <1>7, <2>1, <2>2, <2>3, World
  <1>9. c[2] \in west \div Ticks .. east \div Ticks
    <2>1. west \div Ticks <= w \div Ticks /\ (e + HalfColumn) \div Ticks <= east \div Ticks
      BY <1>1, <1>3, <1>4, DivMonotone, World, e + HalfColumn \in Int
    <2>2. /\ west \div Ticks \in Int /\ east \div Ticks \in Int
          /\ w \div Ticks \in Int /\ (e + HalfColumn) \div Ticks \in Int
      BY <1>1, <1>3, DivBounds, World, e + HalfColumn \in Int
    <2> QED BY <1>5, <2>1, <2>2
  <1> QED BY <1>2, <1>8, <1>9

(* The pixel before a position and the one after are within a pixel of it. *)
LEMMA NeighbourPixel ==
  ASSUME NEW x \in Int, NEW size \in Nat \ {0}, NEW k \in {0, 1}
  PROVE LET y == (x \div size + k) * size
        IN y \in Int /\ x - size <= y /\ y <= x + size
  <1> DEFINE q == x \div size
  <1>1. q \in Int /\ size * q <= x /\ x < size * q + size
    BY DivBounds
  <1> HIDE DEF q
  <1>2. (q + 0) * size = size * q /\ (q + 1) * size = size * q + size /\ size * q \in Int
    BY <1>1, SMTT(20)
  <1>3. CASE k = 0
    BY <1>1, <1>2, <1>3 DEF q
  <1>4. CASE k = 1
    BY <1>1, <1>2, <1>4 DEF q
  <1> QED BY <1>3, <1>4

(* The bilinear sample of a position in a tile reads no cell that is not   *)
(* listed.                                                                 *)
LEMMA SampleIsListed ==
  ASSUME NEW r \in Requests, r.kind # "grid", NEW lat \in Int, NEW lon \in Int,
         r.south <= lat, lat <= r.north, r.west <= lon, lon <= r.east
  PROVE CellAt(lat, lon) \in TileCells(r) /\ SampleReads(lat, lon) \subseteq TileCells(r)
  <1> DEFINE s == SouthOf(lat)
             w == WestOf(lon)
             width == Ticks \div Columns[s]
             height == Ticks \div Rows
             x == lon - w * Ticks
             y == (s + 1) * Ticks - lat
             newLat(k) == (s + 1) * Ticks - (y \div height + k) * height
             newLon(k) == w * Ticks + (x \div width + k) * width
  <1>1. CellAt(lat, lon) = <<s, w>> /\ s \in Souths /\ w \in Wests
    BY SouthBounds, WestBounds DEF CellAt
  <1> HIDE DEF s, w
  <1>2. /\ width \in Nat \ {0} /\ width <= LongitudeMargin /\ LongitudeMargin \in Nat
        /\ height \in Nat \ {0} /\ height <= LatitudeMargin /\ LatitudeMargin \in Nat
    BY <1>1, PixelWidth, PixelHeight
  <1>3. (s + 1) * Ticks \in Int /\ w * Ticks \in Int
    <2>1. s \in Int /\ w \in Int /\ s + 1 \in Int
      BY <1>1, World
    <2> QED BY <2>1, Degrees
  <1> HIDE DEF width, height
  <1>4. x \in Int /\ y \in Int
    BY <1>3
  <1>5. ASSUME NEW k \in {0, 1}
        PROVE /\ newLat(k) \in Int /\ lat - height <= newLat(k) /\ newLat(k) <= lat + height
              /\ newLon(k) \in Int /\ lon - width <= newLon(k) /\ newLon(k) <= lon + width
    <2> DEFINE row == (y \div height + k) * height
               column == (x \div width + k) * width
    <2>1. row \in Int /\ y - height <= row /\ row <= y + height
      BY <1>2, <1>4, NeighbourPixel
    <2>2. column \in Int /\ x - width <= column /\ column <= x + width
      BY <1>2, <1>4, NeighbourPixel
    <2> HIDE DEF row, column
    <2>3. newLat(k) = (s + 1) * Ticks - row /\ newLon(k) = w * Ticks + column
      BY DEF row, column
    <2> QED BY <1>2, <1>3, <2>1, <2>2, <2>3
  <1> HIDE DEF newLat, newLon
  <1>6. ASSUME NEW a \in {0, 1}, NEW b \in {0, 1}
        PROVE CellAt(newLat(a), newLon(b)) \in TileCells(r)
    <2>1. /\ newLat(a) \in Int /\ lat - height <= newLat(a) /\ newLat(a) <= lat + height
          /\ newLon(b) \in Int /\ lon - width <= newLon(b) /\ newLon(b) <= lon + width
      BY <1>5
    <2>2. /\ r.south - BeyondY(r) - LatitudeMargin <= newLat(a)
          /\ newLat(a) <= r.north + BeyondY(r) + LatitudeMargin
          /\ r.west - BeyondX(r) - LongitudeMargin <= newLon(b)
          /\ newLon(b) <= r.east + BeyondX(r) + LongitudeMargin
      BY <2>1, <1>2, RequestEdges, Beyond
    <2> QED BY <2>1, <2>2, TileCellIsListed
  <1>7. CellAt(lat, lon) \in TileCells(r)
    <2>1. /\ r.south - BeyondY(r) - LatitudeMargin <= lat
          /\ lat <= r.north + BeyondY(r) + LatitudeMargin
          /\ r.west - BeyondX(r) - LongitudeMargin <= lon
          /\ lon <= r.east + BeyondX(r) + LongitudeMargin
      BY <1>2, RequestEdges, Beyond
    <2> QED BY <2>1, TileCellIsListed
  <1>8. ASSUME NEW i \in 0 .. 3
        PROVE GridValueCell(<<s, w>>, x \div width + (i % 2), y \div height + (i \div 2))
                \in TileCells(r)
    <2>1. i % 2 \in {0, 1} /\ i \div 2 \in {0, 1}
      BY SMT
    <2>2. GridValueCell(<<s, w>>, x \div width + (i % 2), y \div height + (i \div 2))
            = CellAt(newLat(i \div 2), newLon(i % 2))
      BY DEF GridValueCell, newLat, newLon, width, height
    <2> QED BY <1>6, <2>1, <2>2
  <1>9. SampleReads(lat, lon)
          \subseteq {<<s, w>>}
             \union {GridValueCell(<<s, w>>, x \div width + (i % 2), y \div height + (i \div 2))
                     : i \in 0 .. 3}
    BY <1>1 DEF SampleReads, width, height
  <1> QED BY <1>1, <1>7, <1>8, <1>9

-----------------------------------------------------------------------------
(* Analysis grids *)

(* analysisGridSourceAddresses lists cells of the world.                   *)
LEMMA GridCellsType ==
  ASSUME NEW r \in Requests, r.kind = "grid"
  PROVE GridCells(r) \subseteq Cells
  <1> SUFFICES ASSUME NEW c \in GridCells(r) PROVE c \in Cells
    OBVIOUS
  <1>1. PICK p \in 0 .. Points(r) - 1 :
          LET s == SouthOf(LatitudeOf(r, p))
              w == WestOf(LongitudeOf(r, p))
          IN /\ c[1] = s \/ (s > -Pole /\ c[1] = s - 1)
             /\ c[2] = w \/ (w < HalfTurn - 1 /\ c[2] = w + 1)
             /\ c = <<c[1], c[2]>>
    BY SMTT(30) DEF GridCells
  <1>2. LongitudeOf(r, p) \in Int /\ LatitudeOf(r, p) \in Int
    <2>1. p \in Nat /\ p < Points(r)
      <3>1. PerRow(r) \in Int
        BY RequestEdges DEF PerRow
      <3>2. Points(r) \in Int
        BY <3>1, SMTT(20) DEF Points
      <3> QED BY <3>2
    <2> QED BY <2>1, SamplePosition
  <1>3. SouthOf(LatitudeOf(r, p)) \in Souths /\ WestOf(LongitudeOf(r, p)) \in Wests
    BY <1>2, SouthBounds, WestBounds
  <1>4. c[1] \in Souths /\ c[2] \in Wests
    BY <1>1, <1>3, World DEF Souths, Wests
  <1> QED BY <1>1, <1>4 DEF Cells, Souths, Wests

(* The nearest pixel line of a position in a cell is in the cell, or it is *)
(* the far edge, and the position is within half a pixel of that.          *)
LEMMA NearestLine ==
  ASSUME NEW x \in Nat, NEW size \in Nat \ {0}, NEW count \in Nat \ {0}, x < size * count
  PROVE LET line == Rounded(x, size) * size
        IN /\ line \in Nat /\ line <= size * count
           /\ line = size * count => x >= size * count - size
  <1> DEFINE q == Rounded(x, size)
  <1>1. /\ q \in Nat /\ 2 * (size * q) <= 2 * x + size /\ 2 * x < 2 * (size * q) + size
    BY RoundedBounds
  <1> HIDE DEF q
  <1>2. q * size = size * q /\ q * size \in Nat /\ size * count \in Nat
    BY <1>1, SMTT(20)
  <1>3. q <= count
    <2>1. \A a \in Int : \A b \in Int : a < b => size * a < size * b
      BY SMTT(20)
    <2>2. size * (count + 1) = size * count + size
      BY SMTT(20)
    <2>3. ~(count + 1 < q) /\ q # count + 1
      BY <1>1, <1>2, <2>1, <2>2
    <2> QED BY <1>1, <2>3
  <1>4. q * size <= size * count
    <2>1. \A a \in Nat : \A b \in Nat : a <= b => size * a <= size * b
      BY SMTT(20)
    <2> QED BY <1>1, <1>2, <1>3, <2>1
  <1>5. q * size = size * count => x >= size * count - size
    BY <1>1, <1>2
  <1> QED BY <1>2, <1>4, <1>5 DEF q

(* The pixel line west or east of a position: the cell it is read from.    *)
LEMMA NativeWest ==
  ASSUME NEW lon \in Int, -HalfTurn * Ticks <= lon, lon < HalfTurn * Ticks, NEW s \in Souths
  PROVE LET w == WestOf(lon)
            width == Ticks \div Columns[s]
            column == Rounded(lon - w * Ticks, width) * width
        IN /\ w \in Wests /\ w * Ticks \in Int /\ lon - w * Ticks \in 0 .. Ticks - 1
           /\ column \in 0 .. Ticks
           /\ column = Ticks => lon - w * Ticks >= Ticks - width
           /\ column < Ticks => WestOf(w * Ticks + column) = w
           /\ column = Ticks =>
                WestOf(w * Ticks + column) = IF w < HalfTurn - 1 THEN w + 1 ELSE w
  <1> DEFINE w == WestOf(lon)
             width == Ticks \div Columns[s]
             x == lon - w * Ticks
             column == Rounded(x, width) * width
  <1>1. w \in Wests /\ w * Ticks <= lon /\ lon < w * Ticks + Ticks
    <2>1. lon <= HalfTurn * Ticks
      BY World
    <2> QED BY <2>1, WestBounds
  <1> HIDE DEF w
  <1>2. /\ w \in Int /\ w * Ticks \in Int /\ Ticks \in Nat \ {0}
        /\ (w + 1) * Ticks = w * Ticks + Ticks
    <2>1. w \in Int
      BY <1>1, World
    <2> QED BY <2>1, Degrees, World
  <1>3. /\ width \in Nat \ {0} /\ Columns[s] \in Nat \ {0} /\ width * Columns[s] = Ticks
    BY PixelWidth
  <1> HIDE DEF width
  <1>4. x \in 0 .. Ticks - 1
    BY <1>1, <1>2
  <1>5. column \in Nat /\ column <= Ticks /\ (column = Ticks => x >= Ticks - width)
    <2>1. x \in Nat /\ x < Ticks
      BY <1>2, <1>4
    <2> HIDE DEF x
    <2> QED BY <1>3, <2>1, NearestLine
  <1> HIDE DEF column
  <1>6. ASSUME column < Ticks PROVE WestOf(w * Ticks + column) = w
    <2>1. /\ w * Ticks + column \in Int /\ w * Ticks <= w * Ticks + column
          /\ w * Ticks + column < w * Ticks + Ticks
      BY <1>2, <1>5, <1>6
    <2> QED BY <2>1, <1>1, WestIs
  <1>7. ASSUME column = Ticks, w < HalfTurn - 1 PROVE WestOf(w * Ticks + column) = w + 1
    <2>1. w + 1 \in Wests
      BY <1>1, <1>2, <1>7, World DEF Wests
    <2>2. w + 1 \in Int /\ (w + 1) * Ticks \in Int
      BY <1>2
    <2>3. /\ w * Ticks + column \in Int
          /\ (w + 1) * Ticks <= w * Ticks + column
          /\ w * Ticks + column < (w + 1) * Ticks + Ticks
      BY <1>2, <1>5, <1>7, <2>2
    <2> QED BY <2>1, <2>3, WestIs
  <1>8. ASSUME column = Ticks, ~(w < HalfTurn - 1) PROVE WestOf(w * Ticks + column) = w
    <2>1. w = HalfTurn - 1 /\ w + 1 = HalfTurn
      BY <1>1, <1>2, <1>8, World DEF Wests
    <2>2. w * Ticks + column = HalfTurn * Ticks
      BY <1>2, <1>8, <2>1
    <2> QED BY <2>1, <2>2, World DEF WestOf
  <1>9. column \in 0 .. Ticks
    BY <1>2, <1>5
  <1> QED BY <1>1, <1>2, <1>4, <1>5, <1>6, <1>7, <1>8, <1>9 DEF w, width, column

(* The same for the line north or south of it.                             *)
LEMMA NativeSouth ==
  ASSUME NEW lat \in Int, -Pole * Ticks < lat, lat <= Pole * Ticks
  PROVE LET s == SouthOf(lat)
            height == Ticks \div Rows
            row == Rounded((s + 1) * Ticks - lat, height) * height
        IN /\ s \in Souths /\ s * Ticks \in Int /\ (s + 1) * Ticks = s * Ticks + Ticks
           /\ (s + 1) * Ticks - lat \in 0 .. Ticks - 1
           /\ row \in 0 .. Ticks
           /\ row = Ticks => lat - s * Ticks <= height
           /\ row < Ticks => SouthOf((s + 1) * Ticks - row) = s
           /\ row = Ticks =>
                SouthOf((s + 1) * Ticks - row) = IF s > -Pole THEN s - 1 ELSE s
  <1> DEFINE s == SouthOf(lat)
             height == Ticks \div Rows
             y == (s + 1) * Ticks - lat
             row == Rounded(y, height) * height
  <1>1. s \in Souths /\ s * Ticks < lat /\ lat <= s * Ticks + Ticks
    BY SouthBounds
  <1> HIDE DEF s
  <1>2. /\ s \in Int /\ s * Ticks \in Int /\ Ticks \in Nat \ {0}
        /\ (s + 1) * Ticks = s * Ticks + Ticks
    <2>1. s \in Int
      BY <1>1, World
    <2> QED BY <2>1, Degrees, World
  <1>3. height \in Nat \ {0} /\ Rows \in Nat \ {0} /\ height * Rows = Ticks
    BY PixelHeight
  <1> HIDE DEF height
  <1>4. y \in 0 .. Ticks - 1
    BY <1>1, <1>2
  <1>5. row \in Nat /\ row <= Ticks /\ (row = Ticks => y >= Ticks - height)
    <2>1. y \in Nat /\ y < Ticks
      BY <1>2, <1>4
    <2> HIDE DEF y
    <2> QED BY <1>3, <2>1, NearestLine
  <1> HIDE DEF row
  <1>6. ASSUME row < Ticks PROVE SouthOf((s + 1) * Ticks - row) = s
    <2>1. /\ (s + 1) * Ticks - row \in Int /\ s * Ticks < (s + 1) * Ticks - row
          /\ (s + 1) * Ticks - row <= s * Ticks + Ticks
      BY <1>2, <1>5, <1>6
    <2> QED BY <2>1, <1>1, SouthIs
  <1>7. row = Ticks => (s + 1) * Ticks - row = s * Ticks
    BY <1>2
  <1>8. ASSUME row = Ticks, s > -Pole PROVE SouthOf((s + 1) * Ticks - row) = s - 1
    <2>1. s - 1 \in Souths
      BY <1>1, <1>2, <1>8, World DEF Souths
    <2>2. s - 1 \in Int /\ (s - 1) + 1 = s
      BY <1>2
    <2>3. (s - 1) * Ticks \in Int /\ s * Ticks = (s - 1) * Ticks + Ticks
      BY <2>2, Degrees
    <2>4. (s - 1) * Ticks < s * Ticks /\ s * Ticks <= (s - 1) * Ticks + Ticks
      BY <1>2, <2>3
    <2>5. SouthOf(s * Ticks) = s - 1
      BY <1>2, <2>1, <2>4, SouthIs
    <2> QED BY <1>7, <1>8, <2>5
  <1>9. ASSUME row = Ticks, ~(s > -Pole) PROVE SouthOf((s + 1) * Ticks - row) = s
    <2>1. s = -Pole
      BY <1>1, <1>2, <1>9, World DEF Souths
    <2>2. s * Ticks = -Pole * Ticks
      BY <2>1, Degrees, World, Pole \in Int
    <2> QED BY <1>2, <1>7, <1>9, <2>1, <2>2 DEF SouthOf
  <1>10. row \in 0 .. Ticks /\ (row = Ticks => lat - s * Ticks <= height)
    BY <1>2, <1>3, <1>5
  <1> QED BY <1>1, <1>2, <1>4, <1>6, <1>8, <1>9, <1>10 DEF s, height, row

(* Where samples of a grid are.                                            *)
LEMMA GridSample ==
  ASSUME NEW r \in Requests, r.kind = "grid", NEW p \in 0 .. Points(r) - 1
  PROVE LET lat == LatitudeOf(r, p)
            lon == LongitudeOf(r, p)
        IN /\ lat \in Int /\ lon \in Int
           /\ -HalfTurn * Ticks <= lon /\ lon < HalfTurn * Ticks
           /\ -Pole * Ticks + HalfRow < lat /\ lat <= Pole * Ticks
           /\ -Pole * Ticks < lat
  <1> DEFINE lat == LatitudeOf(r, p)
             lon == LongitudeOf(r, p)
  <1>1. p \in Nat /\ p < Points(r)
    <2>1. PerRow(r) \in Int
      BY RequestEdges DEF PerRow
    <2>2. Points(r) \in Int
      BY <2>1, SMTT(20) DEF Points
    <2> QED BY <2>2
  <1>2. /\ lon \in Int /\ lat \in Int
        /\ r.west <= lon /\ lon < r.east /\ r.south <= lat /\ lat <= r.north
    BY <1>1, SamplePosition
  <1>3. -Pole * Ticks + HalfRow < r.south /\ HalfRow \in Nat
    BY RequestAssumption, MarginAssumption
  <1> HIDE DEF lat, lon
  <1>4. /\ -HalfTurn * Ticks <= lon /\ lon < HalfTurn * Ticks
        /\ -Pole * Ticks + HalfRow < lat /\ lat <= Pole * Ticks /\ -Pole * Ticks < lat
    BY <1>2, <1>3, RequestEdges, World
  <1> QED BY <1>2, <1>4 DEF lat, lon

(* A grid lists the cell of every sample, and the cell of its pixel.       *)
LEMMA NativeIsListed ==
  ASSUME NEW r \in Requests, r.kind = "grid", NEW p \in 0 .. Points(r) - 1
  PROVE NativeReads(LatitudeOf(r, p), LongitudeOf(r, p)) \subseteq GridCells(r)
  <1> DEFINE lat == LatitudeOf(r, p)
             lon == LongitudeOf(r, p)
             s == SouthOf(lat)
             w == WestOf(lon)
             width == Ticks \div Columns[s]
             height == Ticks \div Rows
             column == Rounded(lon - w * Ticks, width) * width
             row == Rounded((s + 1) * Ticks - lat, height) * height
             east == w < HalfTurn - 1 /\ lon - w * Ticks >= Ticks - LongitudeMargin
             south == s > -Pole /\ lat - s * Ticks <= LatitudeMargin
             near == {<<s, w>>} \union (IF east THEN {<<s, w + 1>>} ELSE {})
                       \union (IF south THEN {<<s - 1, w>>} ELSE {})
                       \union (IF east /\ south THEN {<<s - 1, w + 1>>} ELSE {})
  <1>1. near \subseteq GridCells(r)
    BY DEF GridCells
  <1>2. /\ lon \in Int /\ lat \in Int
        /\ -HalfTurn * Ticks <= lon /\ lon < HalfTurn * Ticks
        /\ -Pole * Ticks < lat /\ lat <= Pole * Ticks
    BY GridSample
  <1> HIDE DEF lat, lon
  <1>3. CellAt(lat, lon) = <<s, w>> /\ s \in Souths
    BY <1>2, SouthBounds DEF CellAt
  <1>4. /\ w * Ticks \in Int /\ column \in 0 .. Ticks
        /\ column = Ticks => lon - w * Ticks >= Ticks - width
        /\ column < Ticks => WestOf(w * Ticks + column) = w
        /\ column = Ticks => WestOf(w * Ticks + column) = IF w < HalfTurn - 1 THEN w + 1 ELSE w
    <2> HIDE DEF s
    <2> QED BY <1>2, <1>3, NativeWest
  <1>5. /\ s * Ticks \in Int /\ row \in 0 .. Ticks
        /\ row = Ticks => lat - s * Ticks <= height
        /\ row < Ticks => SouthOf((s + 1) * Ticks - row) = s
        /\ row = Ticks => SouthOf((s + 1) * Ticks - row) = IF s > -Pole THEN s - 1 ELSE s
    BY <1>2, NativeSouth
  <1> HIDE DEF s, w
  <1>6. /\ width \in Nat \ {0} /\ width <= LongitudeMargin /\ LongitudeMargin \in Nat
        /\ height \in Nat \ {0} /\ height <= LatitudeMargin /\ LatitudeMargin \in Nat
        /\ Ticks \in Nat \ {0}
    BY <1>3, PixelWidth, PixelHeight, World
  <1> HIDE DEF width, height
  <1>7. WestOf(w * Ticks + column) = w \/ (east /\ WestOf(w * Ticks + column) = w + 1)
    <2> HIDE DEF column
    <2> QED BY <1>2, <1>4, <1>6
  <1>8. \/ SouthOf((s + 1) * Ticks - row) = s
        \/ south /\ SouthOf((s + 1) * Ticks - row) = s - 1
    <2> HIDE DEF row
    <2> QED BY <1>2, <1>5, <1>6
  <1>9. NativeCell(lat, lon) = CellAt((s + 1) * Ticks - row, w * Ticks + column)
    BY <1>3 DEF NativeCell, GridValueCell, width, height
  <1> HIDE DEF east, south, row, column
  <1>10. NativeCell(lat, lon) \in near
    BY <1>7, <1>8, <1>9 DEF CellAt
  <1> QED BY <1>1, <1>3, <1>10 DEF NativeReads, lat, lon

(* Rounding to a line is off by at most half a pixel, in ticks times the   *)
(* number of pixels.                                                       *)
LEMMA AxisDistance ==
  ASSUME NEW size \in Nat \ {0}, NEW count \in Nat \ {0}, NEW t \in Nat \ {0},
         size * count = t, NEW x \in 0 .. t - 1
  PROVE 2 * (count * x - Rounded(x, size) * t) \in -t .. t
  <1> DEFINE q == Rounded(x, size)
  <1>1. q \in Nat /\ 2 * (size * q) <= 2 * x + size /\ 2 * x < 2 * (size * q) + size
    BY RoundedBounds
  <1> HIDE DEF q
  <1> DEFINE m == size * q
  <1>2. m \in Nat /\ 2 * m <= 2 * x + size /\ 2 * x <= 2 * m + size
    BY <1>1, SMTT(20)
  <1>3. count * m = q * t
    <2>1. count * (size * q) = (size * count) * q
      BY <1>1, SMTT(20)
    <2>2. q * t = t * q
      BY <1>1, SMTT(20)
    <2> QED BY <2>1, <2>2
  <1> HIDE DEF m
  <1>4. \A a, b \in Int : a <= b => count * a <= count * b
    BY SMTT(20)
  <1>5. /\ count * (2 * m) <= count * (2 * x + size)
        /\ count * (2 * x) <= count * (2 * m + size)
    BY <1>2, <1>4
  <1>6. /\ count * (2 * m) = 2 * (count * m) /\ count * (2 * x) = 2 * (count * x)
        /\ count * (2 * x + size) = 2 * (count * x) + count * size
        /\ count * (2 * m + size) = 2 * (count * m) + count * size
        /\ count * size = size * count /\ count * m \in Int /\ count * x \in Int
    BY <1>2, SMTT(20)
  <1>7. 2 * (count * x - count * m) \in -t .. t
    BY <1>5, <1>6
  <1> QED BY <1>3, <1>7 DEF q

(* A value in a range is not clamped.                                      *)
LEMMA Unclamped ==
  ASSUME NEW last \in Nat, NEW value \in 0 .. last
  PROVE Clamped(value, last) = value
  <1>1. value \in Int /\ last \in Int /\ 0 <= value /\ value <= last
    OBVIOUS
  <1>2. /\ Min({value, last}) \in Int /\ Min({value, last}) <= value
        /\ Min({value, last}) = value \/ Min({value, last}) = last
    BY <1>1, MinOfTwo
  <1>3. Min({value, last}) = value
    BY <1>1, <1>2
  <1>4. /\ Max({0, value}) \in Int /\ Max({0, value}) >= value
        /\ Max({0, value}) = 0 \/ Max({0, value}) = value
    BY <1>1, MaxOfTwo, 0 \in Int
  <1>5. Max({0, value}) = value
    BY <1>1, <1>4
  <1> QED BY <1>3, <1>5 DEF Clamped

(* Along one axis: the pixel read for position x of a cell of t ticks, or  *)
(* the first one of the next cell when its line is the far edge (k is 1),  *)
(* is within half a pixel of x.                                            *)
LEMMA AxisPixel ==
  ASSUME NEW size \in Nat \ {0}, NEW count \in Nat \ {0}, NEW t \in Nat \ {0},
         size * count = t, NEW x \in 0 .. t - 1, NEW k \in {0, 1},
         k = 0 => Rounded(x, size) * size < t,
         k = 1 => Rounded(x, size) * size = t
  PROVE LET line == Clamped(Rounded(Rounded(x, size) * size - k * t, size), count - 1)
        IN 2 * (count * (x - k * t) - line * t) \in -t .. t
  <1> DEFINE q == Rounded(x, size)
             line == Clamped(Rounded(q * size - k * t, size), count - 1)
  <1> SUFFICES 2 * (count * (x - k * t) - line * t) \in -t .. t
    OBVIOUS
  <1>1. q \in Nat /\ 2 * (size * q) <= 2 * x + size /\ 2 * x < 2 * (size * q) + size
    BY RoundedBounds
  <1> HIDE DEF q
  <1>2. \A m \in Nat : Rounded(m * size, size) = m
    <2> SUFFICES ASSUME NEW m \in Nat PROVE Rounded(m * size, size) = m
      OBVIOUS
    <2>1. /\ 2 * (m * size) + size \in Int /\ 2 * size \in Nat \ {0}
          /\ (2 * size) * m = 2 * (m * size) /\ m * size \in Int
      BY SMTT(20)
    <2> QED BY <2>1, DivIs DEF Rounded
  <1>3. \A a, b \in Nat : a <= b => a * size <= b * size
    BY SMTT(20)
  <1>4. count * size = t /\ 0 * size = 0
    BY SMTT(20)
  <1>0. 2 * (count * x - q * t) \in -t .. t
    BY AxisDistance DEF q
  <1>5. CASE k = 0
    <2>1. q < count
      BY <1>1, <1>3, <1>4, <1>5 DEF q
    <2>2. q * size - k * t = q * size
      BY <1>1, <1>5, SMTT(20)
    <2>3. line = q
      BY <1>1, <1>2, <2>1, <2>2, Unclamped
    <2>4. x - k * t = x
      BY <1>5
    <2> HIDE DEF line
    <2> QED BY <2>3, <2>4, <1>0
  <1>6. CASE k = 1
    <2>1. q * size = t
      BY <1>6 DEF q
    <2>2. q = count
      <3>1. \A a, b \in Nat : a < b => a * size < b * size
        BY SMTT(20)
      <3>2. ~(q < count) /\ ~(count < q)
        BY <1>1, <1>4, <2>1, <3>1
      <3> QED BY <1>1, <3>2
    <2>3. q * size - k * t = 0 * size
      BY <1>4, <1>6, <2>1
    <2>4. line = 0
      BY <1>2, <2>3, Unclamped
    <2>5. count * (x - k * t) - line * t = count * x - q * t
      <3>1. count * (x - t) = count * x - count * t
        BY SMTT(20)
      <3>2. x - k * t = x - t /\ line * t = 0
        BY <1>6, <2>4
      <3> HIDE DEF line
      <3>3. count * x \in Int /\ count * t \in Int
        BY SMT
      <3> QED BY <2>2, <3>1, <3>2, <3>3
    <2> HIDE DEF line
    <2> QED BY <2>5, <1>0
  <1> QED BY <1>5, <1>6

(* A native sample is the nearest pixel.  The antimeridian and a change of *)
(* pixel width, which sampleNative leaves out, are the hypotheses.         *)
LEMMA NativeIsNear ==
  ASSUME NEW r \in Requests, r.kind = "grid", NEW p \in 0 .. Points(r) - 1
  PROVE LET lat == LatitudeOf(r, p)
            lon == LongitudeOf(r, p)
            px == NativePixel(lat, lon)
            P == Columns[px.cell[1]]
        IN px # None /\ P = Columns[SouthOf(lat)] /\ 2 * P * (HalfTurn * Ticks - lon) > Ticks =>
             /\ 2 * (P * (lon - px.cell[2] * Ticks) - px.column * Ticks) \in -Ticks .. Ticks
             /\ 2 * (Rows * ((px.cell[1] + 1) * Ticks - lat) - px.row * Ticks) \in -Ticks .. Ticks
  <1> DEFINE lat == LatitudeOf(r, p)
             lon == LongitudeOf(r, p)
             s == SouthOf(lat)
             w == WestOf(lon)
             cell == NativeCell(lat, lon)
             P == Columns[s]
             width == Ticks \div P
             height == Ticks \div Rows
             x == lon - w * Ticks
             y == (s + 1) * Ticks - lat
             column == Rounded(x, width) * width
             row == Rounded(y, height) * height
             k == IF column = Ticks THEN 1 ELSE 0
             j == IF row = Ticks THEN 1 ELSE 0
             px == NativePixel(lat, lon)
  <1> SUFFICES ASSUME px # None, Columns[px.cell[1]] = P, 2 * P * (HalfTurn * Ticks - lon) > Ticks
               PROVE /\ 2 * (P * (lon - px.cell[2] * Ticks) - px.column * Ticks) \in -Ticks .. Ticks
                     /\ 2 * (Rows * ((px.cell[1] + 1) * Ticks - lat) - px.row * Ticks)
                          \in -Ticks .. Ticks
    OBVIOUS
  <1>1. /\ lon \in Int /\ lat \in Int
        /\ -HalfTurn * Ticks <= lon /\ lon < HalfTurn * Ticks
        /\ -Pole * Ticks + HalfRow < lat /\ -Pole * Ticks < lat /\ lat <= Pole * Ticks
    BY GridSample
  <1>2. px = [cell |-> cell,
              column |-> Clamped(Rounded((w * Ticks + column) - cell[2] * Ticks,
                                         Ticks \div Columns[cell[1]]), Columns[cell[1]] - 1),
              row |-> Clamped(Rounded((cell[1] + 1) * Ticks - ((s + 1) * Ticks - row), height),
                              Rows - 1)]
    BY DEF NativePixel, CellAt
  <1>3. cell = <<SouthOf((s + 1) * Ticks - row), WestOf(w * Ticks + column)>>
    BY DEF NativeCell, GridValueCell, CellAt
  <1> HIDE DEF cell, px
  <1> HIDE DEF lat, lon
  <1>4. s \in Souths
    BY <1>1, SouthBounds
  <1>5. /\ w \in Wests /\ w * Ticks \in Int /\ x \in 0 .. Ticks - 1 /\ column \in 0 .. Ticks
        /\ column < Ticks => WestOf(w * Ticks + column) = w
        /\ column = Ticks => WestOf(w * Ticks + column) = IF w < HalfTurn - 1 THEN w + 1 ELSE w
    <2> HIDE DEF s
    <2> QED BY <1>1, <1>4, NativeWest
  <1>6. /\ s * Ticks \in Int /\ (s + 1) * Ticks = s * Ticks + Ticks
        /\ y \in 0 .. Ticks - 1 /\ row \in 0 .. Ticks
        /\ row < Ticks => SouthOf((s + 1) * Ticks - row) = s
        /\ row = Ticks => SouthOf((s + 1) * Ticks - row) = IF s > -Pole THEN s - 1 ELSE s
    BY <1>1, NativeSouth
  <1> HIDE DEF s, w
  <1>7. /\ width \in Nat \ {0} /\ P \in Nat \ {0} /\ width * P = Ticks
        /\ height \in Nat \ {0} /\ Rows \in Nat \ {0} /\ height * Rows = Ticks
        /\ Ticks \in Nat \ {0}
    BY <1>4, PixelWidth, PixelHeight, World
  <1>8. /\ 2 * column <= 2 * x + width /\ 2 * row <= 2 * y + height
    <2> HIDE DEF width, height, x, y
    <2>1. x \in Nat /\ y \in Nat
      BY <1>5, <1>6, <1>7
    <2>2. /\ Rounded(x, width) \in Nat /\ Rounded(y, height) \in Nat
          /\ 2 * (width * Rounded(x, width)) <= 2 * x + width
          /\ 2 * (height * Rounded(y, height)) <= 2 * y + height
      BY <1>7, <2>1, RoundedBounds
    <2>3. \A a, b \in Nat : a * b = b * a
      BY SMTT(20)
    <2> QED BY <1>7, <2>2, <2>3
  <1>9. ASSUME column = Ticks PROVE w < HalfTurn - 1
    <2> SUFFICES ASSUME w = HalfTurn - 1 PROVE FALSE
      BY <1>5, World DEF Wests
    <2>1. w \in Int /\ (w + 1) * Ticks = w * Ticks + Ticks /\ w + 1 = HalfTurn
      BY <1>5, World, Degrees
    <2>2. HalfTurn * Ticks - lon = Ticks - x
      BY <1>1, <1>5, <1>7, <2>1
    <2>3. 2 * (Ticks - x) <= width
      BY <1>5, <1>7, <1>8, <1>9
    <2> DEFINE d == Ticks - x
    <2>4. d \in Int
      BY <1>5, <1>7
    <2> HIDE DEF d, x
    <2>5. 2 * P * d > Ticks
      BY <2>2 DEF d
    <2> HIDE DEF P, width
    <2>6. P * (2 * d) <= P * width
      <3>1. \A a, b \in Int : a <= b => P * a <= P * b
        BY <1>7, SMTT(20)
      <3>2. 2 * d \in Int /\ width \in Int /\ 2 * d <= width
        BY <1>7, <2>3, <2>4 DEF d
      <3> QED BY <3>1, <3>2
    <2>7. P * (2 * d) = 2 * P * d /\ P * width = width * P /\ 2 * P * d \in Int
      BY <1>7, <2>4, SMTT(20)
    <2> QED BY <1>7, <2>5, <2>6, <2>7
  <1>10. ASSUME row = Ticks PROVE s > -Pole
    <2> SUFFICES ASSUME s = -Pole PROVE FALSE
      BY <1>4, World DEF Souths
    <2>1. s * Ticks = -Pole * Ticks
      BY Degrees, World, Pole \in Int
    <2>2. 2 * (lat - s * Ticks) <= height
      BY <1>1, <1>6, <1>7, <1>8, <1>10
    <2>3. height = 2 * HalfRow
      <3>1. 2 * HalfRow * Rows = Ticks /\ HalfRow \in Nat
        BY MarginAssumption
      <3>2. Rows * (2 * HalfRow) = Ticks
        BY <1>7, <3>1, SMTT(20)
      <3> QED BY <1>7, <3>1, <3>2, DivIs
    <2> HIDE DEF height
    <2> QED BY <1>1, <1>6, <2>1, <2>2, <2>3, MarginAssumption, World
  <1>11. cell[2] = w + k /\ cell[1] = s - j /\ k \in {0, 1} /\ j \in {0, 1}
    <2> HIDE DEF column, row
    <2>1. /\ column = Ticks \/ column < Ticks
          /\ row = Ticks \/ row < Ticks
      BY <1>5, <1>6, <1>7
    <2>2. w \in Int /\ s \in Int
      BY <1>4, <1>5, World
    <2> QED BY <1>3, <1>5, <1>6, <1>9, <1>10, <2>1, <2>2
  <1>12. /\ w * Ticks \in Int /\ (w + k) * Ticks = w * Ticks + k * Ticks
         /\ (s - j + 1) * Ticks = (s + 1) * Ticks - j * Ticks
         /\ k * Ticks \in Int /\ j * Ticks \in Int
    <2>1. w \in Int /\ s \in Int
      BY <1>4, <1>5, World
    <2>2. k \in Int /\ j \in Int
      BY <1>11
    <2> DEFINE t == Ticks
    <2>3. t \in Int
      BY <1>7
    <2> HIDE DEF t, k, j
    <2>4. /\ w * t \in Int /\ (w + k) * t = w * t + k * t
          /\ (s - j + 1) * t = (s + 1) * t - j * t
          /\ k * t \in Int /\ j * t \in Int
      BY <2>1, <2>2, <2>3, SMTT(20)
    <2> QED BY <2>4 DEF t
  <1>13. /\ k = 0 => column < Ticks
         /\ k = 1 => column = Ticks
         /\ j = 0 => row < Ticks
         /\ j = 1 => row = Ticks
    <2> HIDE DEF column, row
    <2> QED BY <1>5, <1>6, <1>7
  <1>14. /\ px.cell = cell
         /\ px.column = Clamped(Rounded(column - k * Ticks, width), P - 1)
         /\ px.row = Clamped(Rounded(row - j * Ticks, height), Rows - 1)
    <2>1. px.cell = cell /\ Columns[cell[1]] = P
      BY <1>2
    <2>2. (w * Ticks + column) - cell[2] * Ticks = column - k * Ticks
      <3> HIDE DEF column, k
      <3> QED BY <1>5, <1>11, <1>12
    <2>3. (cell[1] + 1) * Ticks - ((s + 1) * Ticks - row) = row - j * Ticks
      <3> HIDE DEF row, j
      <3>1. (cell[1] + 1) * Ticks = (s + 1) * Ticks - j * Ticks
        BY <1>11, <1>12
      <3> QED BY <1>6, <1>7, <1>12, <3>1
    <2> HIDE DEF column, row, k, j, height
    <2> QED BY <1>2, <2>1, <2>2, <2>3
  <1>15. /\ lon - cell[2] * Ticks = x - k * Ticks
         /\ (cell[1] + 1) * Ticks - lat = y - j * Ticks
    <2> HIDE DEF k, j
    <2>1. cell[2] * Ticks = w * Ticks + k * Ticks
      BY <1>11, <1>12
    <2>2. (cell[1] + 1) * Ticks = (s + 1) * Ticks - j * Ticks
      BY <1>11, <1>12
    <2> QED BY <1>1, <1>6, <1>7, <1>12, <2>1, <2>2
  <1> HIDE DEF x, y, width, height, P, k, j
  <1>16. 2 * (P * (x - k * Ticks) - px.column * Ticks) \in -Ticks .. Ticks
    <2>1. /\ k = 0 => Rounded(x, width) * width < Ticks
          /\ k = 1 => Rounded(x, width) * width = Ticks
      BY <1>13
    <2>2. 2 * (P * (x - k * Ticks)
                - Clamped(Rounded(Rounded(x, width) * width - k * Ticks, width), P - 1) * Ticks)
            \in -Ticks .. Ticks
      BY <1>5, <1>7, <1>11, <2>1, AxisPixel
    <2> QED BY <1>14, <2>2
  <1>17. 2 * (Rows * (y - j * Ticks) - px.row * Ticks) \in -Ticks .. Ticks
    <2>1. /\ j = 0 => Rounded(y, height) * height < Ticks
          /\ j = 1 => Rounded(y, height) * height = Ticks
      BY <1>13
    <2>2. 2 * (Rows * (y - j * Ticks)
                - Clamped(Rounded(Rounded(y, height) * height - j * Ticks, height), Rows - 1)
                    * Ticks)
            \in -Ticks .. Ticks
      BY <1>6, <1>7, <1>11, <2>1, AxisPixel
    <2> QED BY <1>14, <2>2
  <1> QED BY <1>14, <1>15, <1>16, <1>17

-----------------------------------------------------------------------------
(* The specification *)

(* Either list.                                                            *)
LEMMA ListedType ==
  ASSUME NEW r \in Requests
  PROVE Listed(r) \subseteq Cells
  BY TileCellsType, GridCellsType DEF Listed

(* The number of samples is one.                                           *)
LEMMA PointsType ==
  ASSUME NEW r \in Requests
  PROVE Points(r) \in Nat
  <1>1. PerRow(r) \in Nat
    BY RequestEdges DEF PerRow
  <1>2. \A k \in Nat : k * k \in Nat
    BY SMT
  <1> QED BY <1>1, <1>2 DEF Points

(* What holds of a request between its acceptance and the next one.        *)
InHand ==
  /\ request \in Requests /\ ~TooLarge(request)
  /\ listed = Listed(request)
  /\ point \in 0 .. Points(request)
  /\ left # {} => request.kind = "average"
  /\ left \subseteq Candidates(request)

(* The list of a request does not change while its cells are read.         *)
IInv ==
  /\ request \in Requests \union {None}
  /\ phase \in {"idle", "fetching", "refused", "answered"}
  /\ phase \in {"fetching", "answered"} => InHand
  /\ phase \in {"idle", "refused"} => listed = {}
  /\ read \subseteq listed

(* Nothing is read before the first request.                               *)
LEMMA IInvInit == Init => IInv
  BY DEF Init, IInv

(* A new request starts with a list of its own.                            *)
LEMMA AcceptPreserves ==
  ASSUME IInv, NEW r \in Requests, Accept(r)
  PROVE IInv'
  <1>1. Points(r) \in Nat
    BY PointsType
  <1>2. InHand'
    BY <1>1 DEF Accept, InHand, TooLarge, Listed, Points, PerRow, Candidates
  <1> QED BY <1>2 DEF Accept, IInv

(* accumulateAreaAverages reads candidates, which are listed.              *)
LEMMA AveragePreserves ==
  ASSUME IInv, NEW c \in left, AverageCell(c)
  PROVE IInv'
  <1>1. InHand /\ request \in Requests /\ request.kind = "average" /\ c \in Candidates(request)
    BY DEF IInv, InHand, AverageCell
  <1>2. <<c[1], Wrapped(c[2])>> \in listed
    BY <1>1, CandidateIsListed DEF InHand, Listed
  <1>3. InHand'
    BY <1>1 DEF AverageCell, InHand
  <1> QED BY <1>2, <1>3 DEF AverageCell, IInv

(* A sample reads its neighbourhood, which is listed.                      *)
LEMMA SamplePreserves ==
  ASSUME IInv, Sample
  PROVE IInv'
  <1> DEFINE lat == LatitudeOf(request, point)
             lon == LongitudeOf(request, point)
  <1>1. InHand /\ request \in Requests
    BY DEF IInv, InHand, Sample
  <1>2. point \in Nat /\ point < Points(request) /\ Points(request) \in Nat
    BY <1>1, PointsType DEF InHand, Sample
  <1>3. /\ lat \in Int /\ lon \in Int
        /\ request.west <= lon /\ lon <= request.east
        /\ request.south <= lat /\ lat <= request.north
    BY <1>1, <1>2, SamplePosition
  <1>4. read' \subseteq listed
    <2>1. CASE request.kind \in {"point", "average"}
      <3> HIDE DEF lat, lon
      <3>1. CellAt(lat, lon) \in listed /\ SampleReads(lat, lon) \subseteq listed
        BY <1>1, <1>3, <2>1, SampleIsListed DEF InHand, Listed
      <3>2. read' \subseteq read \union {CellAt(lat, lon)} \union SampleReads(lat, lon)
        BY <2>1 DEF Sample, lat, lon
      <3> QED BY <3>1, <3>2 DEF IInv
    <2>2. CASE request.kind = "grid"
      <3>1. point \in 0 .. Points(request) - 1
        BY <1>2
      <3>2. NativeReads(lat, lon) \subseteq listed
        BY <1>1, <2>2, <3>1, NativeIsListed DEF InHand, Listed
      <3>3. read' = read \union NativeReads(lat, lon)
        BY <2>2 DEF Sample
      <3> QED BY <3>2, <3>3 DEF IInv
    <2> QED BY <1>1, <2>1, <2>2, RequestEdges
  <1>5. InHand'
    <2>1. point' \in 0 .. Points(request)
      BY <1>2 DEF Sample
    <2> QED BY <1>1, <2>1 DEF Sample, InHand
  <1> QED BY <1>4, <1>5 DEF Sample, IInv

(* Every step keeps the invariant.                                         *)
LEMMA IInvNext ==
  ASSUME IInv, [Next]_vars
  PROVE IInv'
  <1>1. ASSUME NEW r \in Requests, Refuse(r) PROVE IInv'
    BY <1>1 DEF Refuse, IInv
  <1>2. CASE Answer
    BY <1>2 DEF Answer, IInv, InHand
  <1>3. CASE UNCHANGED vars
    BY <1>3 DEF vars, IInv, InHand
  <1> QED BY <1>1, <1>2, <1>3, AcceptPreserves, AveragePreserves, SamplePreserves DEF Next

(* The inductive invariant holds of every request. (fetchTile.)            *)
THEOREM Invariant == Spec => []IInv
  <1>1. IInv /\ [Next]_vars => IInv'
    BY IInvNext
  <1> QED BY IInvInit, <1>1, PTL DEF Spec

(* Cells are cells of the world and phases what they are documented to be. *)
(* (acquireTileSources, acquireGridSources, fetchTile, fetchAnalysisGrid.) *)
THEOREM TypeCorrect == Spec => []TypeOK
  <1>1. IInv => TypeOK
    BY ListedType DEF IInv, InHand, TypeOK
  <1> QED BY Invariant, <1>1, PTL

(* Whatever the pixel widths, margins and requests: a tile or a grid reads *)
(* no cell that its acquisition did not list.  (acquireTileSources and     *)
(* accumulateAreaAverages, sample; acquireGridSources and sampleNative.)   *)
THEOREM ReadsListed == Spec => []ReadsAreListed
  <1>1. IInv => ReadsAreListed
    BY DEF IInv, ReadsAreListed
  <1> QED BY Invariant, <1>1, PTL

(* The world has finitely many cells.                                      *)
LEMMA CellsAreFinite == IsFiniteSet(Cells)
  <1>1. IsFiniteSet(-Pole .. Pole - 1) /\ IsFiniteSet(-HalfTurn .. HalfTurn - 1)
    <2>1. /\ -Pole \in Int /\ Pole - 1 \in Int
          /\ -HalfTurn \in Int /\ HalfTurn - 1 \in Int
      BY World
    <2> QED BY <2>1, FS_Interval
  <1> QED BY <1>1, FS_Product DEF Cells

(* However many cells exist, no grid opens more than the cap.              *)
(* (fetchAnalysisGrid: the check against MaximumAnalysisGridSourceCells is *)
(* made on the list.)                                                      *)
THEOREM OpenCellsBounded == Spec => []OpenCellsAreBounded
  <1>1. IInv => OpenCellsAreBounded
    <2> SUFFICES ASSUME IInv, phase # "idle", request.kind = "grid"
                 PROVE Cardinality(read) <= MaxGridCells
      BY DEF OpenCellsAreBounded
    <2>1. CASE phase \in {"fetching", "answered"}
      <3>1. /\ request \in Requests /\ ~TooLarge(request)
            /\ read \subseteq GridCells(request)
        BY <2>1 DEF IInv, InHand, Listed
      <3>2. IsFiniteSet(GridCells(request))
        BY <3>1, CellsAreFinite, GridCellsType, FS_Subset
      <3>3. /\ Cardinality(read) <= Cardinality(GridCells(request))
            /\ Cardinality(read) \in Nat /\ Cardinality(GridCells(request)) \in Nat
        <4>1. IsFiniteSet(read)
          BY <3>1, <3>2, FS_Subset
        <4> QED BY <3>1, <3>2, <4>1, FS_Subset, FS_CardinalityType
      <3>4. Cardinality(GridCells(request)) <= MaxGridCells
        BY <3>1, <3>3, RasterAssumption DEF TooLarge
      <3> QED BY <3>3, <3>4, RasterAssumption
    <2>2. CASE phase = "refused"
      <3>1. read = {}
        BY <2>2 DEF IInv
      <3> QED BY <3>1, FS_EmptySet, RasterAssumption
    <2> QED BY <2>1, <2>2 DEF IInv
  <1> QED BY Invariant, <1>1, PTL

(* Only grids have native samples, and a pixel is the last one's.          *)
PixelInHand ==
  /\ pixel # None => InHand /\ request.kind = "grid" /\ point > 0
  /\ NativeIsNearest

(* Every native sample of every grid is the nearest pixel, whatever the    *)
(* pixel widths and the borders of cells it lies at.  (sampleNative.)      *)
THEOREM NativeSamplesNearest == Spec => []NativeIsNearest
  <1>1. Init => PixelInHand
    BY DEF Init, PixelInHand, NativeIsNearest
  <1>2. IInv /\ PixelInHand /\ [Next]_vars => PixelInHand'
    <2> SUFFICES ASSUME IInv, PixelInHand, [Next]_vars PROVE PixelInHand'
      OBVIOUS
    <2>1. ASSUME NEW r \in Requests, Accept(r) \/ Refuse(r) PROVE PixelInHand'
      BY <2>1 DEF Accept, Refuse, PixelInHand, NativeIsNearest
    <2>2. ASSUME NEW c \in left, AverageCell(c) PROVE PixelInHand'
      <3>1. request.kind = "average"
        BY <2>2 DEF IInv, InHand, AverageCell
      <3>2. pixel' = None
        BY <2>2, <3>1 DEF AverageCell, PixelInHand
      <3> QED BY <3>2 DEF PixelInHand, NativeIsNearest
    <2>3. CASE Sample
      <3>1. InHand /\ phase = "fetching"
        BY <2>3 DEF IInv, Sample
      <3>2. InHand'
        BY <2>3, <3>1, SamplePreserves DEF IInv, Sample
      <3>3. CASE request.kind # "grid"
        <4>1. pixel' = None
          BY <2>3, <3>3 DEF Sample, PixelInHand
        <4> QED BY <4>1 DEF PixelInHand, NativeIsNearest
      <3>4. CASE request.kind = "grid"
        <4>1. /\ request \in Requests /\ point \in 0 .. Points(request) - 1
              /\ point \in Nat /\ point' = point + 1 /\ request' = request
          <5>1. request \in Requests /\ Points(request) \in Nat
            BY <3>1, PointsType DEF InHand
          <5> QED BY <2>3, <3>1, <5>1 DEF InHand, Sample
        <4>2. pixel' = NativePixel(LatitudeOf(request, point), LongitudeOf(request, point))
          BY <2>3, <3>4 DEF Sample
        <4>3. point' - 1 = point /\ point' > 0
          BY <4>1
        <4>4. NativeIsNearest'
          BY <3>4, <4>1, <4>2, <4>3, NativeIsNear DEF NativeIsNearest
        <4> QED BY <3>2, <3>4, <4>1, <4>3, <4>4 DEF PixelInHand
      <3> QED BY <3>3, <3>4
    <2>4. CASE Answer \/ UNCHANGED vars
      BY <2>4 DEF Answer, vars, PixelInHand, NativeIsNearest, InHand
    <2> QED BY <2>1, <2>2, <2>3, <2>4 DEF Next
  <1>3. PixelInHand => NativeIsNearest
    BY DEF PixelInHand
  <1> QED BY Invariant, <1>1, <1>2, <1>3, PTL DEF Spec


-----------------------------------------------------------------------------
(* Area averages.  A box weight is a number of square ticks; one cell adds *)
(* those that the cell owns, each once, because the runs of visitWindow    *)
(* meet each of its pixels once and footprints do not overlap.             *)

(* Half a pixel is a whole number of ticks.                                *)
LEMMA HalfPixel ==
  ASSUME NEW c \in Nat \ {0}, NEW t \in Nat \ {0}, t % (2 * c) = 0
  PROVE /\ t \div c \in Nat \ {0} /\ (t \div c) * c = t
        /\ t \div (2 * c) \in Nat \ {0} /\ 2 * (t \div (2 * c)) = t \div c
  <1> DEFINE size == t \div c
             half == t \div (2 * c)
  <1>1. /\ size \in Int /\ c * size = t /\ 2 * half = size
    <2>1. t \in Int
      OBVIOUS
    <2>2. /\ c * (t \div c) = t /\ 2 * ((t \div c) \div 2) = t \div c
          /\ (t \div c) \div 2 = t \div (2 * c)
      BY <2>1, Halves
    <2> QED BY <2>1, <2>2, DivBounds
  <1>2. half \in Int
    <2>1. 2 * c \in Nat \ {0}
      OBVIOUS
    <2> QED BY <2>1, DivBounds
  <1> HIDE DEF size, half
  <1>3. t * c >= t
    BY SMTT(20)
  <1>4. size > 0 /\ size * c = t
    BY <1>1, <1>3, Factor
  <1> QED BY <1>1, <1>2, <1>4 DEF size, half

(* Half pixel columns and rows.                                            *)
LEMMA HalfPixels ==
  /\ \A s \in Souths :
       /\ Columns[s] \in Nat \ {0}
       /\ Ticks \div Columns[s] \in Nat \ {0} /\ (Ticks \div Columns[s]) * Columns[s] = Ticks
       /\ Ticks \div (2 * Columns[s]) \in Nat \ {0}
       /\ 2 * (Ticks \div (2 * Columns[s])) = Ticks \div Columns[s]
       /\ 2 * HalfColumn * Columns[s] >= Ticks => Ticks \div (2 * Columns[s]) <= HalfColumn
  /\ Rows \in Nat \ {0}
  /\ Ticks \div Rows \in Nat \ {0} /\ (Ticks \div Rows) * Rows = Ticks
  /\ Ticks \div (2 * Rows) \in Nat \ {0} /\ 2 * (Ticks \div (2 * Rows)) = Ticks \div Rows
  /\ Ticks \div (2 * Rows) = HalfRow
  <1>1. ASSUME NEW s \in Souths
        PROVE  /\ Columns[s] \in Nat \ {0}
               /\ Ticks \div Columns[s] \in Nat \ {0} /\ (Ticks \div Columns[s]) * Columns[s] = Ticks
               /\ Ticks \div (2 * Columns[s]) \in Nat \ {0}
               /\ 2 * (Ticks \div (2 * Columns[s])) = Ticks \div Columns[s]
               /\ 2 * HalfColumn * Columns[s] >= Ticks =>
                    Ticks \div (2 * Columns[s]) <= HalfColumn
    <2> DEFINE P == Columns[s]
               m == 2 * HalfColumn
               width == Ticks \div P
               half == Ticks \div (2 * P)
    <2>1. P \in Nat \ {0} /\ Ticks % (2 * P) = 0 /\ HalfColumn \in Nat
          /\ Ticks \in Nat \ {0}
      BY RasterAssumption, MarginAssumption DEF Souths
    <2> HIDE DEF P
    <2>2. width \in Nat \ {0} /\ width * P = Ticks /\ half \in Nat \ {0} /\ 2 * half = width
      BY <2>1, HalfPixel
    <2> HIDE DEF width, half, m
    <2>3. P * width = Ticks /\ m \in Nat
      BY <2>1, <2>2, SMTT(20) DEF m
    <2>4. m * P >= Ticks => width <= m
      BY <2>1, <2>2, <2>3, Factor
    <2>5. m * P >= Ticks => half <= HalfColumn
      BY <2>1, <2>2, <2>4 DEF m
    <2> QED BY <2>1, <2>2, <2>5 DEF P, width, half, m
  <1>2. /\ Rows \in Nat \ {0}
        /\ Ticks \div Rows \in Nat \ {0} /\ (Ticks \div Rows) * Rows = Ticks
        /\ Ticks \div (2 * Rows) \in Nat \ {0} /\ 2 * (Ticks \div (2 * Rows)) = Ticks \div Rows
    <2>1. Rows \in Nat \ {0} /\ Ticks \in Nat \ {0} /\ Ticks % (2 * Rows) = 0
      BY RasterAssumption
    <2> QED BY <2>1, HalfPixel
  <1>3. Ticks \div (2 * Rows) = HalfRow
    <2>1. 2 * HalfRow * Rows = Ticks /\ HalfRow \in Nat
      BY MarginAssumption
    <2>2. 2 * Rows \in Nat \ {0} /\ (2 * Rows) * HalfRow = Ticks /\ Ticks \in Int
      BY <1>2, <2>1, World, SMTT(20)
    <2> QED BY <2>1, <2>2, DivIs
  <1> QED BY <1>1, <1>2, <1>3

(* Position u of an axis lies in pixel m.                                  *)
InPixel(u, size, m) == m * size <= u /\ u < m * size + size

(* Along one axis of a cell: which pixel a tick belongs to.                *)
LEMMA PixelOf ==
  ASSUME NEW size \in Nat \ {0}, NEW count \in Nat \ {0}, NEW t \in Nat \ {0},
         size * count = t, NEW u \in Int
  PROVE /\ \A m, n \in Int : InPixel(u, size, m) /\ InPixel(u, size, n) => m = n
        /\ \A m \in 0 .. count - 1 : InPixel(u, size, m) => u \in 0 .. t - 1
        /\ u \in 0 .. t - 1 => \E m \in 0 .. count - 1 : InPixel(u, size, m)
  <1>1. \A m \in Int : m * size = size * m /\ m * size \in Int
    BY SMTT(20)
  <1>2. ASSUME NEW m \in Int, InPixel(u, size, m)
        PROVE  u \div size = m
    <2>1. size * m <= u /\ u < size * m + size
      BY <1>1, <1>2 DEF InPixel
    <2> QED BY <2>1, DivIs
  <1>3. ASSUME NEW m \in Int, NEW n \in Int, InPixel(u, size, m), InPixel(u, size, n)
        PROVE  m = n
    <2>1. u \div size = m
      BY <1>2, <1>3
    <2>2. u \div size = n
      BY <1>2, <1>3
    <2> QED BY <2>1, <2>2, Zenon
  <1>4. /\ 0 * size = 0 /\ count * size = t
        /\ \A a, b \in Int : a <= b => a * size <= b * size
        /\ \A a \in Int : (a + 1) * size = a * size + size
    BY SMTT(20)
  <1>5. ASSUME NEW m \in 0 .. count - 1, InPixel(u, size, m)
        PROVE  u \in 0 .. t - 1
    <2>1. m \in Int /\ m + 1 \in Int /\ count \in Int /\ m + 1 <= count /\ 0 <= m
      OBVIOUS
    <2>2. 0 * size <= m * size /\ (m + 1) * size <= count * size
          /\ (m + 1) * size = m * size + size /\ m * size \in Int
      BY <1>1, <1>4, <2>1
    <2> QED BY <1>4, <1>5, <2>2 DEF InPixel
  <1>6. ASSUME u \in 0 .. t - 1
        PROVE  \E m \in 0 .. count - 1 : InPixel(u, size, m)
    <2> DEFINE q == u \div size
    <2>1. q \in Int /\ size * q <= u /\ u < size * q + size
      BY DivBounds
    <2> HIDE DEF q
    <2>2. q * size <= u /\ u < q * size + size /\ q * size \in Int
      BY <1>1, <2>1
    <2>3. q < count
      <3>1. count <= q => t <= q * size
        BY <1>4, <2>1
      <3> QED BY <1>6, <2>1, <2>2, <3>1
    <2>4. q >= 0
      <3>1. q <= -1 => q * size <= (-1) * size
        BY <1>4, <2>1, -1 \in Int
      <3>2. (-1) * size = -size
        OBVIOUS
      <3> QED BY <1>6, <2>1, <2>2, <3>1, <3>2
    <2>5. q \in 0 .. count - 1
      BY <2>1, <2>3, <2>4
    <2> QED BY <2>2, <2>5 DEF InPixel
  <1> QED BY <1>3, <1>5, <1>6

(* The pixel range of a window holds every pixel with a tick in it.        *)
LEMMA AxisRange ==
  ASSUME NEW size \in Nat \ {0}, NEW count \in Nat \ {0}, NEW t \in Nat \ {0}, NEW half \in Nat,
         size * count = t, 2 * half = size, NEW lo \in Int, NEW hi \in Int,
         NEW u \in Int, lo + half <= u, u <= hi + half - 1,
         NEW q \in 0 .. count - 1, InPixel(u, size, q)
  PROVE q \in Max({0, (2 * lo * count - t) \div (2 * t) + 1})
               .. Min({count - 1, (2 * hi * count + t - 1) \div (2 * t)})
  <1> DEFINE below == 2 * lo * count - t
             above == 2 * hi * count + t - 1
             first == below \div (2 * t)
             last == above \div (2 * t)
             y == 2 * q * t
  <1>1. q \in Int /\ 2 * t \in Nat \ {0}
    OBVIOUS
  <1>2. below \in Int /\ above \in Int /\ y \in Int
    BY <1>1, SMTT(20)
  <1>3. /\ first \in Int /\ (2 * t) * first <= below
        /\ last \in Int /\ above < (2 * t) * last + 2 * t
    <2> HIDE DEF below, above
    <2> QED BY <1>1, <1>2, DivBounds
  <1>4. \A a, b \in Int : a <= b => a * count <= b * count
    BY SMTT(20)
  <1> DEFINE z == q * size
  <1>5. z \in Int /\ z * count = q * t
    <2>1. z \in Int
      BY <1>1, SMTT(20)
    <2>2. (q * size) * count = q * (size * count)
      BY <1>1, SMTT(20)
    <2> QED BY <2>1, <2>2
  <1>6. 2 * lo + 1 <= 2 * z + size /\ 2 * z + 2 <= 2 * hi + size
    BY <1>5 DEF InPixel
  <1> HIDE DEF z
  <1>7. below < y
    <2>1. (2 * lo + 1) * count <= (2 * z + size) * count
      BY <1>4, <1>5, <1>6
    <2>2. /\ (2 * lo + 1) * count = 2 * lo * count + count
          /\ (2 * z + size) * count = 2 * (z * count) + size * count
          /\ z * count \in Int
      BY <1>5, SMTT(20)
    <2>3. 2 * (q * t) = 2 * q * t /\ q * t \in Int /\ 2 * lo * count \in Int
      BY <1>1, SMTT(20)
    <2> QED BY <1>5, <2>1, <2>2, <2>3
  <1>8. y <= above
    <2>1. (2 * z + 2) * count <= (2 * hi + size) * count
      BY <1>4, <1>5, <1>6
    <2>2. /\ (2 * z + 2) * count = 2 * (z * count) + 2 * count
          /\ (2 * hi + size) * count = 2 * hi * count + size * count
          /\ z * count \in Int
      BY <1>5, SMTT(20)
    <2>3. 2 * (q * t) = 2 * q * t /\ q * t \in Int /\ 2 * hi * count \in Int
      BY <1>1, SMTT(20)
    <2> QED BY <1>5, <2>1, <2>2, <2>3
  <1>9. /\ \A a, b \in Int : a <= b => (2 * t) * a <= (2 * t) * b
        /\ y = (2 * t) * q /\ (2 * t) * (last + 1) = (2 * t) * last + 2 * t
        /\ (2 * t) * last \in Int /\ (2 * t) * first \in Int
    <2> HIDE DEF first, last
    <2> QED BY <1>1, <1>3, SMTT(20)
  <1> HIDE DEF first, last, y, below, above
  <1>10. first < q
    BY <1>1, <1>2, <1>3, <1>7, <1>9
  <1>11. q <= last
    <2>1. last + 1 <= q => (2 * t) * (last + 1) <= y
      BY <1>1, <1>3, <1>9, last + 1 \in Int
    <2> QED BY <1>1, <1>2, <1>3, <1>8, <1>9, <2>1
  <1>12. Max({0, first + 1}) \in Int /\ Max({0, first + 1}) <= q
    <2>1. Max({0, first + 1}) \in Int /\ (Max({0, first + 1}) = 0 \/ Max({0, first + 1}) = first + 1)
      BY <1>3, MaxOfTwo, 0 \in Int, first + 1 \in Int
    <2> QED BY <1>1, <1>3, <1>10, <2>1
  <1>13. Min({count - 1, last}) \in Int /\ q <= Min({count - 1, last})
    <2>1. /\ Min({count - 1, last}) \in Int
          /\ Min({count - 1, last}) = count - 1 \/ Min({count - 1, last}) = last
      BY <1>3, MinOfTwo, count - 1 \in Int
    <2> QED BY <1>1, <1>3, <1>11, <2>1
  <1> QED BY <1>1, <1>12, <1>13 DEF first, last, below, above


(* Pixel columns and rows of a cell, with its longitude unwrapped; rows    *)
(* count from the north.                                                   *)
Unwrapped == Souths \X Int
ColumnOffset(c, x) == x - c[2] * Ticks + Ticks \div (2 * Columns[c[1]])
RowOffset(c, y) == (c[1] + 1) * Ticks + Ticks \div (2 * Rows) - 1 - y
InColumn(c, x, column) == InPixel(ColumnOffset(c, x), Ticks \div Columns[c[1]], column)
InRow(c, y, row) == InPixel(RowOffset(c, y), Ticks \div Rows, row)

(* What they are, one by one.                                              *)
LEMMA UnwrappedType ==
  ASSUME NEW c \in Unwrapped
  PROVE c[1] \in Souths /\ c[2] \in Int /\ c = <<c[1], c[2]>> /\ c[1] \in Int
  <1>1. c[1] \in Souths /\ c[2] \in Int /\ c = <<c[1], c[2]>>
    BY DEF Unwrapped
  <1> QED BY <1>1, World

(* The edges of the boxes are in order.                                    *)
LEMMA EdgesOrdered ==
  ASSUME NEW r \in Requests, NEW i \in 0 .. r.n + 1, NEW j \in 0 .. r.n + 1, i <= j
  PROVE /\ LongitudeEdge(r, i) \in Int /\ LongitudeEdge(r, j) \in Int
        /\ LatitudeEdge(r, i) \in Int /\ LatitudeEdge(r, j) \in Int
        /\ LongitudeEdge(r, i) <= LongitudeEdge(r, j)
        /\ LatitudeEdge(r, j) <= LatitudeEdge(r, i)
  <1> DEFINE a == StepX(r)
             b == StepY(r)
  <1>1. /\ i \in Int /\ j \in Int /\ a \in Int /\ b \in Int /\ a >= 0 /\ b >= 0
        /\ a \div 2 \in Int /\ b \div 2 \in Int
        /\ r.west \in Int /\ r.north \in Int
    BY RequestEdges, Spacings
  <1> HIDE DEF a, b
  <1>2. /\ i * a \in Int /\ j * a \in Int /\ i * a <= j * a
        /\ i * b \in Int /\ j * b \in Int /\ i * b <= j * b
    BY <1>1, SMTT(20)
  <1>3. /\ LongitudeEdge(r, i) = r.west + i * a - a \div 2
        /\ LongitudeEdge(r, j) = r.west + j * a - a \div 2
        /\ LatitudeEdge(r, i) = r.north - i * b + b \div 2
        /\ LatitudeEdge(r, j) = r.north - j * b + b \div 2
    BY DEF LongitudeEdge, LatitudeEdge, a, b
  <1> QED BY <1>1, <1>2, <1>3

(* The ticks of an overlap.                                                *)
LEMMA OverlapIs ==
  ASSUME NEW low1 \in Int, NEW high1 \in Int, NEW low2 \in Int, NEW high2 \in Int, NEW x \in Int
  PROVE x \in Overlap(low1, high1, low2, high2)
          <=> low1 <= x /\ x < high1 /\ low2 <= x /\ x < high2
  <1> DEFINE a == Max({low1, low2})
             b == Min({high1, high2})
  <1>1. a \in Int /\ a >= low1 /\ a >= low2 /\ (a = low1 \/ a = low2)
    BY MaxOfTwo
  <1>2. b \in Int /\ b <= high1 /\ b <= high2 /\ (b = high1 \/ b = high2)
    BY MinOfTwo
  <1>3. Overlap(low1, high1, low2, high2) = a .. b - 1
    BY DEF Overlap
  <1> HIDE DEF a, b
  <1> QED BY <1>1, <1>2, <1>3

(* The search for the first box column of a pixel column skips only boxes  *)
(* that end before it.                                                     *)
LEMMA ColumnSearch ==
  ASSUME NEW r \in Requests, NEW low \in Int, NEW box \in 0 .. r.n,
         box < Max({Cardinality({e \in 0 .. r.n + 1 : LongitudeEdge(r, e) <= low}) - 1, 0})
  PROVE LongitudeEdge(r, box + 1) <= low
  <1> DEFINE E == {e \in 0 .. r.n + 1 : LongitudeEdge(r, e) <= low}
  <1>1. r.n \in Nat /\ box \in Int /\ box + 1 \in 0 .. r.n + 1
    BY RequestEdges
  <1> SUFFICES ASSUME ~(LongitudeEdge(r, box + 1) <= low) PROVE FALSE
    OBVIOUS
  <1>2. ASSUME NEW e \in E PROVE e \in 0 .. box
    <2>1. e \in Int /\ e \in 0 .. r.n + 1 /\ LongitudeEdge(r, e) <= low
      BY <1>1
    <2>2. CASE box + 1 <= e
      <3>1. /\ LongitudeEdge(r, box + 1) \in Int /\ LongitudeEdge(r, e) \in Int
            /\ LongitudeEdge(r, box + 1) <= LongitudeEdge(r, e)
        BY <1>1, <2>1, <2>2, EdgesOrdered
      <3> QED BY <2>1, <3>1
    <2> QED BY <1>1, <2>1, <2>2
  <1>3. IsFiniteSet(0 .. box) /\ Cardinality(0 .. box) = box + 1
    BY <1>1, FS_Interval
  <1>4. Cardinality(E) <= box + 1 /\ Cardinality(E) \in Nat
    <2>1. E \in SUBSET (0 .. box)
      BY <1>2
    <2> HIDE DEF E
    <2> QED BY <1>3, <2>1, FS_Subset, FS_CardinalityType
  <1>5. box < Max({Cardinality(E) - 1, 0})
    OBVIOUS
  <1> HIDE DEF E
  <1>6. /\ Max({Cardinality(E) - 1, 0}) \in Int
        /\ Max({Cardinality(E) - 1, 0}) = Cardinality(E) - 1 \/ Max({Cardinality(E) - 1, 0}) = 0
    BY <1>4, MaxOfTwo, Cardinality(E) - 1 \in Int, 0 \in Int
  <1> QED BY <1>1, <1>4, <1>5, <1>6

(* The same for rows, whose boxes come from the north.                     *)
LEMMA RowSearch ==
  ASSUME NEW r \in Requests, NEW high \in Int, NEW box \in 0 .. r.n,
         box < Cardinality({b \in 0 .. r.n : LatitudeEdge(r, b + 1) >= high})
  PROVE LatitudeEdge(r, box + 1) >= high
  <1> DEFINE B == {b \in 0 .. r.n : LatitudeEdge(r, b + 1) >= high}
  <1>1. r.n \in Nat /\ box \in Int /\ box + 1 \in 0 .. r.n + 1
    BY RequestEdges
  <1> SUFFICES ASSUME ~(LatitudeEdge(r, box + 1) >= high) PROVE FALSE
    OBVIOUS
  <1>2. ASSUME NEW b \in B PROVE b \in 0 .. box - 1
    <2>1. b \in Int /\ 0 <= b /\ b + 1 \in 0 .. r.n + 1 /\ LatitudeEdge(r, b + 1) >= high
      BY <1>1
    <2>2. CASE box <= b
      <3>1. box + 1 <= b + 1
        BY <1>1, <2>1, <2>2
      <3>2. /\ LatitudeEdge(r, box + 1) \in Int /\ LatitudeEdge(r, b + 1) \in Int
            /\ LatitudeEdge(r, b + 1) <= LatitudeEdge(r, box + 1)
        BY <1>1, <2>1, <3>1, EdgesOrdered
      <3> QED BY <2>1, <3>2
    <2> QED BY <1>1, <2>1, <2>2
  <1> DEFINE m == box - 1
  <1>3. m \in Int /\ m >= -1 /\ m + 1 = box
    BY <1>1
  <1>4. Cardinality(B) <= box /\ Cardinality(B) \in Nat
    <2>1. B \in SUBSET (0 .. m)
      BY <1>2
    <2> HIDE DEF B, m
    <2>2. IsFiniteSet(0 .. m) /\ Cardinality(0 .. m) = IF 0 > m THEN 0 ELSE m - 0 + 1
      BY <1>3, FS_Interval, 0 \in Int
    <2>3. Cardinality(0 .. m) = box
      BY <1>3, <2>2
    <2>4. Cardinality(B) <= Cardinality(0 .. m) /\ IsFiniteSet(B)
      BY <2>1, <2>2, FS_Subset
    <2>5. Cardinality(B) \in Nat
      BY <2>4, FS_CardinalityType
    <2> QED BY <2>3, <2>4, <2>5
  <1>5. box < Cardinality(B)
    OBVIOUS
  <1> HIDE DEF B
  <1> QED BY <1>1, <1>4, <1>5

(* A pixel column and a box column overlap where they have ticks in common. *)
LEMMA ColumnOverlapIs ==
  ASSUME NEW r \in Requests, NEW c \in Unwrapped, NEW column \in Int, NEW box \in 0 .. r.n
  PROVE /\ ColumnOverlap(r, c, column, box) \subseteq Int
        /\ \A x \in Int : x \in ColumnOverlap(r, c, column, box) <=>
             /\ x \in LongitudeEdge(r, box) .. LongitudeEdge(r, box + 1) - 1
             /\ InColumn(c, x, column)
  <1> DEFINE width == Ticks \div Columns[c[1]]
             half == Ticks \div (2 * Columns[c[1]])
             low == c[2] * Ticks + (2 * column - 1) * half
             high == low + width
             upTo == Cardinality({e \in 0 .. r.n + 1 : LongitudeEdge(r, e) <= low})
             e1 == LongitudeEdge(r, box)
             e2 == LongitudeEdge(r, box + 1)
             found == box >= Max({upTo - 1, 0}) /\ e1 < high
  <1>1. c[1] \in Souths /\ c[2] \in Int /\ c[2] * Ticks \in Int
    BY Degrees DEF Unwrapped
  <1>2. width \in Nat \ {0} /\ half \in Nat \ {0} /\ 2 * half = width
    BY <1>1, HalfPixels
  <1>3. /\ (2 * column - 1) * half = column * width - half /\ column * width \in Int
        /\ (2 * column - 1) * half \in Int
    <2> HIDE DEF width, half
    <2>1. (2 * column - 1) * half = column * (2 * half) - half
      BY <1>2, SMTT(20)
    <2>2. column * width \in Int
      BY <1>2, SMTT(20)
    <2> QED BY <1>2, <2>1, <2>2
  <1>4. low \in Int /\ low = c[2] * Ticks + column * width - half /\ high \in Int
    BY <1>1, <1>2, <1>3
  <1>5. e1 \in Int /\ e2 \in Int
    <2>1. box \in 0 .. r.n + 1 /\ box + 1 \in 0 .. r.n + 1 /\ box <= box + 1
      BY RequestEdges
    <2> QED BY <2>1, EdgesOrdered
  <1>6. ColumnOverlap(r, c, column, box)
          = IF found THEN Overlap(low, high, e1, e2) ELSE {}
    BY DEF ColumnOverlap
  <1>7. ASSUME NEW x \in Int
        PROVE  InColumn(c, x, column) <=> low <= x /\ x < high
    <2>1. InColumn(c, x, column) <=>
            /\ column * width <= x - c[2] * Ticks + half
            /\ x - c[2] * Ticks + half < column * width + width
      BY DEF InColumn, InPixel, ColumnOffset
    <2>2. high = c[2] * Ticks + column * width - half + width
      BY <1>4
    <2> HIDE DEF low, high, width, half
    <2> QED BY <1>1, <1>2, <1>3, <1>4, <2>1, <2>2
  <1>8. ~found => e2 <= low \/ high <= e1
    <2>1. CASE box >= Max({upTo - 1, 0})
      <3> HIDE DEF e1, high
      <3> QED BY <1>4, <1>5, <2>1
    <2>2. CASE ~(box >= Max({upTo - 1, 0}))
      <3>1. box < Max({upTo - 1, 0})
        <4>1. upTo \in Nat
          <5>1. IsFiniteSet(0 .. r.n + 1)
            BY FS_Interval, RequestEdges, 0 \in Int, r.n + 1 \in Int
          <5> QED BY <5>1, FS_Subset, FS_CardinalityType
        <4> HIDE DEF upTo
        <4>2. Max({upTo - 1, 0}) \in Int
          BY <4>1, MaxOfTwo, upTo - 1 \in Int, 0 \in Int
        <4> QED BY <2>2, <4>2, RequestEdges
      <3> HIDE DEF low
      <3> QED BY <1>4, <3>1, ColumnSearch
    <2> QED BY <2>1, <2>2
  <1> HIDE DEF low, high, found, e1, e2
  <1>9. ASSUME NEW x \in Int
        PROVE  x \in ColumnOverlap(r, c, column, box)
                 <=> x \in e1 .. e2 - 1 /\ InColumn(c, x, column)
    <2>1. x \in e1 .. e2 - 1 <=> e1 <= x /\ x < e2
      BY <1>5
    <2>2. CASE found
      <3>1. x \in Overlap(low, high, e1, e2) <=> low <= x /\ x < high /\ e1 <= x /\ x < e2
        BY <1>4, <1>5, OverlapIs
      <3> QED BY <1>6, <1>7, <2>1, <2>2, <3>1
    <2>3. CASE ~found
      <3>1. ~(low <= x /\ x < high /\ e1 <= x /\ x < e2)
        BY <1>4, <1>5, <1>8, <2>3
      <3> QED BY <1>6, <1>7, <2>1, <2>3, <3>1
    <2> QED BY <2>2, <2>3
  <1>10. ColumnOverlap(r, c, column, box) \subseteq Int
    <2>1. Max({low, e1}) \in Int /\ Min({high, e2}) \in Int
      BY <1>4, <1>5, MaxOfTwo, MinOfTwo
    <2> QED BY <1>6, <2>1 DEF Overlap
  <1> QED BY <1>9, <1>10 DEF e1, e2

(* The same for rows.                                                      *)
LEMMA RowOverlapIs ==
  ASSUME NEW r \in Requests, NEW c \in Unwrapped, NEW row \in Int, NEW box \in 0 .. r.n
  PROVE /\ RowOverlap(r, c, row, box) \subseteq Int
        /\ \A y \in Int : y \in RowOverlap(r, c, row, box) <=>
             /\ y \in LatitudeEdge(r, box + 1) .. LatitudeEdge(r, box) - 1
             /\ InRow(c, y, row)
  <1> DEFINE height == Ticks \div Rows
             half == Ticks \div (2 * Rows)
             top == (c[1] + 1) * Ticks
             high == top - (2 * row - 1) * half
             low == high - height
             passed == Cardinality({b \in 0 .. r.n : LatitudeEdge(r, b + 1) >= high})
             e1 == LatitudeEdge(r, box)
             e2 == LatitudeEdge(r, box + 1)
             found == box >= passed /\ e1 > low
  <1>1. top \in Int
    <2>1. c[1] + 1 \in Int
      BY UnwrappedType
    <2> QED BY <2>1, Degrees
  <1>2. height \in Nat \ {0} /\ half \in Nat \ {0} /\ 2 * half = height
    BY HalfPixels
  <1>3. /\ (2 * row - 1) * half = row * height - half /\ row * height \in Int
        /\ (2 * row - 1) * half \in Int
    <2> HIDE DEF height, half
    <2>1. (2 * row - 1) * half = row * (2 * half) - half
      BY <1>2, SMTT(20)
    <2>2. row * height \in Int
      BY <1>2, SMTT(20)
    <2> QED BY <1>2, <2>1, <2>2
  <1>4. high \in Int /\ high = top - row * height + half /\ low \in Int /\ low = high - height
    <2> HIDE DEF top
    <2> QED BY <1>1, <1>2, <1>3
  <1>5. e1 \in Int /\ e2 \in Int
    <2>1. box \in 0 .. r.n + 1 /\ box + 1 \in 0 .. r.n + 1 /\ box <= box + 1
      BY RequestEdges
    <2> QED BY <2>1, EdgesOrdered
  <1>6. RowOverlap(r, c, row, box)
          = IF found THEN Overlap(low, high, e2, e1) ELSE {}
    BY DEF RowOverlap
  <1>7. ASSUME NEW y \in Int
        PROVE  InRow(c, y, row) <=> low <= y /\ y < high
    <2>1. InRow(c, y, row) <=>
            /\ row * height <= top + half - 1 - y
            /\ top + half - 1 - y < row * height + height
      BY DEF InRow, InPixel, RowOffset
    <2> HIDE DEF low, high, height, half, top
    <2> QED BY <1>1, <1>2, <1>3, <1>4, <2>1
  <1>8. ~found => high <= e2 \/ e1 <= low
    <2>1. CASE box >= passed
      <3> HIDE DEF e1, low
      <3> QED BY <1>4, <1>5, <2>1
    <2>2. CASE ~(box >= passed)
      <3>1. box < passed
        <4>1. passed \in Nat
          <5>1. IsFiniteSet(0 .. r.n)
            BY FS_Interval, RequestEdges, 0 \in Int, r.n \in Int
          <5> QED BY <5>1, FS_Subset, FS_CardinalityType
        <4> HIDE DEF passed
        <4> QED BY <2>2, <4>1, RequestEdges
      <3>2. e2 >= high
        <4> HIDE DEF high
        <4> QED BY <1>4, <3>1, RowSearch
      <3> HIDE DEF e2, high
      <3> QED BY <1>4, <1>5, <3>2
    <2> QED BY <2>1, <2>2
  <1> HIDE DEF low, high, found, e1, e2
  <1>9. ASSUME NEW y \in Int
        PROVE  y \in RowOverlap(r, c, row, box)
                 <=> y \in e2 .. e1 - 1 /\ InRow(c, y, row)
    <2>1. y \in e2 .. e1 - 1 <=> e2 <= y /\ y < e1
      BY <1>5
    <2>2. CASE found
      <3>1. y \in Overlap(low, high, e2, e1) <=> low <= y /\ y < high /\ e2 <= y /\ y < e1
        BY <1>4, <1>5, OverlapIs
      <3> QED BY <1>6, <1>7, <2>1, <2>2, <3>1
    <2>3. CASE ~found
      <3>1. ~(low <= y /\ y < high /\ e2 <= y /\ y < e1)
        BY <1>4, <1>5, <1>8, <2>3
      <3> QED BY <1>6, <1>7, <2>1, <2>3, <3>1
    <2> QED BY <2>2, <2>3
  <1>10. RowOverlap(r, c, row, box) \subseteq Int
    <2>1. Max({low, e2}) \in Int /\ Min({high, e1}) \in Int
      BY <1>4, <1>5, MaxOfTwo, MinOfTwo
    <2> QED BY <1>6, <2>1 DEF Overlap
  <1> QED BY <1>9, <1>10 DEF e1, e2


(* A degree holds the ticks from its start to the next.                    *)
LEMMA DegreeOf ==
  ASSUME NEW a \in Int, NEW q \in Int
  PROVE a \div Ticks = q <=> q * Ticks <= a /\ a < q * Ticks + Ticks
  <1>1. q * Ticks \in Int /\ Ticks * q = q * Ticks
    BY Degrees
  <1>2. a \div Ticks = q => Ticks * q <= a /\ a < Ticks * q + Ticks
    BY World, DivBounds
  <1>3. Ticks * q <= a /\ a < Ticks * q + Ticks => a \div Ticks = q
    BY World, DivIs
  <1> QED BY <1>1, <1>2, <1>3, Zenon

(* A square tick belongs to the cell that has a pixel at it.               *)
LEMMA OwnerIs ==
  ASSUME NEW c \in Unwrapped, NEW x \in Int, NEW y \in Int
  PROVE /\ ColumnOffset(c, x) \in Int /\ RowOffset(c, y) \in Int
        /\ Owner(x, y) = c <=>
             ColumnOffset(c, x) \in 0 .. Ticks - 1 /\ RowOffset(c, y) \in 0 .. Ticks - 1
  <1> DEFINE half == Ticks \div (2 * Rows)
             beside == Ticks \div (2 * Columns[c[1]])
             s == (y - half) \div Ticks
             w == (x + beside) \div Ticks
  <1>1. c[1] \in Souths /\ c[2] \in Int /\ c = <<c[1], c[2]>> /\ c[1] \in Int
    BY UnwrappedType
  <1>2. half \in Nat \ {0} /\ beside \in Nat \ {0} /\ Ticks \in Nat \ {0}
    BY <1>1, HalfPixels, World
  <1> HIDE DEF half, beside
  <1>3. /\ c[1] * Ticks \in Int /\ (c[1] + 1) * Ticks = c[1] * Ticks + Ticks
        /\ c[2] * Ticks \in Int
    BY <1>1, Degrees
  <1>4. /\ ColumnOffset(c, x) = x - c[2] * Ticks + beside
        /\ RowOffset(c, y) = (c[1] + 1) * Ticks + half - 1 - y
    BY DEF ColumnOffset, RowOffset, half, beside
  <1>5. ColumnOffset(c, x) \in Int /\ RowOffset(c, y) \in Int
    BY <1>2, <1>3, <1>4
  <1>6. s = c[1] <=> RowOffset(c, y) \in 0 .. Ticks - 1
    <2>1. y - half \in Int
      BY <1>2
    <2>2. s = c[1] <=> c[1] * Ticks <= y - half /\ y - half < c[1] * Ticks + Ticks
      BY <1>1, <2>1, DegreeOf
    <2>3. RowOffset(c, y) \in 0 .. Ticks - 1
            <=> c[1] * Ticks <= y - half /\ y - half < c[1] * Ticks + Ticks
      BY <1>2, <1>3, <1>4
    <2> QED BY <2>2, <2>3, Zenon
  <1>7. w = c[2] <=> ColumnOffset(c, x) \in 0 .. Ticks - 1
    <2>1. x + beside \in Int
      BY <1>2
    <2>2. w = c[2] <=> c[2] * Ticks <= x + beside /\ x + beside < c[2] * Ticks + Ticks
      BY <1>1, <2>1, DegreeOf
    <2>3. ColumnOffset(c, x) \in 0 .. Ticks - 1
            <=> c[2] * Ticks <= x + beside /\ x + beside < c[2] * Ticks + Ticks
      BY <1>2, <1>3, <1>4
    <2> QED BY <2>2, <2>3, Zenon
  <1>8. Owner(x, y) = <<s, (x + Ticks \div (2 * Columns[s])) \div Ticks>>
    BY DEF Owner, half
  <1>9. s = c[1] => Owner(x, y) = <<c[1], w>>
    BY <1>8 DEF beside
  <1>10. Owner(x, y) = c <=> s = c[1] /\ w = c[2]
    <2> HIDE DEF s, w
    <2>1. Owner(x, y)[1] = s
      BY <1>8
    <2>2. s = c[1] => Owner(x, y)[2] = w
      BY <1>9
    <2> QED BY <1>1, <1>9, <2>1, <2>2
  <1> QED BY <1>5, <1>6, <1>7, <1>10, Zenon

(* The pixels of a cell are apart, and hold the ticks that it owns.        *)
LEMMA PixelsOfCell ==
  ASSUME NEW c \in Unwrapped, NEW x \in Int, NEW y \in Int
  PROVE /\ \A m, n \in Int : InColumn(c, x, m) /\ InColumn(c, x, n) => m = n
        /\ \A m, n \in Int : InRow(c, y, m) /\ InRow(c, y, n) => m = n
        /\ \A m \in 0 .. Columns[c[1]] - 1, n \in 0 .. Rows - 1 :
             InColumn(c, x, m) /\ InRow(c, y, n) => Owner(x, y) = c
        /\ Owner(x, y) = c =>
             /\ \E m \in 0 .. Columns[c[1]] - 1 : InColumn(c, x, m)
             /\ \E n \in 0 .. Rows - 1 : InRow(c, y, n)
  <1> DEFINE u == ColumnOffset(c, x)
             v == RowOffset(c, y)
             P == Columns[c[1]]
             width == Ticks \div P
             height == Ticks \div Rows
  <1>1. /\ width \in Nat \ {0} /\ P \in Nat \ {0} /\ width * P = Ticks
        /\ height \in Nat \ {0} /\ Rows \in Nat \ {0} /\ height * Rows = Ticks
        /\ Ticks \in Nat \ {0}
    BY UnwrappedType, HalfPixels, World
  <1>2. u \in Int /\ v \in Int
        /\ (Owner(x, y) = c <=> u \in 0 .. Ticks - 1 /\ v \in 0 .. Ticks - 1)
    BY OwnerIs
  <1>3. /\ \A m : InColumn(c, x, m) <=> InPixel(u, width, m)
        /\ \A m : InRow(c, y, m) <=> InPixel(v, height, m)
    BY DEF InColumn, InRow
  <1> HIDE DEF u, v, width, height, P
  <1>4. /\ \A m, n \in Int : InPixel(u, width, m) /\ InPixel(u, width, n) => m = n
        /\ \A m \in 0 .. P - 1 : InPixel(u, width, m) => u \in 0 .. Ticks - 1
        /\ u \in 0 .. Ticks - 1 => \E m \in 0 .. P - 1 : InPixel(u, width, m)
    BY <1>1, <1>2, PixelOf
  <1>5. /\ \A m, n \in Int : InPixel(v, height, m) /\ InPixel(v, height, n) => m = n
        /\ \A m \in 0 .. Rows - 1 : InPixel(v, height, m) => v \in 0 .. Ticks - 1
        /\ v \in 0 .. Ticks - 1 => \E m \in 0 .. Rows - 1 : InPixel(v, height, m)
    BY <1>1, <1>2, PixelOf
  <1> QED BY <1>2, <1>3, <1>4, <1>5, Zenon DEF P

(* The pixel columns of a cell that the window is summed over are its own, *)
(* and all that have a tick in the window.                                 *)
LEMMA ColumnRangeIs ==
  ASSUME NEW r \in Requests, NEW c \in Unwrapped
  PROVE /\ \E a, b \in Int : 0 <= a /\ ColumnRange(r, c) = a .. b
        /\ ColumnRange(r, c) \subseteq 0 .. Columns[c[1]] - 1
        /\ \A x \in LongitudeEdge(r, 0) .. LongitudeEdge(r, r.n + 1) - 1,
              m \in 0 .. Columns[c[1]] - 1 :
             InColumn(c, x, m) => m \in ColumnRange(r, c)
  <1> DEFINE P == Columns[c[1]]
             width == Ticks \div P
             half == Ticks \div (2 * P)
             e1 == LongitudeEdge(r, 0)
             e2 == LongitudeEdge(r, r.n + 1)
             lo == e1 - c[2] * Ticks
             hi == e2 - c[2] * Ticks
             first == (2 * lo * P - Ticks) \div (2 * Ticks) + 1
             last == (2 * hi * P + Ticks - 1) \div (2 * Ticks)
             a == Max({0, first})
             b == Min({P - 1, last})
  <1>1. /\ width \in Nat \ {0} /\ P \in Nat \ {0} /\ width * P = Ticks
        /\ half \in Nat \ {0} /\ 2 * half = width /\ Ticks \in Nat \ {0}
        /\ c[2] \in Int /\ c[2] * Ticks \in Int
    BY UnwrappedType, HalfPixels, World, Degrees
  <1>2. e1 \in Int /\ e2 \in Int
    <2>1. r.n \in Nat /\ 0 \in 0 .. r.n + 1 /\ r.n + 1 \in 0 .. r.n + 1 /\ 0 <= r.n + 1
      BY RequestEdges
    <2> QED BY <2>1, EdgesOrdered
  <1>3. ColumnRange(r, c) = a .. b
    BY DEF ColumnRange
  <1> HIDE DEF P, width, half, e1, e2
  <1>4. lo \in Int /\ hi \in Int
    BY <1>1, <1>2
  <1>5. first \in Int /\ last \in Int
    <2> HIDE DEF lo, hi
    <2>1. 2 * lo * P - Ticks \in Int /\ 2 * hi * P + Ticks - 1 \in Int /\ 2 * Ticks \in Nat \ {0}
      BY <1>1, <1>4, SMTT(20)
    <2>2. (2 * lo * P - Ticks) \div (2 * Ticks) \in Int
      BY <2>1, DivBounds
    <2>3. (2 * hi * P + Ticks - 1) \div (2 * Ticks) \in Int
      BY <2>1, DivBounds
    <2> QED BY <2>2, <2>3
  <1>6. ASSUME NEW x \in e1 .. e2 - 1, NEW m \in 0 .. P - 1, InColumn(c, x, m)
        PROVE  m \in a .. b
    <2> DEFINE u == ColumnOffset(c, x)
    <2>1. u = x - c[2] * Ticks + half
      BY DEF ColumnOffset, half, P
    <2>2. u \in Int /\ lo + half <= u /\ u <= hi + half - 1
      BY <1>1, <1>2, <2>1
    <2>3. InPixel(u, width, m)
      BY <1>6 DEF InColumn, width, P
    <2> HIDE DEF u, lo, hi
    <2>4. half \in Nat
      BY <1>1
    <2> QED BY <1>1, <1>4, <2>2, <2>3, <2>4, AxisRange
  <1> HIDE DEF first, last
  <1>7. a \in Int /\ b \in Int /\ 0 <= a /\ b <= P - 1
    BY <1>1, <1>5, MaxOfTwo, MinOfTwo, 0 \in Int, P - 1 \in Int
  <1> HIDE DEF a, b
  <1>8. \E m, n \in Int : 0 <= m /\ ColumnRange(r, c) = m .. n
    BY <1>3, <1>7
  <1>9. ColumnRange(r, c) \subseteq 0 .. P - 1
    BY <1>1, <1>3, <1>7
  <1> QED BY <1>3, <1>6, <1>8, <1>9 DEF P, e1, e2

(* The same for rows.                                                      *)
LEMMA RowRangeIs ==
  ASSUME NEW r \in Requests, NEW c \in Unwrapped
  PROVE /\ \E a, b \in Int : 0 <= a /\ RowRange(r, c) = a .. b
        /\ RowRange(r, c) \subseteq 0 .. Rows - 1
        /\ \A y \in LatitudeEdge(r, r.n + 1) .. LatitudeEdge(r, 0) - 1, m \in 0 .. Rows - 1 :
             InRow(c, y, m) => m \in RowRange(r, c)
  <1> DEFINE P == Rows
             height == Ticks \div P
             half == Ticks \div (2 * P)
             top == (c[1] + 1) * Ticks
             e1 == LatitudeEdge(r, 0)
             e2 == LatitudeEdge(r, r.n + 1)
             lo == top - e1
             hi == top - e2
             first == (2 * lo * P - Ticks) \div (2 * Ticks) + 1
             last == (2 * hi * P + Ticks - 1) \div (2 * Ticks)
             a == Max({0, first})
             b == Min({P - 1, last})
  <1>1. /\ height \in Nat \ {0} /\ P \in Nat \ {0} /\ height * P = Ticks
        /\ half \in Nat \ {0} /\ 2 * half = height /\ Ticks \in Nat \ {0}
    BY HalfPixels, World
  <1>0. top \in Int
    <2>1. c[1] + 1 \in Int
      BY UnwrappedType
    <2> QED BY <2>1, Degrees
  <1>2. e1 \in Int /\ e2 \in Int
    <2>1. r.n \in Nat /\ 0 \in 0 .. r.n + 1 /\ r.n + 1 \in 0 .. r.n + 1 /\ 0 <= r.n + 1
      BY RequestEdges
    <2> QED BY <2>1, EdgesOrdered
  <1>3. RowRange(r, c) = a .. b
    BY DEF RowRange
  <1> HIDE DEF P, height, half, e1, e2, top
  <1>4. lo \in Int /\ hi \in Int
    BY <1>0, <1>2
  <1>5. first \in Int /\ last \in Int
    <2> HIDE DEF lo, hi
    <2>1. 2 * lo * P - Ticks \in Int /\ 2 * hi * P + Ticks - 1 \in Int /\ 2 * Ticks \in Nat \ {0}
      BY <1>1, <1>4, SMTT(20)
    <2>2. (2 * lo * P - Ticks) \div (2 * Ticks) \in Int
      BY <2>1, DivBounds
    <2>3. (2 * hi * P + Ticks - 1) \div (2 * Ticks) \in Int
      BY <2>1, DivBounds
    <2> QED BY <2>2, <2>3
  <1>6. ASSUME NEW y \in e2 .. e1 - 1, NEW m \in 0 .. P - 1, InRow(c, y, m)
        PROVE  m \in a .. b
    <2> DEFINE u == RowOffset(c, y)
    <2>1. u = top + half - 1 - y
      BY DEF RowOffset, half, P, top
    <2>2. u \in Int /\ lo + half <= u /\ u <= hi + half - 1
      BY <1>1, <1>0, <1>2, <2>1
    <2>3. InPixel(u, height, m)
      BY <1>6 DEF InRow, height, P
    <2> HIDE DEF u, lo, hi
    <2>4. half \in Nat
      BY <1>1
    <2> QED BY <1>1, <1>4, <2>2, <2>3, <2>4, AxisRange
  <1> HIDE DEF first, last
  <1>7. a \in Int /\ b \in Int /\ 0 <= a /\ b <= P - 1
    BY <1>1, <1>5, MaxOfTwo, MinOfTwo, 0 \in Int, P - 1 \in Int
  <1> HIDE DEF a, b
  <1>8. \E m, n \in Int : 0 <= m /\ RowRange(r, c) = m .. n
    BY <1>3, <1>7
  <1>9. RowRange(r, c) \subseteq 0 .. P - 1
    BY <1>1, <1>3, <1>7
  <1> QED BY <1>3, <1>6, <1>8, <1>9 DEF P, e1, e2


(* The ends of a range.                                                    *)
LEMMA IntervalEnds ==
  ASSUME NEW a \in Int, NEW b \in Int, a <= b
  PROVE Min(a .. b) = a /\ Max(a .. b) = b
  <1>1. a \in a .. b /\ b \in a .. b /\ \A x \in a .. b : a <= x /\ b >= x /\ x \in Int
    OBVIOUS
  <1>2. Min(a .. b) \in a .. b /\ \A x \in a .. b : Min(a .. b) <= x
    BY <1>1 DEF Min
  <1>3. Max(a .. b) \in a .. b /\ \A x \in a .. b : Max(a .. b) >= x
    BY <1>1 DEF Max
  <1> QED BY <1>1, <1>2, <1>3

(* Position i is in the block that starts at start.                        *)
InBlock(i, start, size) == start <= i /\ i <= start + size - 1

(* The block starts are Int multiples.                                     *)
LEMMA BlocksType ==
  ASSUME NEW size \in Nat \ {0}, NEW a \in Int, NEW b \in Int, NEW x \in Blocks(a, b, size)
  PROVE x \in Int /\ x % size = 0
  <1>1. a \div size \in Int
    BY DivBounds
  <1> DEFINE q == a \div size
  <1> HIDE DEF q
  <1>2. q * size \in Int
    BY <1>1, SMTT(20) DEF q
  <1>3. Blocks(a, b, size) = {y \in q * size .. b : y % size = 0}
    BY DEF Blocks, q
  <1> QED BY <1>2, <1>3

(* A position of a range is in exactly one of its blocks.                  *)
LEMMA OneBlock ==
  ASSUME NEW size \in Nat \ {0}, NEW a \in Nat, NEW b \in Int, NEW i \in a .. b
  PROVE /\ \E x \in Blocks(a, b, size) : InBlock(i, x, size)
        /\ \A x, y \in Blocks(a, b, size) : InBlock(i, x, size) /\ InBlock(i, y, size) => x = y
  <1> DEFINE q == a \div size
             m == i \div size
  <1>1. i \in Int /\ a \in Int /\ a <= i /\ i <= b
    OBVIOUS
  <1>2. /\ q \in Int /\ m \in Int /\ q <= m
        /\ size * m <= i /\ i < size * m + size
    BY <1>1, DivBounds, DivMonotone
  <1>3. Blocks(a, b, size) = {y \in q * size .. b : y % size = 0}
    BY DEF Blocks
  <1> HIDE DEF q, m
  <1>4. /\ q * size \in Int /\ m * size \in Int /\ q * size <= m * size
        /\ size * m = m * size
    BY <1>2, SMTT(20)
  <1>5. (m * size) % size = 0
    <2>1. (m * size) \div size = m
      BY <1>2, <1>4, DivIs
    <2>2. m * size = (size * ((m * size) \div size)) + ((m * size) % size)
          /\ (m * size) % size \in 0 .. size - 1
      BY <1>4, ModDiv
    <2>3. m * size = (size * m) + ((m * size) % size)
      BY <2>1, <2>2
    <2> DEFINE rest == (m * size) % size
               all == m * size
    <2>4. all = all + rest /\ rest \in Int /\ all \in Int
      BY <1>4, <2>2, <2>3
    <2> HIDE DEF rest, all
    <2>5. rest = 0
      BY <2>4
    <2> QED BY <2>5 DEF rest
  <1>6. m * size \in Blocks(a, b, size) /\ InBlock(i, m * size, size)
    <2> DEFINE all == m * size
               low == q * size
    <2>1. all \in Int /\ low \in Int /\ low <= all /\ all <= i /\ i < all + size
      BY <1>2, <1>4
    <2>2. all % size = 0 /\ Blocks(a, b, size) = {y \in low .. b : y % size = 0}
      BY <1>3, <1>5
    <2> HIDE DEF all, low
    <2>3. all \in low .. b /\ InBlock(i, all, size)
      BY <1>1, <2>1 DEF InBlock
    <2>4. all \in Blocks(a, b, size) /\ InBlock(i, all, size)
      BY <2>2, <2>3, Zenon
    <2> QED BY <2>4 DEF all
  <1>7. ASSUME NEW x \in Blocks(a, b, size), InBlock(i, x, size)
        PROVE  x = size * m
    <2>1. x \in Int /\ x % size = 0
      BY <1>1, BlocksType
    <2> DEFINE p == x \div size
    <2>2. p \in Int /\ x = (size * p) + (x % size)
      BY <2>1, ModDiv, DivBounds
    <2> HIDE DEF p
    <2>3. x = size * p
      BY <2>1, <2>2, SMTT(20)
    <2>4. size * p <= i /\ i < size * p + size
      BY <1>1, <1>7, <2>1, <2>3 DEF InBlock
    <2>5. i \div size = p
      BY <1>1, <2>2, <2>4, DivIs
    <2> QED BY <2>3, <2>5 DEF m
  <1> QED BY <1>6, <1>7


(* The columns of a run are those of the window that lie in its block.     *)
LEMMA RunColumns ==
  ASSUME NEW a \in Nat, NEW b \in Int, NEW x \in Int, NEW size \in Nat \ {0}, NEW i \in a .. b
  PROVE i \in Max({a, x}) .. Min({b, x + size - 1}) <=> InBlock(i, x, size)
  <1> DEFINE end == x + size - 1
  <1>1. a \in Int /\ end \in Int /\ i \in Int /\ a <= i /\ i <= b
    OBVIOUS
  <1>2. InBlock(i, x, size) <=> x <= i /\ i <= end
    BY DEF InBlock
  <1> HIDE DEF end
  <1>3. /\ Max({a, x}) \in Int /\ Max({a, x}) >= x /\ (Max({a, x}) = a \/ Max({a, x}) = x)
        /\ Min({b, end}) \in Int /\ Min({b, end}) <= end /\ (Min({b, end}) = b \/ Min({b, end}) = end)
    BY <1>1, MaxOfTwo, MinOfTwo
  <1>4. i \in Max({a, x}) .. Min({b, end}) <=> x <= i /\ i <= end
    <2> DEFINE p == Max({a, x})
               q == Min({b, end})
    <2>1. p \in Int /\ p >= x /\ (p = a \/ p = x) /\ q \in Int /\ q <= end /\ (q = b \/ q = end)
      BY <1>3
    <2> SUFFICES i \in p .. q <=> x <= i /\ i <= end
      OBVIOUS
    <2> HIDE DEF p, q
    <2> QED BY <1>1, <2>1
  <1> QED BY <1>2, <1>4 DEF end

(* The runs of a window: what they are.                                    *)
RunAt(a, b, bx, by, row) == <<bx, by, row, Max({a, bx}), Min({b, bx + BlockWidth - 1})>>

RunsIn(a, b, d, e, bx, by) ==
  {RunAt(a, b, bx, by, row) : row \in Max({d, by}) .. Min({e, by + BlockHeight - 1})}

RunsFrom(a, b, d, e) ==
  UNION {RunsIn(a, b, d, e, bx, by) : bx \in Blocks(a, b, BlockWidth),
                                      by \in Blocks(d, e, BlockHeight)}

LEMMA RunIs ==
  ASSUME NEW a \in Nat, NEW b \in Int, NEW d \in Nat, NEW e \in Int, a <= b, d <= e, NEW v
  PROVE v \in Runs(a .. b, d .. e) <=>
          \E bx \in Blocks(a, b, BlockWidth), by \in Blocks(d, e, BlockHeight), row \in d .. e :
            /\ InBlock(row, by, BlockHeight)
            /\ v = RunAt(a, b, bx, by, row)
  <1>1. Min(a .. b) = a /\ Max(a .. b) = b /\ Min(d .. e) = d /\ Max(d .. e) = e
    BY IntervalEnds
  <1> DEFINE Run(bx, by, row) == RunAt(a, b, bx, by, row)
             B == Blocks(a, b, BlockWidth)
             D == Blocks(d, e, BlockHeight)
             R(by) == Max({d, by}) .. Min({e, by + BlockHeight - 1})
  <1>2. Runs(a .. b, d .. e) = RunsFrom(a, b, d, e)
    <2>1. Runs(a .. b, d .. e) = RunsFrom(Min(a .. b), Max(a .. b), Min(d .. e), Max(d .. e))
      BY SMT DEF Runs, RunsFrom, RunsIn, RunAt
    <2> QED BY <1>1, <2>1, Zenon
  <1>3. ASSUME NEW by \in D, NEW row
        PROVE  row \in R(by) <=> row \in d .. e /\ InBlock(row, by, BlockHeight)
    <2>1. by \in Int /\ BlockHeight \in Nat \ {0}
      BY BlocksType, RasterAssumption
    <2> DEFINE end == by + BlockHeight - 1
               p == Max({d, by})
               q == Min({e, end})
    <2>2. end \in Int /\ d \in Int
      BY <2>1
    <2> HIDE DEF end
    <2>3. p \in Int /\ p >= d /\ q \in Int /\ q <= e
      BY <2>1, <2>2, MaxOfTwo, MinOfTwo
    <2>4. p .. q \subseteq d .. e
      <3> HIDE DEF p, q
      <3> QED BY <2>3
    <2>5. row \in d .. e => (row \in p .. q <=> InBlock(row, by, BlockHeight))
      BY <2>1, RunColumns DEF end
    <2>6. R(by) = p .. q
      BY DEF end
    <2> HIDE DEF p, q, R, D
    <2> QED BY <2>4, <2>5, <2>6, Zenon
  <1> SUFFICES v \in Runs(a .. b, d .. e) <=>
                 \E bx \in B, by \in D, row \in d .. e :
                   InBlock(row, by, BlockHeight) /\ v = Run(bx, by, row)
    OBVIOUS
  <1> HIDE DEF Run, B, D, R
  <1>4. v \in Runs(a .. b, d .. e) <=> \E bx \in B, by \in D : \E row \in R(by) : v = Run(bx, by, row)
    <2>1. v \in RunsFrom(a, b, d, e) <=> \E bx \in B, by \in D : v \in RunsIn(a, b, d, e, bx, by)
      BY SMT DEF RunsFrom, B, D
    <2>2. \A bx, by : v \in RunsIn(a, b, d, e, bx, by) <=> \E row \in R(by) : v = Run(bx, by, row)
      BY SMT DEF RunsIn, R, Run
    <2> QED BY <1>2, <2>1, <2>2, Zenon
  <1>5. v \in Runs(a .. b, d .. e) =>
          \E bx \in B, by \in D, row \in d .. e :
            InBlock(row, by, BlockHeight) /\ v = Run(bx, by, row)
    BY <1>3, <1>4, Zenon
  <1>6. ASSUME NEW bx \in B, NEW by \in D, NEW row \in d .. e,
               InBlock(row, by, BlockHeight), v = Run(bx, by, row)
        PROVE  v \in Runs(a .. b, d .. e)
    <2>1. row \in R(by)
      BY <1>3, <1>6, Zenon
    <2> QED BY <1>4, <1>6, <2>1, Zenon
  <1> QED BY <1>5, <1>6, Zenon

(* Each pixel of a window is in one run.                                   *)
EachPixelRuns(columns, rows) ==
  /\ \A v \in Runs(columns, rows) : v[3] \in rows
  /\ \A i \in columns, row \in rows :
       \E v \in Runs(columns, rows) : v[3] = row /\ i \in v[4] .. v[5]
  /\ \A v, w \in Runs(columns, rows), i \in columns :
       v[3] = w[3] /\ i \in v[4] .. v[5] /\ i \in w[4] .. w[5] => v = w

LEMMA RunsOnce ==
  ASSUME NEW a \in Nat, NEW b \in Int, NEW d \in Nat, NEW e \in Int, a <= b, d <= e
  PROVE EachPixelRuns(a .. b, d .. e)
  <1> DEFINE Run(bx, by, row) == RunAt(a, b, bx, by, row)
             B == Blocks(a, b, BlockWidth)
             D == Blocks(d, e, BlockHeight)
             S == Runs(a .. b, d .. e)
  <1>1. \A v : v \in S <=> \E bx \in B, by \in D, row \in d .. e :
                             InBlock(row, by, BlockHeight) /\ v = Run(bx, by, row)
    BY RunIs
  <1>2. ASSUME NEW bx \in B, NEW by \in D, NEW row \in d .. e
        PROVE  /\ Run(bx, by, row)[3] = row
               /\ \A i \in a .. b : i \in Run(bx, by, row)[4] .. Run(bx, by, row)[5]
                                      <=> InBlock(i, bx, BlockWidth)
    <2>1. bx \in Int /\ BlockWidth \in Nat \ {0}
      BY BlocksType, RasterAssumption
    <2>2. \A i \in a .. b : i \in Max({a, bx}) .. Min({b, bx + BlockWidth - 1})
                              <=> InBlock(i, bx, BlockWidth)
      BY <2>1, RunColumns
    <2>3. /\ Run(bx, by, row)[3] = row
          /\ Run(bx, by, row)[4] = Max({a, bx})
          /\ Run(bx, by, row)[5] = Min({b, bx + BlockWidth - 1})
      BY DEF RunAt
    <2> HIDE DEF Run
    <2> QED BY <2>2, <2>3
  <1>3. /\ \A i \in a .. b : \E bx \in B : InBlock(i, bx, BlockWidth)
        /\ \A i \in a .. b : \A bx, by \in B :
             InBlock(i, bx, BlockWidth) /\ InBlock(i, by, BlockWidth) => bx = by
    BY OneBlock, RasterAssumption
  <1>4. /\ \A i \in d .. e : \E by \in D : InBlock(i, by, BlockHeight)
        /\ \A i \in d .. e : \A bx, by \in D :
             InBlock(i, bx, BlockHeight) /\ InBlock(i, by, BlockHeight) => bx = by
    BY OneBlock, RasterAssumption
  <1> SUFFICES /\ \A v \in S : v[3] \in d .. e
               /\ \A i \in a .. b, row \in d .. e : \E v \in S : v[3] = row /\ i \in v[4] .. v[5]
               /\ \A v, w \in S, i \in a .. b :
                    v[3] = w[3] /\ i \in v[4] .. v[5] /\ i \in w[4] .. w[5] => v = w
    BY DEF EachPixelRuns
  <1> HIDE DEF Run, B, D, S
  <1>5. ASSUME NEW v \in S PROVE v[3] \in d .. e
    BY <1>1, <1>2
  <1>6. ASSUME NEW i \in a .. b, NEW row \in d .. e
        PROVE  \E v \in S : v[3] = row /\ i \in v[4] .. v[5]
    <2>1. PICK bx \in B : InBlock(i, bx, BlockWidth)
      BY <1>3
    <2>2. PICK by \in D : InBlock(row, by, BlockHeight)
      BY <1>4
    <2>3. Run(bx, by, row) \in S
      BY <1>1, <2>2
    <2> QED BY <1>2, <2>1, <2>3
  <1>7. ASSUME NEW v \in S, NEW w \in S, NEW i \in a .. b,
               v[3] = w[3], i \in v[4] .. v[5], i \in w[4] .. w[5]
        PROVE  v = w
    <2>1. PICK bx \in B, by \in D, row \in d .. e :
            InBlock(row, by, BlockHeight) /\ v = Run(bx, by, row)
      BY <1>1, Zenon
    <2>2. PICK cx \in B, cy \in D, line \in d .. e :
            InBlock(line, cy, BlockHeight) /\ w = Run(cx, cy, line)
      BY <1>1, Zenon
    <2>3. row = line /\ InBlock(i, bx, BlockWidth) /\ InBlock(i, cx, BlockWidth)
      BY <1>2, <1>7, <2>1, <2>2
    <2>4. bx = cx
      BY <1>3, <2>3, Zenon
    <2>5. by = cy
      BY <1>4, <2>1, <2>2, <2>3, Zenon
    <2> QED BY <2>1, <2>2, <2>3, <2>4, <2>5
  <1> QED BY <1>5, <1>6, <1>7, Zenon


(* The square ticks of a box, which lie in the window.                     *)
LEMMA BoxIs ==
  ASSUME NEW r \in Requests, NEW b \in Boxes(r)
  PROVE /\ b[1] \in 0 .. r.n /\ b[2] \in 0 .. r.n
        /\ IsFiniteSet(BoxTicks(r, b)) /\ BoxTicks(r, b) \subseteq Int \X Int
        /\ LongitudeEdge(r, b[2]) .. LongitudeEdge(r, b[2] + 1) - 1
             \subseteq LongitudeEdge(r, 0) .. LongitudeEdge(r, r.n + 1) - 1
        /\ LatitudeEdge(r, b[1] + 1) .. LatitudeEdge(r, b[1]) - 1
             \subseteq LatitudeEdge(r, r.n + 1) .. LatitudeEdge(r, 0) - 1
  <1>1. b[1] \in 0 .. r.n /\ b[2] \in 0 .. r.n
    BY DEF Boxes
  <1>2. ASSUME NEW i \in 0 .. r.n
        PROVE  /\ LongitudeEdge(r, i) \in Int /\ LongitudeEdge(r, i + 1) \in Int
               /\ LatitudeEdge(r, i) \in Int /\ LatitudeEdge(r, i + 1) \in Int
               /\ LongitudeEdge(r, 0) \in Int /\ LongitudeEdge(r, r.n + 1) \in Int
               /\ LatitudeEdge(r, 0) \in Int /\ LatitudeEdge(r, r.n + 1) \in Int
               /\ LongitudeEdge(r, 0) <= LongitudeEdge(r, i)
               /\ LongitudeEdge(r, i + 1) <= LongitudeEdge(r, r.n + 1)
               /\ LatitudeEdge(r, i) <= LatitudeEdge(r, 0)
               /\ LatitudeEdge(r, r.n + 1) <= LatitudeEdge(r, i + 1)
    <2>1. /\ r.n \in Nat /\ 0 \in 0 .. r.n + 1 /\ i \in 0 .. r.n + 1 /\ i + 1 \in 0 .. r.n + 1
          /\ r.n + 1 \in 0 .. r.n + 1 /\ 0 <= i /\ i + 1 <= r.n + 1
      BY RequestEdges
    <2> QED BY <2>1, EdgesOrdered
  <1> DEFINE west == LongitudeEdge(r, b[2])
             east == LongitudeEdge(r, b[2] + 1) - 1
             south == LatitudeEdge(r, b[1] + 1)
             north == LatitudeEdge(r, b[1]) - 1
  <1>3. /\ west \in Int /\ east \in Int /\ south \in Int /\ north \in Int
        /\ LongitudeEdge(r, 0) <= west /\ east <= LongitudeEdge(r, r.n + 1) - 1
        /\ LatitudeEdge(r, r.n + 1) <= south /\ north <= LatitudeEdge(r, 0) - 1
        /\ LongitudeEdge(r, 0) \in Int /\ LongitudeEdge(r, r.n + 1) \in Int
        /\ LatitudeEdge(r, 0) \in Int /\ LatitudeEdge(r, r.n + 1) \in Int
    BY <1>1, <1>2
  <1>4. BoxTicks(r, b) = (west .. east) \X (south .. north)
    BY DEF BoxTicks
  <1> HIDE DEF west, east, south, north
  <1>5. IsFiniteSet(west .. east) /\ IsFiniteSet(south .. north)
    BY <1>3, FS_Interval
  <1>6. IsFiniteSet(BoxTicks(r, b)) /\ BoxTicks(r, b) \subseteq Int \X Int
    <2>1. IsFiniteSet((west .. east) \X (south .. north))
      BY <1>5, FS_Product
    <2> QED BY <1>3, <1>4, <2>1
  <1>7. /\ west .. east \subseteq LongitudeEdge(r, 0) .. LongitudeEdge(r, r.n + 1) - 1
        /\ south .. north \subseteq LatitudeEdge(r, r.n + 1) .. LatitudeEdge(r, 0) - 1
    BY <1>3
  <1> QED BY <1>1, <1>6, <1>7 DEF west, east, south, north

(* The runs of a cell in a window are those of ranges of pixels.           *)
LEMMA CellRuns ==
  ASSUME NEW r \in Requests, NEW c \in Unwrapped, ColumnRange(r, c) # {}, RowRange(r, c) # {}
  PROVE EachPixelRuns(ColumnRange(r, c), RowRange(r, c))
  <1>1. PICK m, n \in Int : 0 <= m /\ ColumnRange(r, c) = m .. n
    BY ColumnRangeIs
  <1>2. PICK d, e \in Int : 0 <= d /\ RowRange(r, c) = d .. e
    BY RowRangeIs
  <1>3. m \in Nat /\ d \in Nat /\ m <= n /\ d <= e
    BY <1>1, <1>2
  <1>4. EachPixelRuns(m .. n, d .. e)
    BY <1>3, RunsOnce
  <1> QED BY <1>1, <1>2, <1>4, Zenon

(* A run of a cell comes to square tick t of a box in one of its columns.  *)
Meets(r, c, b, run, column, t) ==
  /\ ColumnRange(r, c) # {} /\ RowRange(r, c) # {}
  /\ run \in Runs(ColumnRange(r, c), RowRange(r, c))
  /\ column \in ColumnRange(r, c) /\ column \in run[4] .. run[5]
  /\ t \in ColumnOverlap(r, c, column, b[2]) \X RowOverlap(r, c, run[3], b[1])

(* The visits to a box.                                                    *)
LEMMA VisitsAre ==
  ASSUME NEW r, NEW c, NEW b
  PROVE /\ \A v \in Visits(r, c, b) : \E run, column, t :
             v = <<<<run, column>>, t>> /\ Meets(r, c, b, run, column, t)
        /\ \A run, column, t :
             Meets(r, c, b, run, column, t) => <<<<run, column>>, t>> \in Visits(r, c, b)
  <1> DEFINE columns == ColumnRange(r, c)
             rows == RowRange(r, c)
             S == Runs(columns, rows)
             pixels == {v \in S \X columns : v[2] \in v[1][4] .. v[1][5]}
             Where(v) == ColumnOverlap(r, c, v[2], b[2]) \X RowOverlap(r, c, v[1][3], b[1])
  <1>1. Visits(r, c, b) = IF columns = {} \/ rows = {} THEN {}
                          ELSE UNION {{v} \X Where(v) : v \in pixels}
    BY DEF Visits
  <1>2. ASSUME NEW v \in Visits(r, c, b)
        PROVE  \E run, column, t :
                 v = <<<<run, column>>, t>> /\ Meets(r, c, b, run, column, t)
    <2>1. PICK p \in pixels : v \in {p} \X Where(p) /\ columns # {} /\ rows # {}
      <3> HIDE DEF pixels, Where, columns, rows
      <3> QED BY <1>1, <1>2
    <2>2. v = <<p, v[2]>> /\ v[2] \in Where(p)
      <3> HIDE DEF pixels, Where
      <3> QED BY <2>1
    <2>3. p = <<p[1], p[2]>> /\ p[1] \in S /\ p[2] \in columns /\ p[2] \in p[1][4] .. p[1][5]
      <3> HIDE DEF S, columns
      <3> QED BY <2>1
    <2>4. Meets(r, c, b, p[1], p[2], v[2])
      BY <2>1, <2>2, <2>3, Zenon DEF Meets
    <2>5. v = <<<<p[1], p[2]>>, v[2]>>
      BY <2>2, <2>3, Zenon
    <2> QED BY <2>4, <2>5, Zenon
  <1>3. ASSUME NEW run, NEW column, NEW t, Meets(r, c, b, run, column, t)
        PROVE  <<<<run, column>>, t>> \in Visits(r, c, b)
    <2> DEFINE p == <<run, column>>
    <2>1. /\ columns # {} /\ rows # {} /\ run \in S /\ column \in columns
          /\ column \in run[4] .. run[5]
          /\ t \in ColumnOverlap(r, c, column, b[2]) \X RowOverlap(r, c, run[3], b[1])
      BY <1>3, Zenon DEF Meets
    <2>2. p[1] = run /\ p[2] = column
      OBVIOUS
    <2>3. p \in pixels
      <3> HIDE DEF S, columns
      <3> QED BY <2>1
    <2>4. t \in Where(p)
      <3> HIDE DEF p
      <3> QED BY <2>1, <2>2, Zenon
    <2> HIDE DEF p, Where, pixels, columns, rows
    <2>5. <<p, t>> \in UNION {{v} \X Where(v) : v \in pixels}
      BY <2>3, <2>4
    <2>6. <<p, t>> \in Visits(r, c, b)
      BY <1>1, <2>1, <2>5, Zenon
    <2> QED BY <2>6 DEF p
  <1> QED BY <1>2, <1>3, Zenon


(* The square ticks of a box that a cell owns.                             *)
Area(r, b, c) == {t \in BoxTicks(r, b) : Owner(t[1], t[2]) = c}

(* A visit is to a square tick of the pixel in hand.                       *)
LEMMA MetTick ==
  ASSUME NEW r \in Requests, NEW c \in Unwrapped, NEW b \in Boxes(r),
         NEW run, NEW column, NEW t, Meets(r, c, b, run, column, t)
  PROVE /\ t \in Area(r, b, c) /\ t[1] \in Int /\ t[2] \in Int
        /\ column \in Int /\ InColumn(c, t[1], column)
        /\ run[3] \in Int /\ InRow(c, t[2], run[3])
  <1>1. PICK x, y : /\ t = <<x, y>> /\ x \in ColumnOverlap(r, c, column, b[2])
                    /\ y \in RowOverlap(r, c, run[3], b[1])
    BY DEF Meets
  <1>2. b[1] \in 0 .. r.n /\ b[2] \in 0 .. r.n
    BY BoxIs
  <1>3. column \in 0 .. Columns[c[1]] - 1 /\ column \in Int
    <2>1. column \in ColumnRange(r, c)
      BY DEF Meets
    <2>2. ColumnRange(r, c) \subseteq 0 .. Columns[c[1]] - 1
      BY ColumnRangeIs
    <2> QED BY <2>1, <2>2
  <1>4. run[3] \in 0 .. Rows - 1 /\ run[3] \in Int
    <2>1. EachPixelRuns(ColumnRange(r, c), RowRange(r, c))
      BY CellRuns DEF Meets
    <2>2. run[3] \in RowRange(r, c)
      BY <2>1, Zenon DEF Meets, EachPixelRuns
    <2>3. RowRange(r, c) \subseteq 0 .. Rows - 1
      BY RowRangeIs
    <2> QED BY <2>2, <2>3
  <1>5. /\ x \in Int /\ x \in LongitudeEdge(r, b[2]) .. LongitudeEdge(r, b[2] + 1) - 1
        /\ InColumn(c, x, column)
    <2>1. ColumnOverlap(r, c, column, b[2]) \subseteq Int
      BY <1>2, <1>3, ColumnOverlapIs
    <2>2. x \in Int
      BY <1>1, <2>1
    <2> QED BY <1>1, <1>2, <1>3, <2>2, ColumnOverlapIs
  <1>6. /\ y \in Int /\ y \in LatitudeEdge(r, b[1] + 1) .. LatitudeEdge(r, b[1]) - 1
        /\ InRow(c, y, run[3])
    <2>1. RowOverlap(r, c, run[3], b[1]) \subseteq Int
      BY <1>2, <1>4, RowOverlapIs
    <2>2. y \in Int
      BY <1>1, <2>1
    <2> QED BY <1>1, <1>2, <1>4, <2>2, RowOverlapIs
  <1>7. Owner(x, y) = c
    BY <1>3, <1>4, <1>5, <1>6, PixelsOfCell
  <1>8. t \in BoxTicks(r, b) /\ t[1] = x /\ t[2] = y
    BY <1>1, <1>5, <1>6 DEF BoxTicks
  <1>9. t \in Area(r, b, c)
    BY <1>7, <1>8 DEF Area
  <1> QED BY <1>3, <1>4, <1>5, <1>6, <1>8, <1>9

(* Every square tick that a cell owns is visited.                          *)
LEMMA TickMet ==
  ASSUME NEW r \in Requests, NEW c \in Unwrapped, NEW b \in Boxes(r), NEW t \in Area(r, b, c)
  PROVE \E run, column : Meets(r, c, b, run, column, t)
  <1> DEFINE x == t[1]
             y == t[2]
  <1>1. /\ b[1] \in 0 .. r.n /\ b[2] \in 0 .. r.n
        /\ LongitudeEdge(r, b[2]) .. LongitudeEdge(r, b[2] + 1) - 1
             \subseteq LongitudeEdge(r, 0) .. LongitudeEdge(r, r.n + 1) - 1
        /\ LatitudeEdge(r, b[1] + 1) .. LatitudeEdge(r, b[1]) - 1
             \subseteq LatitudeEdge(r, r.n + 1) .. LatitudeEdge(r, 0) - 1
        /\ BoxTicks(r, b) \subseteq Int \X Int
    BY BoxIs
  <1>2. /\ t = <<x, y>> /\ x \in Int /\ y \in Int /\ Owner(x, y) = c
        /\ x \in LongitudeEdge(r, b[2]) .. LongitudeEdge(r, b[2] + 1) - 1
        /\ y \in LatitudeEdge(r, b[1] + 1) .. LatitudeEdge(r, b[1]) - 1
    <2>1. t \in BoxTicks(r, b) /\ Owner(x, y) = c
      BY DEF Area
    <2>2. t \in Int \X Int
      BY <1>1, <2>1
    <2>3. t \in (LongitudeEdge(r, b[2]) .. LongitudeEdge(r, b[2] + 1) - 1)
                 \X (LatitudeEdge(r, b[1] + 1) .. LatitudeEdge(r, b[1]) - 1)
      BY <2>1, Zenon DEF BoxTicks
    <2>4. t = <<x, y>> /\ x \in Int /\ y \in Int
      BY <2>2
    <2>5. /\ x \in LongitudeEdge(r, b[2]) .. LongitudeEdge(r, b[2] + 1) - 1
          /\ y \in LatitudeEdge(r, b[1] + 1) .. LatitudeEdge(r, b[1]) - 1
      BY <2>3
    <2> QED BY <2>1, <2>4, <2>5
  <1> HIDE DEF x, y
  <1>3. PICK column \in 0 .. Columns[c[1]] - 1 : InColumn(c, x, column)
    BY <1>2, PixelsOfCell
  <1>4. PICK row \in 0 .. Rows - 1 : InRow(c, y, row)
    BY <1>2, PixelsOfCell
  <1>5. column \in ColumnRange(r, c)
    <2>1. x \in LongitudeEdge(r, 0) .. LongitudeEdge(r, r.n + 1) - 1
      BY <1>1, <1>2, Zenon
    <2> QED BY <1>3, <2>1, ColumnRangeIs
  <1>6. row \in RowRange(r, c)
    <2>1. y \in LatitudeEdge(r, r.n + 1) .. LatitudeEdge(r, 0) - 1
      BY <1>1, <1>2, Zenon
    <2> QED BY <1>4, <2>1, RowRangeIs
  <1>7. PICK run \in Runs(ColumnRange(r, c), RowRange(r, c)) :
          run[3] = row /\ column \in run[4] .. run[5]
    <2>1. EachPixelRuns(ColumnRange(r, c), RowRange(r, c))
      BY <1>5, <1>6, CellRuns
    <2> QED BY <1>5, <1>6, <2>1, Zenon DEF EachPixelRuns
  <1>8. x \in ColumnOverlap(r, c, column, b[2])
    <2>1. column \in Int
      BY <1>3
    <2> QED BY <1>1, <1>2, <1>3, <2>1, ColumnOverlapIs
  <1>9. y \in RowOverlap(r, c, run[3], b[1])
    <2>1. row \in Int
      BY <1>4
    <2> QED BY <1>1, <1>2, <1>4, <1>7, <2>1, RowOverlapIs
  <1>10. t \in ColumnOverlap(r, c, column, b[2]) \X RowOverlap(r, c, run[3], b[1])
    BY <1>2, <1>8, <1>9
  <1>11. ColumnRange(r, c) # {} /\ RowRange(r, c) # {}
    BY <1>5, <1>6
  <1> QED BY <1>5, <1>7, <1>10, <1>11, Zenon DEF Meets

(* And only once.                                                          *)
LEMMA MetOnce ==
  ASSUME NEW r \in Requests, NEW c \in Unwrapped, NEW b \in Boxes(r), NEW t,
         NEW run, NEW column, Meets(r, c, b, run, column, t),
         NEW other, NEW k, Meets(r, c, b, other, k, t)
  PROVE run = other /\ column = k
  <1>1. /\ t[1] \in Int /\ t[2] \in Int /\ column \in Int /\ k \in Int
        /\ InColumn(c, t[1], column) /\ InColumn(c, t[1], k)
        /\ run[3] \in Int /\ other[3] \in Int
        /\ InRow(c, t[2], run[3]) /\ InRow(c, t[2], other[3])
    BY MetTick
  <1>2. column = k /\ run[3] = other[3]
    BY <1>1, PixelsOfCell
  <1>3. EachPixelRuns(ColumnRange(r, c), RowRange(r, c))
    BY CellRuns DEF Meets
  <1>4. run = other
    BY <1>2, <1>3, Zenon DEF EachPixelRuns, Meets
  <1> QED BY <1>2, <1>4

(* What a cell adds to a box is the area of the box that it owns.          *)
LEMMA ContributionIs ==
  ASSUME NEW r \in Requests, NEW c \in Unwrapped, NEW b \in Boxes(r)
  PROVE IsFiniteSet(Area(r, b, c)) /\ Contribution(r, c, b) = Cardinality(Area(r, b, c))
  <1> DEFINE V == Visits(r, c, b)
             A == Area(r, b, c)
             f == [v \in V |-> v[2]]
  <1>1. /\ \A v \in V : \E run, column, t :
             v = <<<<run, column>>, t>> /\ Meets(r, c, b, run, column, t)
        /\ \A run, column, t : Meets(r, c, b, run, column, t) => <<<<run, column>>, t>> \in V
    BY VisitsAre
  <1> HIDE DEF V
  <1>2. IsFiniteSet(A)
    <2>1. IsFiniteSet(BoxTicks(r, b)) /\ A \in SUBSET BoxTicks(r, b)
      BY BoxIs DEF Area
    <2> QED BY <2>1, FS_Subset
  <1>3. \A v \in V : f[v] \in A
    BY <1>1, MetTick
  <1>4. ASSUME NEW v \in V, NEW w \in V, f[v] = f[w] PROVE v = w
    <2>1. PICK run, column, t : v = <<<<run, column>>, t>> /\ Meets(r, c, b, run, column, t)
      BY <1>1, Zenon
    <2>2. PICK other, k, s : w = <<<<other, k>>, s>> /\ Meets(r, c, b, other, k, s)
      BY <1>1, Zenon
    <2>3. s = t
      BY <1>4, <2>1, <2>2
    <2>4. run = other /\ column = k
      BY <2>1, <2>2, <2>3, MetOnce
    <2> QED BY <2>1, <2>2, <2>3, <2>4
  <1>5. ASSUME NEW t \in A PROVE \E v \in V : f[v] = t
    <2>1. PICK run, column : Meets(r, c, b, run, column, t)
      BY TickMet
    <2>2. <<<<run, column>>, t>> \in V
      BY <1>1, <2>1, Zenon
    <2>3. f[<<<<run, column>>, t>>] = t
      BY <2>2
    <2> QED BY <2>2, <2>3, Zenon
  <1> HIDE DEF A
  <1>6. f \in Bijection(V, A)
    BY <1>3, <1>4, <1>5 DEF Bijection, Injection, Surjection, IsInjective
  <1>7. ExistsBijection(V, A)
    BY <1>6 DEF ExistsBijection
  <1>8. ExistsBijection(A, V)
    BY <1>7, Fun_ExistsBijSymmetric
  <1>9. Cardinality(V) = Cardinality(A)
    BY <1>2, <1>8, FS_Bijection
  <1> QED BY <1>2, <1>9 DEF Contribution, V, A


(* The cells to average lie between the poles.                             *)
LEMMA CandidatesType ==
  ASSUME NEW r \in Requests
  PROVE Candidates(r) \subseteq Unwrapped
  <1> DEFINE south == (LatitudeEdge(r, r.n + 1) - HalfRow) \div Ticks
             north == (LatitudeEdge(r, 0) - HalfRow - 1) \div Ticks
             west == LongitudeEdge(r, 0) \div Ticks
             east == (LongitudeEdge(r, r.n + 1) + HalfColumn) \div Ticks
             a == Max({-Pole, south})
             b == Min({Pole - 1, north})
  <1>1. /\ LongitudeEdge(r, 0) \in Int /\ LongitudeEdge(r, r.n + 1) \in Int
        /\ LatitudeEdge(r, 0) \in Int /\ LatitudeEdge(r, r.n + 1) \in Int
    <2>1. r.n \in Nat /\ 0 \in 0 .. r.n + 1 /\ r.n + 1 \in 0 .. r.n + 1 /\ 0 <= r.n + 1
      BY RequestEdges
    <2> QED BY <2>1, EdgesOrdered
  <1>2. HalfRow \in Int /\ HalfColumn \in Int /\ Ticks \in Nat \ {0}
    BY World, MarginAssumption
  <1>3. south \in Int /\ north \in Int /\ west \in Int /\ east \in Int
    BY <1>1, <1>2, DivBounds, LatitudeEdge(r, r.n + 1) - HalfRow \in Int,
       LatitudeEdge(r, 0) - HalfRow - 1 \in Int, LongitudeEdge(r, r.n + 1) + HalfColumn \in Int
  <1>4. Candidates(r) = (a .. b) \X (west .. east)
    BY DEF Candidates
  <1> HIDE DEF south, north, west, east
  <1>5. a \in Int /\ a >= -Pole /\ b \in Int /\ b <= Pole - 1
    BY <1>3, World, MaxOfTwo, MinOfTwo, -Pole \in Int, Pole - 1 \in Int
  <1> HIDE DEF a, b
  <1>6. a .. b \subseteq Souths /\ west .. east \subseteq Int
    BY <1>3, <1>5, World DEF Souths
  <1> QED BY <1>4, <1>6 DEF Unwrapped

(* A candidate is not out of reach.                                        *)
LEMMA CandidateInReach ==
  ASSUME NEW r \in Requests, NEW c \in Candidates(r)
  PROVE ~OutOfReach(r, c)
  <1> DEFINE last == LongitudeEdge(r, r.n + 1) + HalfColumn
             w == c[2]
  <1>1. w \in Int /\ w <= last \div Ticks
    <2>1. c[2] \in LongitudeEdge(r, 0) \div Ticks .. last \div Ticks
      BY DEF Candidates
    <2>2. c \in Unwrapped
      BY CandidatesType
    <2>3. last \div Ticks \in Int /\ LongitudeEdge(r, 0) \div Ticks \in Int
      <3>1. r.n \in Nat /\ 0 \in 0 .. r.n + 1 /\ r.n + 1 \in 0 .. r.n + 1 /\ 0 <= r.n + 1
        BY RequestEdges
      <3>2. LongitudeEdge(r, 0) \in Int /\ LongitudeEdge(r, r.n + 1) \in Int
        BY <3>1, EdgesOrdered
      <3>3. last \in Int
        BY <3>2, MarginAssumption
      <3> QED BY <3>2, <3>3, World, DivBounds
    <2> QED BY <2>1, <2>2, <2>3, UnwrappedType
  <1>2. last \in Int /\ Ticks \in Nat \ {0}
    <2>1. r.n \in Nat /\ 0 \in 0 .. r.n + 1 /\ r.n + 1 \in 0 .. r.n + 1 /\ 0 <= r.n + 1
      BY RequestEdges
    <2>2. LongitudeEdge(r, r.n + 1) \in Int
      BY <2>1, EdgesOrdered
    <2> QED BY <2>2, MarginAssumption, World
  <1> SUFFICES ~(w * Ticks > last)
    BY DEF OutOfReach
  <1> HIDE DEF last, w
  <1>3. Ticks * (last \div Ticks) <= last /\ last \div Ticks \in Int
    BY <1>2, DivBounds
  <1>4. w * Ticks <= Ticks * (last \div Ticks) /\ w * Ticks \in Int
    BY <1>1, <1>2, <1>3, SMTT(20)
  <1> QED BY <1>2, <1>3, <1>4, SMTT(20)

(* The owner of a square tick of a box is averaged, if it has a source and *)
(* is not out of reach.                                                    *)
LEMMA OwnerIsCandidate ==
  ASSUME NEW r \in Requests, NEW b \in Boxes(r), NEW t \in BoxTicks(r, b),
         HasSource(Owner(t[1], t[2])), ~OutOfReach(r, Owner(t[1], t[2]))
  PROVE Owner(t[1], t[2]) \in Candidates(r)
  <1> DEFINE x == t[1]
             y == t[2]
             half == Ticks \div (2 * Rows)
             s == (y - half) \div Ticks
             beside == Ticks \div (2 * Columns[s])
             w == (x + beside) \div Ticks
             e0 == LongitudeEdge(r, 0)
             e1 == LongitudeEdge(r, r.n + 1)
             n0 == LatitudeEdge(r, 0)
             n1 == LatitudeEdge(r, r.n + 1)
             short == 2 * HalfColumn * Columns[s]
  <1>1. /\ x \in Int /\ y \in Int
        /\ x \in LongitudeEdge(r, b[2]) .. LongitudeEdge(r, b[2] + 1) - 1
        /\ y \in LatitudeEdge(r, b[1] + 1) .. LatitudeEdge(r, b[1]) - 1
    <2>1. t \in Int \X Int
      BY BoxIs
    <2>2. t \in (LongitudeEdge(r, b[2]) .. LongitudeEdge(r, b[2] + 1) - 1)
                 \X (LatitudeEdge(r, b[1] + 1) .. LatitudeEdge(r, b[1]) - 1)
      BY Zenon DEF BoxTicks
    <2>3. x \in Int /\ y \in Int
      BY <2>1
    <2>4. /\ x \in LongitudeEdge(r, b[2]) .. LongitudeEdge(r, b[2] + 1) - 1
          /\ y \in LatitudeEdge(r, b[1] + 1) .. LatitudeEdge(r, b[1]) - 1
      BY <2>2
    <2> QED BY <2>3, <2>4
  <1>2. /\ e0 \in Int /\ e1 \in Int /\ n0 \in Int /\ n1 \in Int
    <2>1. r.n \in Nat /\ 0 \in 0 .. r.n + 1 /\ r.n + 1 \in 0 .. r.n + 1 /\ 0 <= r.n + 1
      BY RequestEdges
    <2> QED BY <2>1, EdgesOrdered
  <1>3. x \in e0 .. e1 - 1 /\ y \in n1 .. n0 - 1
    <2> HIDE DEF x, y
    <2> QED BY <1>1, BoxIs, Zenon
  <1>4. Owner(x, y) = <<s, w>>
    BY DEF Owner
  <1>5. s \in Souths
    <2>1. <<s, Wrapped(w)>> \in Cells
      <3>1. <<Owner(x, y)[1], Wrapped(Owner(x, y)[2])>> \in Available
        BY DEF HasSource
      <3>2. Owner(x, y)[1] = s /\ Owner(x, y)[2] = w
        <4> HIDE DEF s, w
        <4> QED BY <1>4
      <3> HIDE DEF s, w, x, y
      <3>3. <<s, Wrapped(w)>> \in Available
        BY <3>1, <3>2, Zenon
      <3> QED BY <3>3, RasterAssumption
    <2> HIDE DEF s, w
    <2> QED BY <2>1 DEF Cells, Souths
  <1>6. half = HalfRow /\ HalfRow \in Nat /\ HalfColumn \in Nat
        /\ beside \in Nat \ {0} /\ Ticks \in Nat \ {0}
        /\ short \in Int /\ (short >= Ticks => beside <= HalfColumn)
    <2> HIDE DEF s
    <2>1. half = HalfRow /\ HalfRow \in Nat /\ HalfColumn \in Nat
          /\ beside \in Nat \ {0} /\ Ticks \in Nat \ {0}
          /\ (short >= Ticks => beside <= HalfColumn)
      BY <1>5, HalfPixels, MarginAssumption, World
    <2>2. short \in Int
      <3> DEFINE P == Columns[s]
      <3>1. P \in Int /\ HalfColumn \in Int
        BY <1>5, <2>1, HalfPixels
      <3> SUFFICES 2 * HalfColumn * P \in Int
        OBVIOUS
      <3> HIDE DEF P
      <3> QED BY <3>1, SMTT(20)
    <2> QED BY <2>1, <2>2
  <1> HIDE DEF short
  <1> DEFINE south == (n1 - HalfRow) \div Ticks
             north == (n0 - HalfRow - 1) \div Ticks
             west == e0 \div Ticks
             east == (e1 + HalfColumn) \div Ticks
  <1>7. Candidates(r) = (Max({-Pole, south}) .. Min({Pole - 1, north})) \X (west .. east)
    BY DEF Candidates
  <1>8. /\ s \in Int /\ w \in Int /\ south \in Int /\ north \in Int /\ west \in Int /\ east \in Int
        /\ south <= s /\ s <= north /\ west <= w
        /\ short >= Ticks => w <= east
    <2>1. s = (y - HalfRow) \div Ticks
      BY <1>6 DEF s
    <2> HIDE DEF half, beside, x, y, e0, e1, n0, n1, s
    <2>2. /\ n1 - HalfRow \in Int /\ y - HalfRow \in Int /\ n0 - HalfRow - 1 \in Int
          /\ n1 - HalfRow <= y - HalfRow /\ y - HalfRow <= n0 - HalfRow - 1
          /\ x + beside \in Int /\ e1 + HalfColumn \in Int
          /\ e0 <= x + beside
          /\ short >= Ticks => x + beside <= e1 + HalfColumn
      BY <1>1, <1>2, <1>3, <1>6
    <2>3. /\ (n1 - HalfRow) \div Ticks <= (y - HalfRow) \div Ticks
          /\ (y - HalfRow) \div Ticks <= (n0 - HalfRow - 1) \div Ticks
          /\ e0 \div Ticks <= (x + beside) \div Ticks
          /\ short >= Ticks => (x + beside) \div Ticks <= (e1 + HalfColumn) \div Ticks
      <3> DEFINE a1 == n1 - HalfRow
                 a2 == y - HalfRow
                 a3 == n0 - HalfRow - 1
                 a4 == x + beside
                 a5 == e1 + HalfColumn
      <3>1. /\ a1 \in Int /\ a2 \in Int /\ a3 \in Int /\ a4 \in Int /\ a5 \in Int
            /\ a1 <= a2 /\ a2 <= a3 /\ e0 <= a4 /\ (short >= Ticks => a4 <= a5)
        BY <2>2
      <3> SUFFICES /\ a1 \div Ticks <= a2 \div Ticks /\ a2 \div Ticks <= a3 \div Ticks
                   /\ e0 \div Ticks <= a4 \div Ticks
                   /\ short >= Ticks => a4 \div Ticks <= a5 \div Ticks
        OBVIOUS
      <3> HIDE DEF a1, a2, a3, a4, a5
      <3> QED BY <1>2, <1>6, <3>1, DivMonotone
    <2>4. s \in Int /\ w \in Int /\ south \in Int /\ north \in Int /\ west \in Int /\ east \in Int
      BY <1>2, <1>6, <2>1, <2>2, DivBounds
    <2> QED BY <2>1, <2>3, <2>4
  <1> HIDE DEF s, w, south, north, west, east
  <1>9. s \in Max({-Pole, south}) .. Min({Pole - 1, north})
    <2> DEFINE a == Max({-Pole, south})
               d == Min({Pole - 1, north})
    <2>1. /\ a \in Int /\ (a = -Pole \/ a = south)
          /\ d \in Int /\ (d = Pole - 1 \/ d = north)
      BY <1>8, World, MaxOfTwo, MinOfTwo, -Pole \in Int, Pole - 1 \in Int
    <2> SUFFICES s \in a .. d
      OBVIOUS
    <2> HIDE DEF a, d
    <2>2. -Pole <= s /\ s <= Pole - 1
      BY <1>5, World DEF Souths
    <2> QED BY <1>8, <2>1, <2>2
  <1>10. w \in west .. east
    <2>1. CASE short >= Ticks
      BY <1>8, <2>1
    <2>2. CASE short < Ticks
      <3> DEFINE end == e1 + HalfColumn
                 product == w * Ticks
      <3>1. OutOfReach(r, Owner(t[1], t[2])) <=> short < Ticks /\ product > end
        <4>1. Owner(t[1], t[2])[1] = s /\ Owner(t[1], t[2])[2] = w
          <5>1. Owner(t[1], t[2]) = <<s, w>>
            BY <1>4 DEF x, y
          <5> HIDE DEF x, y
          <5> QED BY <5>1
        <4> QED BY <4>1, Zenon DEF OutOfReach, short
      <3>2. ~(product > end)
        BY <2>2, <3>1, Zenon
      <3> HIDE DEF e0, e1, x, y, n0, n1, half, beside
      <3>3. end \in Int /\ product \in Int /\ Ticks * w = product
        BY <1>2, <1>6, <1>8, SMTT(20)
      <3> HIDE DEF end, product
      <3>4. product \div Ticks = w
        <4>1. Ticks * w <= product /\ product < Ticks * w + Ticks
          BY <1>6, <3>3
        <4> QED BY <1>6, <1>8, <3>3, <4>1, DivIs
      <3>5. w <= end \div Ticks
        <4>1. product <= end
          BY <3>2, <3>3
        <4> QED BY <1>6, <3>3, <3>4, <4>1, DivMonotone
      <3>6. east = end \div Ticks
        BY DEF east, end
      <3> QED BY <1>8, <3>5, <3>6
    <2> QED BY <1>6, <2>1, <2>2
  <1>11. <<s, w>> \in Candidates(r)
    BY <1>7, <1>9, <1>10
  <1> QED BY <1>4, <1>11


(* The square ticks of a box that existing cells in reach cover.           *)
InReach(r, b) ==
  {t \in BoxTicks(r, b) :
     HasSource(Owner(t[1], t[2])) /\ ~OutOfReach(r, Owner(t[1], t[2]))}

(* The square ticks of a box that cells already averaged cover.            *)
Covered(r, b, done) ==
  {t \in BoxTicks(r, b) : Owner(t[1], t[2]) \in done /\ HasSource(Owner(t[1], t[2]))}

(* One more cell covers what it owns, if it has a source.                  *)
LEMMA CoveredGrows ==
  ASSUME NEW r \in Requests, NEW b \in Boxes(r), NEW done, NEW c \in Unwrapped, c \notin done
  PROVE /\ HasSource(c) => Cardinality(Covered(r, b, done \union {c}))
                             = Cardinality(Covered(r, b, done)) + Contribution(r, c, b)
        /\ ~HasSource(c) => Covered(r, b, done \union {c}) = Covered(r, b, done)
  <1> DEFINE S == Covered(r, b, done)
             A == Area(r, b, c)
  <1>1. ~HasSource(c) => Covered(r, b, done \union {c}) = S
    BY DEF Covered
  <1>2. HasSource(c) => Covered(r, b, done \union {c}) = S \union A
    BY DEF Covered, Area
  <1>3. S \cap A = {}
    BY DEF Covered, Area
  <1>4. IsFiniteSet(A) /\ Contribution(r, c, b) = Cardinality(A)
    BY ContributionIs
  <1>5. IsFiniteSet(S)
    <2>1. IsFiniteSet(BoxTicks(r, b)) /\ S \in SUBSET BoxTicks(r, b)
      BY BoxIs DEF Covered
    <2> QED BY <2>1, FS_Subset
  <1> HIDE DEF S, A
  <1>6. Cardinality(S \union A) = Cardinality(S) + Cardinality(A) - Cardinality(S \cap A)
    BY <1>4, <1>5, FS_Union
  <1>7. Cardinality(S) \in Nat /\ Cardinality(A) \in Nat /\ Cardinality(S \cap A) = 0
    BY <1>3, <1>4, <1>5, FS_CardinalityType, FS_EmptySet
  <1>8. Cardinality(S \union A) = Cardinality(S) + Cardinality(A)
    BY <1>6, <1>7
  <1> QED BY <1>1, <1>2, <1>4, <1>8 DEF S

(* The weights so far are the area that the cells averaged so far cover.   *)
WeightsInHand ==
  phase \in {"fetching", "answered"} /\ request.kind = "average" =>
    /\ DOMAIN weights = Boxes(request)
    /\ \A b \in Boxes(request) :
         weights[b] = Cardinality(Covered(request, b, Candidates(request) \ left))

(* A new tile has no weights yet.                                          *)
LEMMA AcceptWeights ==
  ASSUME NEW r \in Requests, Accept(r)
  PROVE WeightsInHand'
  <1> SUFFICES ASSUME r.kind = "average"
               PROVE  /\ DOMAIN weights' = Boxes(r)
                      /\ \A b \in Boxes(r) :
                           weights'[b] = Cardinality(Covered(r, b, Candidates(r) \ left'))
    <2>1. request' = r
      BY DEF Accept
    <2>2. /\ Boxes(request)' = Boxes(r)
          /\ \A b \in Boxes(r) : Covered(request, b, Candidates(request) \ left)'
                                   = Covered(r, b, Candidates(r) \ left')
      BY <2>1 DEF Boxes, Covered, BoxTicks, LongitudeEdge, LatitudeEdge, StepX, StepY,
                  Candidates, Owner, HasSource, Wrapped
    <2> QED BY <2>1, <2>2 DEF WeightsInHand
  <1>1. weights' = [b \in Boxes(r) |-> 0] /\ left' = Candidates(r)
    BY DEF Accept
  <1>2. \A b : Covered(r, b, Candidates(r) \ left') = {}
    BY <1>1 DEF Covered
  <1> QED BY <1>1, <1>2, FS_EmptySet

(* The next cell adds what it covers.                                      *)
LEMMA AverageWeights ==
  ASSUME IInv, WeightsInHand, NEW c \in left, AverageCell(c)
  PROVE WeightsInHand'
  <1>1. /\ request \in Requests /\ request.kind = "average"
        /\ left \subseteq Candidates(request) /\ c \in left
    BY DEF IInv, InHand, AverageCell
  <1> DEFINE done == Candidates(request) \ left
  <1>2. /\ request' = request /\ left' = left \ {c} /\ phase' = phase
        /\ weights' = IF HasSource(c)
                      THEN [b \in DOMAIN weights |-> weights[b] + Contribution(request, c, b)]
                      ELSE weights
    BY DEF AverageCell, HasSource
  <1>3. Candidates(request) \ left' = done \union {c} /\ c \notin done
    BY <1>1, <1>2
  <1>4. /\ DOMAIN weights = Boxes(request)
        /\ \A b \in Boxes(request) : weights[b] = Cardinality(Covered(request, b, done))
    BY <1>1 DEF WeightsInHand, AverageCell
  <1>5. c \in Unwrapped
    BY <1>1, CandidatesType
  <1> HIDE DEF done
  <1>6. ASSUME NEW b \in Boxes(request)
        PROVE  weights'[b] = Cardinality(Covered(request, b, done \union {c}))
    <2>1. CASE HasSource(c)
      <3>1. weights'[b] = weights[b] + Contribution(request, c, b)
        BY <1>2, <1>4, <2>1
      <3>2. Cardinality(Covered(request, b, done \union {c}))
              = Cardinality(Covered(request, b, done)) + Contribution(request, c, b)
        BY <1>1, <1>3, <1>5, <2>1, CoveredGrows
      <3> QED BY <1>4, <3>1, <3>2
    <2>2. CASE ~HasSource(c)
      <3>1. Covered(request, b, done \union {c}) = Covered(request, b, done)
        BY <1>1, <1>3, <1>5, <2>2, CoveredGrows
      <3> QED BY <1>2, <1>4, <2>2, <3>1
    <2> QED BY <2>1, <2>2
  <1>7. DOMAIN weights' = Boxes(request)
    BY <1>2, <1>4
  <1>8. /\ Boxes(request)' = Boxes(request)
        /\ \A b \in Boxes(request) : Covered(request, b, Candidates(request) \ left)'
                                       = Covered(request, b, done \union {c})
    <2>1. /\ Boxes(request)' = Boxes(request) /\ (Candidates(request) \ left)' = done \union {c}
          /\ \A b : BoxTicks(request, b)' = BoxTicks(request, b)
      <3>1. /\ Boxes(request)' = Boxes(request) /\ Candidates(request)' = Candidates(request)
            /\ \A b : BoxTicks(request, b)' = BoxTicks(request, b)
        BY <1>2 DEF Boxes, BoxTicks, LongitudeEdge, LatitudeEdge, StepX, StepY, Candidates
      <3> QED BY <1>3, <3>1
    <2> QED BY <2>1 DEF Covered, Owner, HasSource, Wrapped
  <1> QED BY <1>6, <1>7, <1>8 DEF WeightsInHand

(* Nothing else touches them.                                              *)
LEMMA SameWeights ==
  ASSUME WeightsInHand, UNCHANGED <<request, left, weights>>,
         phase' \in {"fetching", "answered"} => phase \in {"fetching", "answered"}
  PROVE WeightsInHand'
  <1>1. /\ Boxes(request)' = Boxes(request)
        /\ \A b : Covered(request, b, Candidates(request) \ left)'
                    = Covered(request, b, Candidates(request) \ left)
    BY DEF Boxes, Covered, BoxTicks, LongitudeEdge, LatitudeEdge, StepX, StepY,
           Candidates, Owner, HasSource, Wrapped
  <1> QED BY <1>1 DEF WeightsInHand

(* Whatever the pixel widths, blocks and cells the window is cut into: a   *)
(* finished average weighs each box by the area of it that cells with a    *)
(* source cover, no pixel twice, and none left out but the first columns   *)
(* of a cell out of reach, where columns are wider than twice HalfColumn.  *)
(* (accumulateAreaAverages, visitWindow.)                                  *)
THEOREM AveragesExact == Spec => []AveragesAreExact
  <1>1. Init => WeightsInHand
    BY DEF Init, WeightsInHand
  <1>2. IInv /\ WeightsInHand /\ [Next]_vars => WeightsInHand'
    <2> SUFFICES ASSUME IInv, WeightsInHand, [Next]_vars PROVE WeightsInHand'
      OBVIOUS
    <2>1. ASSUME NEW r \in Requests, Accept(r) PROVE WeightsInHand'
      BY <2>1, AcceptWeights
    <2>2. ASSUME NEW r \in Requests, Refuse(r) PROVE WeightsInHand'
      BY <2>2 DEF Refuse, WeightsInHand
    <2>3. ASSUME NEW c \in left, AverageCell(c) PROVE WeightsInHand'
      BY <2>3, AverageWeights
    <2>4. CASE Sample
      BY <2>4, SameWeights DEF Sample
    <2>5. CASE Answer
      BY <2>5, SameWeights DEF Answer
    <2>6. CASE UNCHANGED vars
      BY <2>6, SameWeights DEF vars
    <2> QED BY <2>1, <2>2, <2>3, <2>4, <2>5, <2>6 DEF Next
  <1>3. IInv /\ WeightsInHand => AveragesAreExact
    <2> SUFFICES ASSUME IInv, WeightsInHand, phase \in {"fetching", "answered"},
                        request.kind = "average", left = {}, NEW b \in Boxes(request)
                 PROVE  weights[b] = Cardinality(InReach(request, b))
      BY DEF AveragesAreExact, InReach
    <2>1. request \in Requests
      BY DEF IInv, InHand
    <2>2. weights[b] = Cardinality(Covered(request, b, Candidates(request)))
      BY DEF WeightsInHand
    <2>3. Covered(request, b, Candidates(request)) = InReach(request, b)
      BY <2>1, OwnerIsCandidate, CandidateInReach DEF Covered, InReach
    <2> QED BY <2>2, <2>3
  <1> QED BY Invariant, <1>1, <1>2, <1>3, PTL DEF Spec
=============================================================================
