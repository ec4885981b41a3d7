------------------------- MODULE MCDownloadCoverage -------------------------
(* A world of six degrees around and eight from pole to pole, with tiles   *)
(* to zoom 3, whose edges fall on and between those of the cells.          *)
EXTENDS DownloadCoverage

Ring(p) == Append(p, p[1])
Feature(id, polygons) == [id |-> id, polygons |-> polygons]

Hole == Ring(<< <<-4, -4>>, <<4, -4>>, <<4, 4>>, <<-4, 4>> >>)
SlantedHole == Ring(<< <<-4, 0>>, <<0, -5>>, <<4, 0>>, <<0, 4>> >>)
Around == Ring(<< <<-11, -9>>, <<0, -15>>, <<12, -9>>, <<11, 4>>, <<1, 14>>, <<-10, 5>> >>)

(* Convex rings in both directions, with level, upright and slanted sides. *)
Shapes ==
  { << Ring(<< <<1, 1>>, <<5, 2>>, <<1, 5>> >>) >>,
    << Ring(<< <<1, 1>>, <<5, 1>>, <<4, 5>>, <<2, 4>> >>) >>,
    << Ring(<< <<0, 3>>, <<3, 0>>, <<0, -3>>, <<-3, 0>> >>) >>,
    << Ring(<< <<-9, 3>>, <<-2, 10>>, <<-8, 8>> >>) >>,
    << Ring(<< <<7, -7>>, <<12, -12>>, <<10, -5>> >>) >>,
    << Ring(<< <<-12, -16>>, <<0, -16>>, <<12, -16>>, <<12, -13>>, <<0, -13>>, <<-12, -13>> >>) >>,
    << Around >>, << Around, Hole >>, << Around, SlantedHole >>,
    << Around, << <<0, 0>>, <<1, 1>>, <<0, 0>> >> >> }

(* MeetsPolygon is exact for convex rings that turn one way.               *)
Convex(ring) ==
  \/ \A i \in 2 .. Len(ring) : \A p \in ToSet(ring) : Cross(ring[i-1], ring[i], p) >= 0
  \/ \A i \in 2 .. Len(ring) : \A p \in ToSet(ring) : Cross(ring[i-1], ring[i], p) <= 0
ASSUME ShapesAreConvex == \A s \in Shapes : \A i \in DOMAIN s : Convex(s[i])

Bad ==
  { << Ring(<< <<-11, 0>>, <<11, 0>>, <<11, 3>> >>) >>,
    << Ring(<< <<0, 15>>, <<3, 17>>, <<3, 12>> >>) >> }

Site == Box(3, -3, 7, 2)
Strip == Box(9, -16, 12, 16)

Profile(starts) == [name \in {"p"} |-> starts]
WorldThenArea == Profile([n \in {0, 2} |-> IF n = 0 THEN {"world"} ELSE {"area"}])
AreaThenSite == Profile([n \in {0, 1, 3} |-> IF n = 1 THEN {"area", "site"}
                                             ELSE IF n = 0 THEN {"area"} ELSE {"site"}])
SiteOnly == Profile([n \in {0} |-> {"site"}])
Late == Profile([n \in {1} |-> {"world"}])
Nameless == [name \in {""} |-> [n \in {0} |-> {"world"}]]

Sites(boxes) == [name \in {"site"} |-> boxes]
NoSites == [name \in {} |-> {}]

MCConfigurations ==
  [features : {<<Feature("area", {s})>> : s \in Shapes},
   rectangles : {Sites({Site})}, profiles : {WorldThenArea, AreaThenSite}]
  \union
  [features : {<<Feature("area", {s}), Feature("area", {t})>> :
                 s \in {<<Around, Hole>>}, t \in Shapes \union Bad},
   rectangles : {NoSites}, profiles : {WorldThenArea, AreaThenSite}]
  \union
  [features : {None, << >>}, rectangles : {Sites({Site, Strip}), NoSites, [name \in {"world"} |-> {Site}]},
   profiles : {SiteOnly, Late, Nameless, WorldThenArea}]

MCTiles ==
  UNION {[zoom : {z}, x : -(2^z) .. 2 * 2^z - 1, y : -1 .. 2^z] : z \in 0 .. 3}
MCAreas == {[zoom |-> 3, box |-> Box(w, s, w + n, s + n)] :
              w \in {-12, -4, 1, 4}, s \in {-16, -1, 2, 8}, n \in {1, 8}}
MCRanges ==
  [zoom : 0 .. 3, x_min : -9 .. 9, x_max : -4 .. 10, y_min : {0}, y_max : {1}]
  \union [zoom : 0 .. 3, x_min : {-1, 6}, x_max : {0, 9}, y_min : -1 .. 8, y_max : -2 .. 9]
=============================================================================
