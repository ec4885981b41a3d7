-------------------------- MODULE DownloadCoverage --------------------------
(***************************************************************************)
(* Download coverage: named regions and zoom tiers are read from the       *)
(* configuration when the server starts, and each tile that is not cached  *)
(* is asked for before it is downloaded                                    *)
(* (src/src/lib/download_coverage.cpp, src/src/server/configuration.cpp).  *)
(* Deletion ranges are asked for as well, as TileRanges computes them.     *)
(*                                                                         *)
(* The configuration is a parsed one: a GeoJSON file is a sequence of      *)
(* named features, each a set of polygons, each a sequence of rings, each  *)
(* a sequence of positions; a coverage group is the set of regions at each *)
(* zoom it names.  Comparisons with an epsilon are exact here.             *)
(* Operators named <Definition>_<mistake> are that definition with a       *)
(* mistake; no specification uses them.                                    *)
(***************************************************************************)
EXTENDS TileRanges, SequencesExt

CONSTANTS
  Configurations,  \* what map-server.ini and the GeoJSON file may say
  Tiles,           \* [zoom, x, y] asked for
  Areas,           \* [zoom, box]: analysis grids asked for
  Ranges,          \* deletion ranges asked for
  None             \* no GeoJSON file, no question

RangeType == [zoom : Zooms, x_min : Int, x_max : Int, y_min : Int, y_max : Int]

ASSUME RangesAssumption == Ranges \subseteq RangeType

(* Questions and the keys zoom_N are of zooms that exist.                  *)
ASSUME QuestionsAssumption ==
  /\ Tiles \subseteq [zoom : Zooms, x : Int, y : Int]
  /\ \A area \in Areas : area.zoom \in Zooms
  /\ \A c \in Configurations : \A name \in DOMAIN c.profiles :
       DOMAIN c.profiles[name] \subseteq Zooms

VARIABLES
  configuration,  \* the one this server was started with
  stage,          \* how far it is read
  regions,        \* name -> rectangles and polygons
  profiles,       \* name -> tiers
  question,       \* the last one asked of the server
  answer

vars == <<configuration, stage, regions, profiles, question, answer>>

ValidBounds(b) ==
  /\ -HalfTurn * Ticks <= b.west /\ b.west <= b.east /\ b.east <= HalfTurn * Ticks
  /\ -Pole * Ticks <= b.south /\ b.south <= b.north /\ b.north <= Pole * Ticks

(* Edges belong to both boxes.                                             *)
Intersects(a, b) ==
  a.west <= b.east /\ b.west <= a.east /\ a.south <= b.north /\ b.south <= a.north

-----------------------------------------------------------------------------
(* Reading the configuration *)

(* A position outside the world, or a step across the antimeridian.        *)
BadRing(ring) ==
  \E i \in DOMAIN ring :
    \/ ~ValidBounds(Box(ring[i][1], ring[i][2], ring[i][1], ring[i][2]))
    \/ i > 1 /\ (ring[i][1] - ring[i-1][1] > HalfTurn * Ticks
                   \/ ring[i-1][1] - ring[i][1] > HalfTurn * Ticks)

(* Short rings are dropped; the envelope still has their positions.        *)
Polygon(rings) ==
  LET positions == UNION {ToSet(rings[i]) : i \in DOMAIN rings}
  IN [rings |-> SelectSeq(rings, LAMBDA ring : Len(ring) >= 4),
      envelope |-> Box(Min({p[1] : p \in positions}), Min({p[2] : p \in positions}),
                       Max({p[1] : p \in positions}), Max({p[2] : p \in positions}))]

FeaturePolygons(feature) ==
  {p \in {Polygon(rings) : rings \in feature.polygons} : p.rings # << >>}

Refuse == stage' = "refused" /\ UNCHANGED <<regions, profiles>>

Named(features) == {features[i].id : i \in DOMAIN features}

(* addGeoJsonRegions, when the configuration names a file.                 *)
ReadFeatures ==
  LET features == configuration.features
      bad == \E i \in DOMAIN features : \E rings \in features[i].polygons :
               \E j \in DOMAIN rings : BadRing(rings[j])
  IN /\ stage = "features"
     /\ \/ features = None /\ stage' = "rectangles" /\ UNCHANGED <<regions, profiles>>
        \/ features # None /\ (bad \/ features = << >>) /\ Refuse
        \/ /\ features # None /\ ~bad /\ features # << >>
           /\ stage' = "rectangles"
           /\ regions' =
                [name \in Named(features) |->
                   [rectangles |-> {},
                    polygons |-> UNION {FeaturePolygons(features[i]) :
                                          i \in {j \in DOMAIN features : features[j].id = name}}]]
           /\ UNCHANGED profiles
     /\ UNCHANGED <<configuration, question, answer>>

(* The region.<id> groups; addRectangle.                                   *)
ReadRectangles ==
  LET groups == configuration.rectangles
      Of(name) == IF name \in DOMAIN groups THEN groups[name] ELSE {}
      bad == \E name \in DOMAIN groups :
               name = "world" \/ \E b \in groups[name] : ~ValidBounds(b)
      before(name) == IF name \in DOMAIN regions THEN regions[name]
                      ELSE [rectangles |-> {}, polygons |-> {}]
  IN /\ stage = "rectangles"
     /\ \/ bad /\ Refuse
        \/ /\ ~bad /\ stage' = "profiles"
           /\ regions' = [name \in DOMAIN regions \union DOMAIN groups |->
                            [before(name) EXCEPT !.rectangles = @ \union Of(name)]]
           /\ UNCHANGED profiles
     /\ UNCHANGED <<configuration, question, answer>>

(* Each zoom_N lasts until the next one.                                   *)
TiersOf(starts) ==
  {LET later == {n \in DOMAIN starts : n > zoom}
   IN [minimum_zoom |-> zoom,
       maximum_zoom |-> IF later = {} THEN MaxZoom ELSE Min(later) - 1,
       regions |-> starts[zoom]] : zoom \in DOMAIN starts}

HasRegion(name) == name = "world" \/ name \in DOMAIN regions

(* addProfile: a name, known regions, and each zoom in one tier.           *)
ValidProfile(name, tiers) ==
  /\ name # "" /\ tiers # {}
  /\ \A tier \in tiers :
       /\ tier.minimum_zoom >= 0 /\ tier.maximum_zoom <= MaxZoom
       /\ tier.minimum_zoom <= tier.maximum_zoom /\ tier.regions # {}
       /\ \A region \in tier.regions : HasRegion(region)
  /\ \A zoom \in Zooms :
       Cardinality({t \in tiers : zoom \in t.minimum_zoom .. t.maximum_zoom}) = 1

(* The coverage.<id> groups.                                               *)
ReadProfiles ==
  LET groups == configuration.profiles
      bad == \E name \in DOMAIN groups :
               \/ 0 \notin DOMAIN groups[name]
               \/ ~ValidProfile(name, TiersOf(groups[name]))
  IN /\ stage = "profiles"
     /\ \/ bad /\ Refuse
        \/ /\ ~bad /\ stage' = "serving"
           /\ profiles' = [name \in DOMAIN groups |-> TiersOf(groups[name])]
           /\ UNCHANGED regions
     /\ UNCHANGED <<configuration, question, answer>>

-----------------------------------------------------------------------------
(* intersectsPolygon *)

(* Even-odd rule along the ray to the east.  An edge has its lower end and *)
(* not its upper one, and counts when it passes strictly east.             *)
RingContains(ring, x, y) ==
  LET Crosses(i) ==
        LET a == ring[i]
            b == ring[IF i = 1 THEN Len(ring) ELSE i - 1]
            run == (b[1] - a[1]) * (y - a[2])
            rise == b[2] - a[2]
        IN /\ (a[2] > y) # (b[2] > y)
           /\ IF rise > 0 THEN (x - a[1]) * rise < run ELSE (x - a[1]) * rise > run
  IN Cardinality({i \in DOMAIN ring : Crosses(i)}) % 2 = 1

Inside_IgnoresHoles(polygon, x, y) == RingContains(polygon.rings[1], x, y)

(* In the first ring and in no other.                                      *)
Inside(polygon, x, y) ==
  /\ RingContains(polygon.rings[1], x, y)
  /\ \A i \in 2 .. Len(polygon.rings) : ~RingContains(polygon.rings[i], x, y)

Cross(a, b, c) == (b[1] - a[1]) * (c[2] - a[2]) - (b[2] - a[2]) * (c[1] - a[1])

OnSegment(p, a, b) ==
  /\ Cross(a, b, p) = 0
  /\ Min({a[1], b[1]}) <= p[1] /\ p[1] <= Max({a[1], b[1]})
  /\ Min({a[2], b[2]}) <= p[2] /\ p[2] <= Max({a[2], b[2]})

Opposite(m, n) == (m > 0 /\ n < 0) \/ (m < 0 /\ n > 0)

SegmentsIntersect_Proper(a, b, c, d) ==
  Opposite(Cross(a, b, c), Cross(a, b, d)) /\ Opposite(Cross(c, d, a), Cross(c, d, b))

(* They cross, or an end of one lies on the other.                         *)
SegmentsIntersect(a, b, c, d) ==
  \/ Opposite(Cross(a, b, c), Cross(a, b, d)) /\ Opposite(Cross(c, d, a), Cross(c, d, b))
  \/ OnSegment(c, a, b) \/ OnSegment(d, a, b) \/ OnSegment(a, c, d) \/ OnSegment(b, c, d)

Corners(box) == << <<box.west, box.south>>, <<box.east, box.south>>,
                   <<box.east, box.north>>, <<box.west, box.north>> >>

InBox(p, box) ==
  box.west <= p[1] /\ p[1] <= box.east /\ box.south <= p[2] /\ p[2] <= box.north

EdgesCross(ring, box) ==
  \E i \in 2 .. Len(ring), edge \in 1 .. 4 :
    SegmentsIntersect(ring[i-1], ring[i], Corners(box)[edge], Corners(box)[(edge % 4) + 1])

IntersectsPolygon(polygon, box) ==
  /\ Intersects(polygon.envelope, box)
  /\ \/ \E p \in ToSet(polygon.rings[1]) : InBox(p, box) /\ Inside(polygon, p[1], p[2])
     \/ \E p \in ToSet(Corners(box)) : Inside(polygon, p[1], p[2])
     \/ \E i \in DOMAIN polygon.rings : EdgesCross(polygon.rings[i], box)

-----------------------------------------------------------------------------
(* Questions *)

(* The empty profile is no restriction, an unknown one permits nothing.    *)
PermitsArea(profile, zoom, area) ==
  \/ profile = ""
  \/ /\ zoom \in Zooms /\ profile \in DOMAIN profiles
     /\ \E tier \in profiles[profile] :
          /\ zoom \in tier.minimum_zoom .. tier.maximum_zoom
          /\ \E name \in tier.regions :
               \/ name = "world"
               \/ /\ name \in DOMAIN regions
                  /\ \/ \E b \in regions[name].rectangles : Intersects(b, area)
                     \/ \E p \in regions[name].polygons : IntersectsPolygon(p, area)

PermitsTile(profile, zoom, x, y) ==
  LET count == 2^zoom
  IN \/ profile = ""
     \/ /\ zoom \in Zooms /\ profile \in DOMAIN profiles /\ y \in 0 .. count - 1
        /\ PermitsArea(profile, zoom,
                       XyzBounds(zoom, Remainder(Remainder(x, count) + count, count), y))

Init ==
  /\ configuration \in Configurations
  /\ stage = "features"
  /\ regions = [name \in {} |-> None] /\ profiles = [name \in {} |-> None]
  /\ question = None /\ answer = None

Ask(q, a) ==
  /\ stage = "serving" /\ question = None
  /\ question' = q /\ answer' = a
  /\ UNCHANGED <<configuration, stage, regions, profiles>>

Profiles == DOMAIN profiles \union {"", "undefined"}

AskTile(t, profile) ==
  Ask([kind |-> "tile", profile |-> profile, zoom |-> t.zoom, x |-> t.x, y |-> t.y],
      PermitsTile(profile, t.zoom, t.x, t.y))

AskGrid(area, profile) ==
  Ask([kind |-> "grid", profile |-> profile, zoom |-> area.zoom, box |-> area.box],
      PermitsArea(profile, area.zoom, area.box))

DeleteRange(range) ==
  Ask([kind |-> "range", range |-> range],
      IF ValidRange(range) THEN [tiles |-> TilesOfRange(range), cells |-> CellsOfRange(range)]
      ELSE None)

(* Questions change nothing: the next one finds the server as it was.      *)
Done ==
  /\ question # None
  /\ question' = None /\ answer' = None
  /\ UNCHANGED <<configuration, stage, regions, profiles>>

Next ==
  \/ ReadFeatures \/ ReadRectangles \/ ReadProfiles
  \/ \E t \in Tiles, profile \in Profiles : AskTile(t, profile)
  \/ \E area \in Areas, profile \in Profiles : AskGrid(area, profile)
  \/ \E range \in Ranges : DeleteRange(range)
  \/ Done

Spec == Init /\ [][Next]_vars

-----------------------------------------------------------------------------
(* Properties *)

RegionType(r) ==
  /\ \A b \in r.rectangles : ValidBounds(b)
  /\ \A p \in r.polygons :
       /\ p.rings # << >> /\ ValidBounds(p.envelope)
       /\ \A i \in DOMAIN p.rings : \A q \in ToSet(p.rings[i]) : InBox(q, p.envelope)

(* Types, and: a tier names regions that exist, so permitsArea never skips *)
(* one it does not know; every zoom of a profile has a tier.               *)
TypeOK ==
  /\ stage \in {"features", "rectangles", "profiles", "serving", "refused"}
  /\ \A name \in DOMAIN regions : RegionType(regions[name])
  /\ \A name \in DOMAIN profiles : \A tier \in profiles[name] :
       \A region \in tier.regions : HasRegion(region)
  /\ \A name \in DOMAIN profiles : \A zoom \in Zooms :
       \E tier \in profiles[name] : zoom \in tier.minimum_zoom .. tier.maximum_zoom
  /\ stage # "serving" => question = None

(* A convex ring and a box have a point in common, edges included: neither *)
(* an edge of the ring nor one of the box separates them.                  *)
MeetsConvex(ring, box) ==
  /\ \E p \in ToSet(ring) : p[1] >= box.west
  /\ \E p \in ToSet(ring) : p[1] <= box.east
  /\ \E p \in ToSet(ring) : p[2] >= box.south
  /\ \E p \in ToSet(ring) : p[2] <= box.north
  /\ \A i \in 2 .. Len(ring) :
       LET Side(p) == Cross(ring[i-1], ring[i], p)
           corners == ToSet(Corners(box))
       IN /\ ~((\A p \in ToSet(ring) : Side(p) >= 0) /\ (\A p \in corners : Side(p) < 0))
          /\ ~((\A p \in ToSet(ring) : Side(p) <= 0) /\ (\A p \in corners : Side(p) > 0))

StrictlyWithin(box, ring) ==
  \/ \A p \in ToSet(Corners(box)), i \in 2 .. Len(ring) :
       ring[i-1] # ring[i] => Cross(ring[i-1], ring[i], p) > 0
  \/ \A p \in ToSet(Corners(box)), i \in 2 .. Len(ring) :
       ring[i-1] # ring[i] => Cross(ring[i-1], ring[i], p) < 0

(* For convex rings, the later ones inside the first.                      *)
MeetsPolygon(polygon, box) ==
  /\ MeetsConvex(polygon.rings[1], box)
  /\ \A i \in 2 .. Len(polygon.rings) : ~StrictlyWithin(box, polygon.rings[i])

MeetsRegion(name, box) ==
  \/ name = "world"
  \/ \E b \in regions[name].rectangles : Intersects(b, box)
  \/ \E p \in regions[name].polygons : MeetsPolygon(p, box)

(* The regions that the configuration gives for a zoom.                    *)
Allowed(profile, zoom) ==
  LET starts == configuration.profiles[profile]
  IN starts[Max({n \in DOMAIN starts : n <= zoom})]

AskedBox(q) == IF q.kind = "grid" THEN q.box ELSE XyzBounds(q.zoom, q.x % 2^q.zoom, q.y)

(* Asked about a tile or grid of a profile that exists, in the world.      *)
Restricted(q) ==
  /\ q # None /\ q.kind \in {"tile", "grid"} /\ q.profile \in DOMAIN profiles
  /\ q.kind = "tile" => q.y \in 0 .. 2^q.zoom - 1

Touched(q) == \E name \in Allowed(q.profile, q.zoom) : MeetsRegion(name, AskedBox(q))

(* Whatever is permitted touches a region of its zoom: no tile in a hole,  *)
(* beside a slanted border or of another tier is downloaded.               *)
PermittedTouchesRegion == Restricted(question) /\ answer => Touched(question)

(* A tile that touches a region of its zoom and is denied has the whole of *)
(* a polygon strictly inside: borders, corners and boxes never deny one.   *)
DeniedOnlyAroundRegion ==
  Restricted(question) /\ ~answer /\ Touched(question) =>
    \E name \in Allowed(question.profile, question.zoom) \ {"world"} :
      \E p \in regions[name].polygons :
        LET box == AskedBox(question)
        IN /\ box.west < p.envelope.west /\ p.envelope.east < box.east
           /\ box.south < p.envelope.south /\ p.envelope.north < box.north

(* Not true of the code: any part of a region in a tile is enough.         *)
AnyPartIsEnough == Restricted(question) /\ Touched(question) => answer

Deleted == question # None /\ question.kind = "range" /\ answer # None

(* A deletion takes exactly the tiles that some column of the range and    *)
(* some row of it name, however often the range goes round the world.      *)
DeletesTheRange ==
  Deleted =>
    LET range == question.range
    IN answer.tiles =
         {<<x % 2^range.zoom, y>> : x \in range.x_min .. range.x_max,
                                    y \in (range.y_min .. range.y_max) \intersect
                                            (0 .. 2^range.zoom - 1)}

(* A deletion of sources takes exactly the cells that have a part of some  *)
(* area in a tile of the range: none is taken across a shared edge, none   *)
(* is missed across the antimeridian.                                      *)
DeletesTheCells ==
  Deleted =>
    answer.cells =
      {cell \in (-Pole .. Pole - 1) \X (-HalfTurn .. HalfTurn - 1) :
         \E t \in answer.tiles :
           LET box == XyzBounds(question.range.zoom, t[1], t[2])
           IN /\ cell[1] * Ticks < box.north /\ box.south < (cell[1] + 1) * Ticks
              /\ cell[2] * Ticks < box.east /\ box.west < (cell[2] + 1) * Ticks}
=============================================================================
