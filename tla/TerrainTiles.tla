---------------------------- MODULE TerrainTiles ----------------------------
(***************************************************************************)
(* Filling the normalized terrain tile cache: TerrainData::terrainTile and *)
(* sampleElevation (src/src/lib/terrain_data.cpp) over the native sources  *)
(* of the Copernicus provider (copernicus_terrain_provider.cpp).           *)
(*                                                                         *)
(* A tile is made from the source cells it needs.  A job that may download *)
(* first acquires the cells one by one; its CPU stage then reads the tile, *)
(* or makes it from what is cached, without downloading: a cell that is    *)
(* not cached by then is a hole in the tile, and the tile is stored.  A    *)
(* point elevation falls back to coarser tiles where a tile has no data.   *)
(* Deletions of tiles and sources run between any two steps.               *)
(*                                                                         *)
(* A tile is reduced to its holes and to how it came about, a source cell  *)
(* to being cached; the download of a cell (SourceDownload) is one step.   *)
(* Remote fetching is on and covers the tiles.  Which cells exist upstream *)
(* does not change.  Operators named <Definition>_<mistake> are that       *)
(* definition with a mistake; no specification uses them.                  *)
(***************************************************************************)
EXTENDS Naturals

CONSTANTS
  Jobs,     \* flights that may be under way
  Tiles,    \* normalized tile addresses
  Cells,    \* 1 x 1 degree source cells
  Needs,    \* the cells each tile is made from
  Coarser,  \* the tile a point of a tile falls back to, or None
  Exists,   \* the cells that exist upstream
  None      \* no tile file, no coarser tile

(* A tile file that decodes to the tile of its path.                       *)
Normalized == [holes : SUBSET Cells, origin : {"filled", "repaired", "fallback"}]
Damaged == [holes |-> Cells, origin |-> "damaged"]

ASSUME TilesAssumption ==
  /\ Needs \in [Tiles -> SUBSET Cells \ {{}}]
  /\ Coarser \in [Tiles -> Tiles \union {None}]
  /\ Exists \subseteq Cells
  /\ None \notin Tiles \union Normalized \union {Damaged}

VARIABLES
  sources,  \* cells cached as native COGs
  missing,  \* cells in unavailable_source_until
  tile,     \* file of each normalized tile
  lock,     \* tiles whose .lock file is held
  job       \* the flights and their locals

cache == <<sources, missing, tile>>
vars == <<cache, lock, job>>

Valid(file) == file # None /\ file # Damaged

Idle ==
  [stage |-> "idle",
   tile |-> None,         \* the tile it is working on
   point |-> None,        \* cell of the sampled point, or None for a tile request
   fallback |-> FALSE,    \* it went on to a coarser tile
   left |-> {},           \* cells it has not visited yet
   holes |-> {},          \* cells it found missing while filling
   repairing |-> FALSE,   \* it found the tile file damaged
   disturbed |-> FALSE]   \* history: something it depends on was deleted meanwhile

Init ==
  /\ sources \in SUBSET Exists
  /\ missing = {}
  /\ tile = [t \in Tiles |-> None]
  /\ lock = {}
  /\ job = [j \in Jobs |-> Idle]

At(j, stage) == job[j].stage = stage
Become(j, next) == job' = [job EXCEPT ![j].stage = next]
Finish(j) == job' = [job EXCEPT ![j] = Idle]
Visit(j, c, stage) == job' = [job EXCEPT ![j].left = @ \ {c}, ![j].stage = stage]

-----------------------------------------------------------------------------
(* A request: tile or point elevation *)

(* tileNeedsRemoteAcquisition: no file, and a cell that is neither cached  *)
(* nor known to be missing.                                                *)
NeedsRemote(t) == tile[t] = None /\ ~(Needs[t] \subseteq sources \union missing)

Submit(j, t, p) ==
  /\ At(j, "idle")
  /\ job' = [job EXCEPT ![j].stage = IF NeedsRemote(t) THEN "queued" ELSE "reading",
                        ![j].tile = t, ![j].point = p]
  /\ UNCHANGED <<cache, lock>>

(* acquireTileSources: nothing to acquire if there is a file by now.       *)
Acquire(j) ==
  LET t == job[j].tile
  IN /\ At(j, "queued")
     /\ \/ /\ tile[t] = None
           /\ job' = [job EXCEPT ![j].stage = "acquiring", ![j].left = Needs[t]]
        \/ tile[t] # None /\ Become(j, "reading")
     /\ UNCHANGED <<cache, lock>>

AcquireCell_IgnoresErrors(j, c) ==
  /\ At(j, "acquiring") /\ c \in job[j].left
  /\ Visit(j, c, "acquiring")
  /\ \/ c \in Exists /\ sources' = sources \union {c} /\ UNCHANGED missing
     \/ c \notin sources /\ UNCHANGED <<sources, missing>>
     \/ c \notin sources \union Exists /\ missing' = missing \union {c} /\ UNCHANGED sources
  /\ UNCHANGED <<tile, lock>>

(* One cell: known to be missing, cached or downloaded, or answered 404.   *)
AcquireCell(j, c) ==
  /\ At(j, "acquiring") /\ c \in job[j].left
  /\ \/ /\ c \in missing
        /\ Visit(j, c, "acquiring")
        /\ UNCHANGED <<sources, missing>>
     \/ /\ c \in Exists \ missing
        /\ Visit(j, c, "acquiring")
        /\ sources' = sources \union {c}
        /\ UNCHANGED missing
     \/ /\ c \notin missing \union sources \union Exists
        /\ Visit(j, c, "acquiring")
        /\ missing' = missing \union {c}
        /\ UNCHANGED sources
  /\ UNCHANGED <<tile, lock>>

(* The job is cancelled before it acquires, while it does or before its    *)
(* CPU stage begins, or a cell cannot be downloaded.                       *)
GiveUp(j) ==
  /\ At(j, "queued") \/ At(j, "acquiring") \/ (At(j, "reading") /\ ~job[j].fallback)
  /\ Finish(j)
  /\ UNCHANGED <<cache, lock>>

(* Hand-off to the CPU stage.                                              *)
Acquired(j) ==
  /\ At(j, "acquiring") /\ job[j].left = {}
  /\ Become(j, "reading")
  /\ UNCHANGED <<cache, lock>>

-----------------------------------------------------------------------------
(* terrainTile *)

(* With a tile, a point is sampled; it falls back where it is in a hole or *)
(* there is no tile.                                                       *)
Conclude(j, no_data) ==
  LET next == Coarser[job[j].tile]
  IN \/ /\ job[j].point \in no_data /\ next # None
        /\ job' = [job EXCEPT ![j] =
             [Idle EXCEPT !.stage = "reading", !.tile = next, !.point = job[j].point,
                          !.fallback = TRUE, !.disturbed = job[j].disturbed]]
     \/ (job[j].point \notin no_data \/ next = None) /\ Finish(j)

Read(j) ==
  LET file == tile[job[j].tile]
  IN /\ At(j, "reading")
     /\ \/ Valid(file) /\ Conclude(j, file.holes)
        \/ /\ ~Valid(file)
           /\ job' = [job EXCEPT ![j].stage = "locking", ![j].repairing = file = Damaged]
        \/ file # None /\ Finish(j)   \* it cannot be opened
     /\ UNCHANGED <<cache, lock>>

LockTile(j) ==
  /\ At(j, "locking") /\ job[j].tile \notin lock
  /\ lock' = lock \union {job[j].tile}
  /\ Become(j, "checking")
  /\ UNCHANGED cache

LockTimeout_Never(j) == FALSE

(* NormalizedTileLockTimeoutMs.                                            *)
LockTimeout(j) ==
  /\ At(j, "locking")
  /\ Finish(j)
  /\ UNCHANGED <<cache, lock>>

BeginFill(j) ==
  LET t == job[j].tile
  IN job' = [job EXCEPT ![j].stage = "filling", ![j].left = Needs[t],
                        ![j].repairing = @ \/ tile[t] = Damaged]

CheckAgain_Skipped(j) ==
  /\ At(j, "checking")
  /\ BeginFill(j)
  /\ UNCHANGED <<cache, lock>>

(* Another job may have filled or repaired the tile meanwhile.             *)
CheckAgain(j) ==
  LET file == tile[job[j].tile]
  IN /\ At(j, "checking")
     /\ \/ /\ Valid(file)
           /\ lock' = lock \ {job[j].tile}
           /\ Conclude(j, file.holes)
        \/ ~Valid(file) /\ BeginFill(j) /\ UNCHANGED lock
        \/ file # None /\ lock' = lock \ {job[j].tile} /\ Finish(j)
     /\ UNCHANGED cache

(* CopernicusRasterSet::raster, without downloading: the source stays open *)
(* once it is found, and a hole once it is not.                            *)
FillCell(j, c) ==
  /\ At(j, "filling") /\ c \in job[j].left
  /\ job' = [job EXCEPT ![j].left = @ \ {c},
                        ![j].holes = IF c \in sources \ missing THEN @ ELSE @ \union {c}]
  /\ UNCHANGED <<cache, lock>>

Origin(j) ==
  IF job[j].repairing THEN "repaired" ELSE IF job[j].fallback THEN "fallback" ELSE "filled"

(* The tile is stored unless it has no data at all, a source cannot be     *)
(* read, or writing fails.                                                 *)
Store(j) ==
  LET t == job[j].tile
      holes == job[j].holes
  IN /\ At(j, "filling") /\ job[j].left = {}
     /\ lock' = lock \ {t}
     /\ \/ /\ holes # Needs[t]
           /\ tile' = [tile EXCEPT ![t] = [holes |-> holes, origin |-> Origin(j)]]
           /\ Conclude(j, holes)
        \/ /\ holes = Needs[t] /\ ~job[j].repairing
           /\ UNCHANGED tile
           /\ Conclude(j, Cells)
        \/ UNCHANGED tile /\ Finish(j)
     /\ UNCHANGED <<sources, missing>>

-----------------------------------------------------------------------------
(* Deletions and damage *)

Disturb(affected) ==
  job' = [j \in Jobs |-> IF At(j, "idle") THEN Idle
                         ELSE [job[j] EXCEPT !.disturbed = @ \/ j \in affected]]

(* deleteNormalizedTiles takes no lock.                                    *)
DeleteTile(t) ==
  /\ tile[t] # None
  /\ tile' = [tile EXCEPT ![t] = None]
  /\ Disturb({j \in Jobs : job[j].tile = t})
  /\ UNCHANGED <<sources, missing, lock>>

DeleteSource(c) ==
  /\ c \in sources \union missing
  /\ sources' = sources \ {c}
  /\ missing' = missing \ {c}
  /\ Disturb({j \in Jobs : ~At(j, "idle") /\ c \in Needs[job[j].tile]})
  /\ UNCHANGED <<tile, lock>>

Expire(c) ==
  /\ c \in missing
  /\ missing' = missing \ {c}
  /\ UNCHANGED <<sources, tile, lock, job>>

(* A tile file is truncated or altered on disk.                            *)
Damage(t) ==
  /\ Valid(tile[t])
  /\ tile' = [tile EXCEPT ![t] = Damaged]
  /\ UNCHANGED <<sources, missing, lock, job>>

-----------------------------------------------------------------------------
Step(j) ==
  \/ Acquire(j) \/ Acquired(j) \/ GiveUp(j) \/ Read(j) \/ LockTile(j) \/ LockTimeout(j)
  \/ CheckAgain(j) \/ Store(j)
  \/ \E c \in Cells : AcquireCell(j, c) \/ FillCell(j, c)

Next ==
  \/ \E j \in Jobs : Step(j) \/ \E t \in Tiles : \E p \in Needs[t] \union {None} : Submit(j, t, p)
  \/ \E t \in Tiles : DeleteTile(t) \/ Damage(t)
  \/ \E c \in Cells : DeleteSource(c) \/ Expire(c)

Safe == Init /\ [][Next]_vars

(* Worker threads run; acquisitions and lock attempts have timeouts.       *)
Spec == Safe /\ \A j \in Jobs : WF_vars(Step(j))

-----------------------------------------------------------------------------
JobType ==
  [stage : {"idle", "queued", "acquiring", "reading", "locking", "checking", "filling"},
   tile : Tiles \union {None}, point : Cells \union {None}, fallback : BOOLEAN,
   left : SUBSET Cells, holes : SUBSET Cells, repairing : BOOLEAN, disturbed : BOOLEAN]

TypeOK ==
  /\ sources \subseteq Exists
  /\ missing \subseteq Cells \ Exists
  /\ tile \in [Tiles -> Normalized \union {Damaged, None}]
  /\ lock \subseteq Tiles
  /\ job \in [Jobs -> JobType]
  /\ \A j \in Jobs : At(j, "idle") <=> job[j].tile = None

(* A tile someone filled or repaired is not made again: only a missing or  *)
(* damaged file is written.  (The second read under the per-tile lock.)    *)
ValidTilesStay ==
  [][\A t \in Tiles : Valid(tile[t]) => tile'[t] \in {tile[t], Damaged, None}]_vars

(* When a request fills a tile that was not cached, and nothing it depends *)
(* on was deleted since it was submitted, the tile has data wherever there *)
(* is a source upstream.  (The decision to acquire, the acquisition, the   *)
(* memory of 404 answers and the CPU stage, which run at different times.) *)
FilledTilesAreWhole ==
  \A j \in Jobs :
    At(j, "filling") /\ Origin(j) = "filled" /\ ~job[j].disturbed
      => job[j].holes \intersect Exists = {}

(* Every job ends.                                                         *)
JobsEnd == \A j \in Jobs : ~At(j, "idle") ~> At(j, "idle")

(* Not true of the code: a damaged tile is repaired from all its sources,  *)
(* or the error is reported.                                               *)
RepairsAreWhole ==
  \A t \in Tiles : Valid(tile[t]) /\ tile[t].origin = "repaired"
                     => tile[t].holes \intersect Exists = {}
=============================================================================
