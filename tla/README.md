# A formal model of AOWIS Server Map

TLA+ specifications of the parts of the server where actors interleave: the
HTTP thread, its worker pools, the network event loops, several server
processes on one cache directory, and the clients and upstream servers around
them. `PROJECT.json` names for every definition the source lines it models.
Paths below are relative to the repository.

## The system

The server answers HTTP requests for raster map tiles, terrain tiles, point
elevations and elevation grids, from caches it fills from upstream servers. It
can delete cached data, cancel downloads and replace the provider catalog.

| Component | State | Operations | Talks to |
| --- | --- | --- | --- |
| Terrain front end (`src/server/server.cpp`, `terrain_admission.h`, `terrain_byte_admission.h`) | promises and tokens per key, three admission counters, two thread pools | submit tile, elevation, grid, deletion; disconnect; result callbacks; destructor | TerrainData on pool threads; queued callbacks to the HTTP thread |
| Raster tiles (`src/lib/maptiles.cpp`, tile promises in `server.cpp`) | RAM cache, files per URL variant, active and queued downloads, cache writes and reads, invalidation marks, generation | get tile, join, queue, write, read, delete, cancel, reconfigure | TileHttpClient by signals, two pools with watchers, Server by signals |
| Upstream tile client (`src/lib/http_client_tilefetch.cpp`) | one reply | start, redirects, validation, cancel | MapTiles by signals |
| Normalized terrain cache (`src/lib/terrain_data.cpp`) | `.aowterrain` files and a lock file each | get, fill, repair, delete tile; sample a point; which cells need a download | provider |
| Source acquisition (`downloadSourceTile`, `copernicus_resume_state.h`, `copernicus_download_validation.h`, `copernicus_source_publish.h`) | `.tif`, `.partial`, `.partial.meta`, `.incoming` and `.lock` per cell, 404 memory, active replies, cancel generation | download, resume, publish, delete, cancel | other processes through the files |
| Source rasters (`copernicus_terrain_provider.cpp`, `copernicus_decoded_block_cache.h`) | open TIFFs, block caches, shared budgets | sample, average | budgets shared by all threads |
| Tile format, datasets, datums (`terrain_tile.cpp`, `terrain_dataset.cpp`, `terrain_elevation.cpp`) | none | encode, decode, validate | |
| Coverage (`download_coverage.cpp`) | parsed profiles | may this tile or area be downloaded | asked by both caches |
| Catalog and configuration (`configuration.cpp`, `map_provider.cpp`) | INI file, catalog file | load, save atomically | PUT providers |
| Start-up (`main.cpp`) | options | parse, check, run | |

What is hard here, and where it is looked at:

- **Single-flight and disconnects.** A job outlives its clients, a new job for
  the same key may start while the old one still runs, and its late callback
  must neither answer nor account for the new one. (TerrainFlight)
- **Reservations** taken on the HTTP thread and returned on pool threads along
  half a dozen paths; a destructor that joins two pools of which one feeds the
  other. (TerrainFlight)
- **Cache writes and reads in flight** when the tile is deleted, its download
  cancelled or its URL replaced; two spellings of one tile. (RasterTiles)
- **Crashes** between two file operations, a changed upstream object between
  two attempts, two processes at one lock. (SourceDownload)
- **A catalog in four places**: the administrator's INI, a state file the server
  writes, the running configuration and the tile path, with saves that fail or
  are cut off and files that change between starts. (ProviderCatalog)
- **Timers, limits and cancellations** that all end a transfer with the same
  error, and a second attempt after a delay. (TileClient)
- **Decide, acquire, compute**: three moments at which a terrain job looks at
  the same files, with other jobs and deletions between them. (TerrainTiles)
- **Borders.** Which cells a job downloads is computed from its address, which
  it reads from coordinates, half pixels and neighbours, with cells that change
  their pixel width and an antimeridian. (SourceCells) The same for polygons and
  the tiles they permit, and for deletion ranges that go round the world.
  (DownloadCoverage, TileRanges)

What makes each component correct is stated as its module's properties; the
list in `PROJECT.json` under `hazards` relates each to the line where it could
go wrong.

## Modules

`Safe` is `Init /\ [][Next]_vars`; `Spec` adds fairness. A definition named
`<Definition>_<mistake>` is that definition with a plausible bug; no
specification uses it, and TLC finds the property listed with it in
`PROJECT.json` violated when it takes the definition's place.

### TerrainFlight, SingleFlight, TerrainFlightProofs

`TerrainFlight` is `Server::submitTerrainTile/Elevation/Grid/Job`,
`abandonTerrainWaiters` and `~Server`. The three registries have the same
protocol and are one registry here, with the byte cost of a key telling grids
from the rest. A flight and its token are named by the request that started it.
Handlers of the HTTP thread are one step each, because the event loop runs them
to completion; a pool task is cut where it touches the token, a counter or the
other pool:

| Code | Actions |
| --- | --- |
| submitTerrain*, second and first request of a key | `JoinFlight`, `StartFlight`, `RefuseRequest` |
| deletions through submitTerrainJob | `StartDeletion`, `RefuseDeletion`, `FinishDeletion` |
| remote task: acquire, release, hand over or fail | `StartAcquisition`, `FinishAcquisition`, `HandOff`, `EndWithoutSources` |
| process_tile, process_elevation, process_grid | `StartProcessing`, `FinishProcessing` |
| queued callback, disconnected socket | `Deliver`, `Disconnect` |
| `~Server` | `BeginShutdown`, `JoinRemotePool`, `JoinWorkerPool` |

Abstractions: tasks leave a pool in any order, not FIFO (more behaviours, so
safety carries over; fairness per flight stands for FIFO in the liveness runs).
The nonblocking tryAcquire calls of a handler are one test: only the HTTP thread
acquires and a failed handler gives back what it took. `~Server` sets no
flight's token; it stops upstream transfers, which ends acquisitions.

`SingleFlight` is what a client may rely on: a request is asked once, answered
at most once, with the outcome of a computation for its key that began before
the answer, or busy, disconnected or shutdown. `TerrainFlight` implements it
under the mapping in that module (`ImplementsSingleFlight`).

### RasterTiles

`MapTiles` and the promises of `Server` for map tiles, for one provider whose
URL may be replaced. A tile's content is reduced to the URL it came from and to
how many deletions of it there were when its download was scheduled, which is
what staleness means. `RequestHit`, `RequestRead`, `RequestDownload`,
`RequestRefused` are `getTileForHttp` and `getTile`; `DownloadDone`,
`DownloadFailed` the client's signals with everything they set off
(`startQueuedDownloads` included); `WriteStart`, `WritePublish`, `WriteDone`
the worker and watcher of a cache write; `ReadFile`, `ReadDone` those of a
read; `Delete`, `CancelUpstream`, `Reconfigure`, `Shutdown` the routes.

Abstractions: there is no permanent tile directory; tile sizes do not exist, so
RAM may drop any tile at any time; `QSaveFile` replaces a file atomically;
`QNetworkReply::abort` reports synchronously; a deletion that has to wait for a
running write is enabled when the write is done. Some properties are stated
for keys of which no request overtook a pending write (`overtaken`): the
finding raster_return and a hazard in `PROJECT.json` are what happens otherwise.
In the Windows build a client that waits for its second attempt reports a
cancellation only when the delay ends (see TileClient); here it reports at once.

### TileClient, TileRequest

`TileClient` is one `TileHttpClient`: `Get`, `GetAgain` are `get` and
`getAttempt`, `Receive` is the `downloadProgress` handler of
`limitTileReplySize`, `Finish`, `Break`, `TransferEnds` are the ways a reply
ends, `Cancel` is `cancel`, and `HandleReply` with `Verdict` is `handleReply`.
Time is counted in ticks and timers fire on time. Both builds of the client are
there: the Windows one retries a timeout once. `TileRequest` is what the header
promises MapTiles: a `get` gets one report, in the end, and a cancelled one no
tile; `ImplementsTileRequest` is the refinement. `post` and the cancellation
from another thread have no caller in the repository and are left out.

### ProviderCatalog

The raster providers of the INI, of the state file, of `Server::config` and of
MapTiles. `Start` is `loadConfigFile` and `loadProviderStateFile` as `main.cpp`
orders them, `PutAccepted` and `PutRejected` the checks of PUT
`/map/v1/providers`, `SaveOpens`, `SaveWrites`, `SaveCommits`, `SaveFails` the
steps of `saveMapProvidersToState`, `Apply` the rest of the handler; `Stop` may
come at any of them. `EditIni` and `RemoveState` are the administrator. A
provider's name, URL template and zoom range are reduced to whether PUT and the
loader take them (the loader takes more); its id keeps how it was written,
since the legacy names of built-in providers and upper-case UUIDs denote ids
too. A round trip of an upper-case UUID from the INI through GET and PUT writes
it in lower case; the server treats the two as two providers, and so does the
model. PUT also accepts an id with any text after its UUID, which `QUuid` does
not look at, and `SaveWrites` writes it into a group header as it is. A file is
therefore the sequence of sections written, and `Sections` is what QSettings
makes of it: a `/` gives a subgroup whose parent has no values, what follows a
`]` is lost, so that two sections may become one, and a newline is a format
error (`StateLoads`).

### SourceDownload

`downloadSourceTile` for one cell, by workers of several processes. The worker
holds a plan of file operations and performs them one at a time, so that
another process, a cancellation or a crash can come between any two. A byte is
a pair of upstream object and position, so mixtures are visible. Abstractions:
replacing, renaming and removing a file are atomic and removing succeeds; the
lock is released by a crash and never stolen from a live process (its stale
time exceeds the download deadline); a strong ETag identifies its object, and
the bytes of a range response are those its Content-Range says; which branch a
416 takes is left open. A reply may end early without an error, as one that its
connection delimits does; `CompleteFull` is `completeCopernicusResponse`, which
has no length to compare then. A write may fail at any operation; the size limit is
such a failure.

### TerrainTiles

`terrainTile` and the fallback of `sampleElevation` for jobs as TerrainFlight
hands them over: decide on a download (`Submit`), acquire cell by cell, read,
lock, look again, fill cell by cell from what is cached, store, fall back. A
tile file is the set of cells it has no data for; damage, deletions of tiles
and sources and the end of the 404 memory may come at any moment. The download
of a cell is one step here, SourceDownload is its inside. Which cells exist
upstream does not change, remote fetching is on and the coverage permits it.

### SourceCells, SourceCellsProofs

What a request reads: `Accept` lists cells as `acquireTileSources` and
`acquireGridSources` do, `AverageCell` is one cell of `accumulateAreaAverages`
with its pixel window, its blocks and its overlaps, `Sample` one sample of
`fetchTile` or `fetchAnalysisGrid`. Coordinates are whole ticks, so that pixels
and sample boxes have whole edges, and a weight is a number of square ticks:
those that the runs of a cell come to, once for each run and column (`Visits`).
Rounding of floating-point numbers, the Mercator spacing of rows and elevations
are left out. The half-pixel constant of the columns is short of the widest
columns, as in the code (3 arc seconds where half a column is 5). The references are written the other way round: the owner of each
square of ticks, the footprint a coordinate lies in.

### TileRanges, DownloadCoverage

`TileRanges` is arithmetic: the box of a tile, the wrap-around test of a column,
the tiles and the source cells of a deletion range. `DownloadCoverage` reads
regions and profiles at the start (`ReadFeatures`, `ReadRectangles`,
`ReadProfiles`, each of which may refuse the configuration) and then answers
one question after the other: `AskTile`, `AskGrid` are `permitsTile` and
`permitsArea`, `DeleteRange` the ranges of the deletion routes. Positions are
whole ticks, so polygons have exact edges; rows are evenly spaced instead of
Mercator's, on which nothing depends.

### How the modules fit together

TerrainFlight's `acquiring` stage is TerrainTiles' `Acquire`, `AcquireCell`; its
`processing` is `Read` to `Store`. TerrainTiles' `AcquireCell` is a whole run of
SourceDownload: `PublishedIsWhole` and `PublishedOnce` are what makes `sources`
a set of cells (a file that a response without a length left short counts as a
cell there, and what reading it gives is not modelled), `AcquisitionsEnd` what
TerrainFlight's `AcquisitionsEnd` and TerrainTiles' fairness rest on. `JobsEnd`
of TerrainTiles is in turn the reason why a processing thread of TerrainFlight
comes back. TerrainTiles' `Needs` is `Listed` of SourceCells, whose
`ReadsAreListed` says that filling a tile looks at no other cell. RasterTiles
shares no state with the rest; its `DownloadDone` and `DownloadFailed` are the
reports of TileClient, of which `ImplementsTileRequest` says that one comes, and
its `Reconfigure` is the `Apply` of ProviderCatalog. What RasterTiles and
TerrainTiles leave open as a tile that "may not be fetched" is DownloadCoverage.

## Runs

| Run | Instance | Shows |
| --- | --- | --- |
| terrain_flight | 3 requests over 1 socket, a tile and a grid key, 2 jobs, 1 remote job, 2 pending, 1 thread per pool, with fairness | counters exact on every path, SingleFlight implemented; if acquisitions end, every request is answered, every job ends, `~Server` returns; jobs on cached data end even if none does: the remote pool holds no worker thread |
| raster_limits | 3 tiles on 2 hosts, 2 downloads, 1 queue place, 2 writes, 1 read, 2 promises | limits hold, the queue stands only when it must, nobody's response key is lost |
| raster_admin | 2 requests, 2 tiles, one in 2 spellings, 2 URLs, 1 download, 1 queue place, 2 writes, 2 reads, 2 deletions or reconfigurations, with fairness | a mark always has work it belongs to; no deleted and no old tile in RAM, on disk or in an answer; waiting requests are answered |
| raster_return | violation | see findings |
| tile_client | both builds, tiles of up to 3 units, 2 per look at the socket, announced sizes 0, 1, 3 and 4, with fairness | a bounded buffer, a bounded wait, one verdict on a tile that is too large, TileRequest implemented |
| provider_catalog | 11 bodies, 4 of them with text after a UUID, 6 INIs, 3 UUIDs of which 2 are built in, 3 requests, 3 edits, 4 starts, catalogs of at most 2 | no acknowledged catalog is lost, none is applied unsaved, what is listed is served; but for ids with text after the UUID, a start reads what was saved and is refused for the INI alone |
| source_files | 2 processes, 2 objects of 3 bytes of which one has a strong ETag, with fairness | what is published is one object, whole if its length was known, what is resumed is a prefix, nothing is published over, cancelled transfers are aborted, acquisitions end |
| tiles_filled | 2 jobs, a fine and a coarse tile, 2 cells of which one is ocean, with fairness | a tile is filled from all there is unless something was deleted under the job; a valid tile is not written over; jobs end |
| tiles_repair | violation | see findings |
| source_cells | 308 tiles and grids in a world of 6 by 4 degrees, 24 ticks to a degree, 2 or 4 pixel columns, 3 rows, blocks of 3 by 2 pixels, 2 missing cells, grids of at most 3 cells | reads were listed, averages weigh every pixel once but those that the half-pixel constant does not reach, native samples are nearest, grids stay under the cap |
| coverage | a world of 6 by 8 degrees and tiles to zoom 3; polygons with and without holes, rectangles, profiles of one to three tiers, bad configurations; ranges up to twice round the world | what is permitted touches a region, what touches one is permitted unless a polygon lies inside the tile; deletions take exactly their tiles and cells |
| coverage_any_part | violation | see findings |

Why the bounds are enough to be interesting: a flight needs two requests to be
joined and a third to replace it once orphaned; every limit is small enough to
be hit and large enough not to be the only outcome. A URL change, a deletion
and a download that was overtaken need two of everything in raster_admin. Three
bytes are the shortest object that can be interrupted twice with a resumption
between, and one object with a strong ETag and one without are both kinds of
resumption. Two jobs per tile are enough to race for its lock; two cells give
one that both tiles share and a 404 that makes a tile with a hole. In
source_cells degrees, pixels and samples are incommensurable enough for edges
to fall on borders, half pixels and between them, on either side of the
antimeridian, and on either side of what the half-pixel constant reaches, for
columns it covers and for wider ones. In tile_client a look at the socket may cross the size limit and
a transfer be overall too slow without ever being silent. In provider_catalog
three edits and four starts are a state file that is made, moved and lost. In
coverage the polygons' edges lie on, beside and across those of tiles, and a
quarter of the tiles' edges on those of cells.

`CHECK_DEADLOCK FALSE` appears where the server stops or all requests are made.
Symmetry is used in safety runs only.

**Fairness.** Weak fairness for each step of a pool thread, a posted callback
and the destructor: threads run, tasks of a FIFO pool start, the event loop
delivers. An acquisition ends because its transfer has a deadline and the lock
wait a limit (`copernicus_terrain_provider.cpp:312-350, 468-514`); a raster
download because its client reports, which is `ImplementsTileRequest`, from the
fairness that ticks pass and due timers run. Clients owe nothing: no fairness
on requests, disconnects, deletions, cancellations or the upstream.

## Proofs

Each module of proofs holds for every value of the constants that meets the
named assumptions of the module it is about, which TLC evaluates in every run:
finite sets where something is counted, natural numbers, and sentinels that are
nothing else.

### TerrainFlight

- `TypeCorrect`: `Safe => []TypeOK`;
- `ReservationsExact`: `Safe => []ReservationsMatchJobs`;
- `GridBytesExact`: `Safe => []GridBytesMatchFlights`;
- `JoinedFlightsAnswer`: `Safe => []RegisteredFlightsAnswer`, a key has waiters
  exactly while its registered flight is neither cancelled nor finished;
- `OnlyComputedAnswers`, `SocketsExact`, `StopsQuiet`, for `AnswersAreComputed`,
  `SocketsOfWaiters` and `StoppedIsQuiet`;
- `Implementation`: `Safe => ImplementsSingleFlight`, every step maps to a step
  of SingleFlight or a stutter.

All follow from one inductive invariant `IInv` (theorem `Invariance`): the
conjunction of `TypeOK`, `ReservationsMatchJobs`, `RegisteredFlightsAnswer`,
`AnswersAreComputed`, `SocketsOfWaiters` and `Lifecycle`. None of the
properties is inductive alone: a callback may answer the registered waiters
only because a registered flight is not cancelled, a flight skips its work only
when it is, and which counter a step gives back depends on the stages in
`Lifecycle`. There is one lemma per action; counters follow from `OneMove`,
what one flight's change of stage does to the number of flights in a set of
stages, which rests on the library's cardinality theorems. The grid budget is a
sum of what flights cost; it is stated as the number of single bytes reserved
(`ReservedBytes`, a pair of a flight and a position for each), so that a flight
takes off with a set of bytes disjoint from all others and lands with the same
set: `BytesKept` needs `IInv` for no flight landing twice.

### RasterTiles

`LimitsHold`, `MarksAreOwned`, `NobodyForgotten`, `MemoryCurrent`, `DeletedStay`
and `AnswersCurrent` are `Safe => []P` for the six invariants of the runs, for
any number of requests, tiles, spellings, URLs, hosts and any limits. They
follow from one invariant `IInv` (theorem `Invariance`), which follows a tile
through download, write and read. It says of each whom it will answer and that
these are spellings of its own key (`Addressed`, `Waiters`), which URL it is of
(`DownloadsCurrent`, `FilesCurrent`, `ReadsCurrent`), and, of a tile no request
overtook, that one download or one write of it is under way at most and that
this write is the registered one (`OneSource`), so that what is about to be
stored was either not deleted since or carries a mark or an invalidated state
(`Undeleted`). This is where the protocol of marks, write states and generation
is needed, and where it would fail for an overtaken tile. One lemma per action,
over lemmas on removing from a sequence, counting downloads per host, telling
the waiting and scheduling a download.

### SourceDownload

`PublishedWhole`, `ResumablePrefix`, `StrayTransfers` and
`NothingIsPublishedOver`, for any number of workers, processes, objects and
sizes. `PublishedWhole` is about the one operation that makes a source
(`OnlyPublished`): the worker that is about to perform it has in its files an
object from the first byte on, and all of it unless its response was a full one
without a length. The invariant says of every worker that may touch the files that it holds
the lock, so there is at most one, and for each stage of a worker and each plan
of file operations what the four files contain (`Sound`). A crash between any
two operations is harmless because what is left is what some stage allows.

### TerrainTiles

`FilledAreWhole` and `ValidStay`, for any jobs, tiles and cells. One job per
tile is between the second look under the lock and the storing (`OneFiller`),
it saw no valid tile there (`FillsInvalid`), and what an undisturbed job knows
of its sources is carried from the decision to the last cell (`Informed`).

### ProviderCatalog

`NothingAcknowledgedIsLost`, `RunsWhatItSaved`, `ServesWhatItLists` and
`RefusesForTheIni`, for any INIs, bodies, paths and profiles. A catalog that
passed the checks of PUT is `Proper`, and so is every state file. Of any text
`Sections` makes sections (`TextHasSections`); where `KeepsIds` holds, that is no
id has text after its UUID that QSettings would take for syntax, each section is
the entry of its id (`SectionIsEntry`) and the loader accepts them with the same
profiles (`TextLoads`). A catalog that was read from sections has no id twice, so
the table by id holds all of it. Without `KeepsIds` a start may be refused and
the catalog read may differ from the one saved; the two properties say so and no
more.

### TileClient

`BufferBound`, `TooLargeEnds`, `CancelEnds`, `WaitBound` and `Refinement`, the
safety part of TileRequest, for any builds, sizes and responses. The invariant
counts what the attempts that are over have cost (`Spent`).

### SourceCells

- `TypeCorrect`: `Spec => []TypeOK`, no cell outside the world is listed or read;
- `ReadsListed`: `Spec => []ReadsAreListed`;
- `OpenCellsBounded`: `Spec => []OpenCellsAreBounded`;
- `NativeSamplesNearest`: `Spec => []NativeIsNearest`;
- `AveragesExact`: `Spec => []AveragesAreExact`.

The invariant `IInv` adds to `ReadsAreListed` that while a request is in hand
its list is that of its address, the averaged cells come from its candidates and
it is not over the cap. The weight of the proof is in the arithmetic: a cell is the one a
position lies in (`SouthIs`, `WestIs`), what lies within a margin of a tile is
listed, clamping at the poles and the antimeridian included
(`TileCellIsListed`), an average's candidates are (`CandidateIsListed`), and the
nearest pixel of a grid sample is in its cell or, across an edge, in a
neighbour that is listed because the sample is within half a pixel of that edge
(`NearestLine`, `NativeIsListed`).

`NativeSamplesNearest` follows the two roundings of `sampleNative` and
`sourceGridValue`, by way of a position in the cell of the sample and one in the
cell of the pixel (`NativeIsNear`): per axis, the second undoes nothing of the
first unless the clamp moves it, and the clamp never does (`AxisPixel`,
`Unclamped`). The proof showed that the property fails in the last half pixel
before the southern pole, where no cell lies below; `RequestAssumption`
excludes it, as the code does: `validAnalysisGridRequest`
(`copernicus_terrain_provider.cpp:188-198`) ends grids at 85 degrees.

`AveragesExact` is three facts. A cell adds to a box exactly the area of it that
it owns (`ContributionIs`): every square tick of the box whose owner is the cell
is visited (`TickMet`), in one run and one column only (`MetOnce`). That needs
the pixel window to hold every pixel with a tick in it (`ColumnRangeIs`,
`RowRangeIs`), blocks to cut a window without gap or overlap (`OneBlock`,
`RunsOnce`), footprints not to overlap (`PixelOf`) and the search for the first
box to skip only boxes that end before the pixel (`ColumnSearch`, `RowSearch`).
The owner of a square tick is among the candidates, if it has a source and is
not `OutOfReach` (`OwnerIsCandidate`), and no candidate is (`CandidateInReach`).
The invariant `WeightsInHand` says that so far the weights are the area that
cells already averaged cover.

A cell is out of reach when it begins farther east of the boxes than the
half-pixel constant and half of one of its columns is wider than that. Where no
column is wider than twice the constant, nothing is, and the weights are the
whole area. `MarginAssumption` asks of that constant only that it is not above
the margin of the acquisition, and of the margins that they are at least a
pixel; it does not relate the constant to the columns.

### TileRanges, DownloadCoverage

- `RangeDeleted`: `Spec => []DeletesTheRange`;
- `CellsDeleted`: `Spec => []DeletesTheCells`;
- `AnswersFollowTheProfile`: a tile or grid of a profile is permitted exactly
  when it reaches, by the code's own tests, a region that the configuration
  gives for its zoom;
- `PermittedTouches`: `Spec => []PermittedTouchesRegion`, under a hypothesis
  about shapes.

The invariant `Asked` only says that an answer to a deletion is that of its
range; the theorems rest on arithmetic. C++'s remainder made positive is the
remainder (`PositiveModuloIs`), and the offset `tileXInsideRange` compares is
that of the one column of a turn that leaves `x` (`FromFirst`, `InsideRange`).
Tiles of one row or column follow one another without gaps, so the box around
some of them meets a cell exactly when one of them does (`Contiguous`,
`ColumnCells`, `RowCells`); a cell and a column may be moved by whole turns
(`Shifted`), which is why wrapping the cells of an unwrapped box gives the cells
of the wrapped columns (`TurnedBack`, `WrappedCells`). `TileAssumption` states
that `2^zoom` is positive because deriving it would need induction.

The invariant `Served` says that regions have the polygons of the file, profiles
are the tiers of their groups and passed `addProfile`, and the answer is that of
the question. Each zoom is in one tier (`addProfile`), and that tier is the one
that starts last up to it, which is how `Allowed` reads the configuration
(`TierOfZoom`, from the least element of a set of naturals); a column wraps to
its remainder (`Wraps`). `QuestionsAssumption` has questions of zooms that exist
(`maptiles.cpp:210`, `terrain_tile.cpp:150`; `permitsTile` and `permitsArea`
refuse any other) and profiles with keys `zoom_0` to `zoom_30`
(`configuration.cpp:497`).

Whether a polygon meets a box is not proved: `intersectsPolygon` counts
crossings, `MeetsPolygon` looks for separating lines, the two agree for convex
rings, and convexity of a ring of any length would need induction over its
edges. `PermittedTouches` assumes `FindsWhatIsThere` (what `intersectsPolygon`
finds of a configured polygon in an asked box is there), which the coverage run
decides for its polygons and boxes. What the theorem adds is everything around
the shapes: any tiers, regions, rectangles, columns and profiles. Of what is
denied nothing is proved (`DeniedOnlyAroundRegion` is model-checked): that
`intersectsPolygon` misses only what lies strictly inside a tile does not carry
over to rings that are not convex, which the code accepts and country borders
are. Both properties are checked for convex rings only.

Model-checked only: liveness (outside this prover's reach),
`DeniedOnlyAroundRegion`, and the shapes of polygons, as above.

Typing is checked by TLC in terrain_flight and proved as part of the invariants
for the other modules; RasterTiles' `TypeOK` has limits on lengths besides,
which are documentation.

## Findings

- `docs/architecture.md:38` promises that a deletion coordinates with
  overlapping writes; a tile that was downloaded twice has two writes and one
  entry for them, and the forgotten write publishes the tile after it was
  deleted (raster_return).
- `docs/terrain-providers.md:63` promises an error when sources for the repair
  of a damaged tile are missing; with some of them cached, a tile with holes is
  stored, and stays (tiles_repair).
- A polygon that lies wholly inside a tile, touching none of its edges, does not
  make the tile eligible (coverage_any_part): the vertices of a ring count as
  outside of it, the corners of the tile are outside, and no edges cross.

Three more disagreements have no run of their own; each is what a property
names as its exception, and the runs reach it:

- `docs/architecture.md:99` says that incomplete files are never published,
  `README.md:84` that incomplete files are never published as complete. Where a
  200 response announces no length, `completeCopernicusResponse`
  (`copernicus_download_validation.h:12-18`) takes any number of bytes
  (`tests/test_terrain_provider.cpp:161` asserts it), so a body that its
  connection delimits and that was cut short is published
  (`copernicus_terrain_provider.cpp:658-660`). Exception of `PublishedIsWhole`.
- `docs/http-api.md:86` says that PUT validates the UUIDs. `server.cpp:1321` asks
  `QUuid`, which ignores text after one, and `configuration.cpp:864` does not
  escape it: an id with a `/`, a `]` or a newline after the UUID is acknowledged
  and, at the next start, read as a provider with default values, merged into
  another, or a reason not to start. `KeepsIds` in `RunningIsSaved` and
  `RefusesOnlyForTheIni`.
- The comment at `copernicus_terrain_provider.cpp:52-53` has columns of up to 10
  arc seconds, the one at lines 57-58 of at most 6, and
  `MaximumSourceHalfPixelLongitudeDeg` (line 60) is half of 6. Line 1321 then
  misses the first column of the next cell for boxes whose east edge lies 3 to 5
  arc seconds west of it, beyond 85 degrees: of the tiles, those of zoom 12 with
  `x = 90 + 512 k` in the first and the last seven rows (4.56 arc seconds), whose
  averages lack a strip of less than half an arc second. `OutOfReach` in
  `AveragesAreExact`.

Smaller disagreements: `server.h:128-130` says empty registry
entries are kept until their job finishes so that no second job for a key is
made, where `abandonTerrainWaiters` (`server.cpp:416-425`) removes them at once
and a second job may run beside the orphaned one, which is what
`RegisteredFlightsAnswer` is about. `sampleElevation`'s fallback
(`terrain_data.cpp:1106`) stores the coarser tiles it looks at. A process
suspended for longer than the stale time of its lock
(`copernicus_terrain_provider.cpp:309`) would resume a transfer another took
over; the model has no such suspension.

## Not modelled

- Decoded block caches and their budgets: they decide how often a block is
  decoded and what that costs, never a sample; the byte limit is one
  fetch-and-check under a mutex.
- GeoTIFF decoding, elevations and datums, the byte format of tiles: numeric
  code without shared state, tested on examples in the repository.
- The compare-exchange loops of the admission counters, a dozen lines of one
  pattern: each tryAcquire and release is one step of TerrainFlight.
- Route parsing, API keys, JSON, headers, the other keys of the INI, option
  parsing, packaging and tools keep no state that a request changes.
- `post` and the cross-thread cancellation of TileHttpClient, which nothing
  calls; which way an answer 416 takes (`copernicus_terrain_provider.cpp:639`):
  the model lets it take either.

## Plan

Modelled, checked and proved: TerrainFlight, RasterTiles, SourceDownload,
TerrainTiles, SourceCells, ProviderCatalog, TileClient, TileRanges and
DownloadCoverage, the shapes of its polygons apart. What would add most next:

1. Abstract specifications of the two caches, as SingleFlight and TileRequest
   are of their components: a source cell that is absent or whole
   (SourceDownload implements it), a tile cache that answers from what is
   current (RasterTiles implements it).
2. TerrainTiles over that abstract cell, with `Needs` given by SourceCells'
   `Listed`, as one composition.
3. The decoded block caches under a shared budget.
