---------------------------- MODULE RasterTiles ----------------------------
(***************************************************************************)
(* The raster tile path of the server: MapTiles (src/src/lib/maptiles.cpp) *)
(* and the part of Server that keeps the waiting promises of map tiles.    *)
(*                                                                         *)
(* A request is served from RAM, else from a disk read on a worker, else   *)
(* by an upstream download which is started, queued or joined.  A finished *)
(* download is put in RAM and written to disk by a worker; its requests    *)
(* are answered when the write is done.  Deletion, cancellation and the    *)
(* replacement of the provider catalog meet all of these half-way.         *)
(*                                                                         *)
(* One provider is modelled, with its current URL.  What a tile contains   *)
(* is reduced to what the properties tell apart: the URL it came from and  *)
(* how many deletions of it had happened when its download was scheduled.  *)
(* The promises of a tile are kept per response key, as the client spelled *)
(* it; x and x + 2^z are two response keys of one canonical key.           *)
(*                                                                         *)
(* The HTTP thread runs handlers to completion, so each is one step, and   *)
(* QNetworkReply::abort() reports to its client before it returns.  There  *)
(* is no permanent tile directory.  Operators named <Definition>_<mistake> *)
(* are that definition with a mistake; no specification uses them.         *)
(***************************************************************************)
EXTENDS Naturals, FiniteSets, SequencesExt

CONSTANTS
  Requests,       \* HTTP requests; each is made at most once
  Keys,           \* canonical keys: provider/z/x/y with x wrapped
  ResponseKeys,   \* provider_z_x_y as requested
  Canonical,      \* the canonical key of each response key
  Urls,           \* upstream URL templates of the provider
  FirstUrl,       \* the one configured at start
  Origins,        \* hosts a URL can resolve to ({s} is drawn at random)
  None,           \* no tile, no download, no request
  MaxActive,      \* maximum_active_downloads
  MaxPerOrigin,   \* MaximumActiveDownloadsPerOrigin, 6
  MaxQueued,      \* maximum_queued_downloads
  MaxWrites,      \* MaximumPendingCacheWrites, 64
  MaxReads,       \* MaximumPendingCacheReads, 64
  MaxPending,     \* maximum_pending_requests
  WriteThreads,   \* threads of cache_write_pool, 2
  MaxGeneration   \* bound on deletions and reconfigurations together

Tiles == [url : Urls, epoch : 0 .. MaxGeneration]
DownloadType == [key : Keys, url : Urls, epoch : 0 .. MaxGeneration, origin : Origins]

ASSUME RasterAssumption ==
  /\ IsFiniteSet(Keys)
  /\ Canonical \in [ResponseKeys -> Keys]
  /\ FirstUrl \in Urls
  /\ Origins # {}
  /\ None \notin ResponseKeys \union Tiles \union DownloadType
  /\ MaxActive \in Nat \ {0} /\ MaxPerOrigin \in Nat \ {0} /\ WriteThreads \in Nat \ {0}
  /\ MaxQueued \in Nat /\ MaxWrites \in Nat /\ MaxReads \in Nat /\ MaxPending \in Nat
  /\ MaxGeneration \in Nat

VARIABLES
  phase,       \* "running" or "stopped"
  url,         \* the provider's configured URL
  generation,  \* cache_generation
  memory,      \* tile_memory_cache: key -> tile or None
  files,       \* tiles on disk, per URL variant and key
  active,      \* downloads_active and their clients: key -> download or None
  queue,       \* downloads_queued
  responders,  \* response keys of the download of each key
  marks,       \* downloads_invalidated
  writes,      \* scheduled cache writes, oldest first, until their watcher ran
  reads,       \* cache_reads_pending with their workers
  asked,       \* response key of each request that was made
  urls_since,  \* history: the URLs configured from then to its answer
  waiting,     \* requests with a promise in connections_pending
  answer,      \* how each request was answered
  served,      \* the tile it was answered with
  deletions,   \* history: deletions of each file so far
  overtaken    \* history: keys of which a request missed RAM while a write was pending

caches == <<memory, files, writes, reads, deletions>>
downloads == <<active, queue, responders, marks>>
clients == <<asked, urls_since>>
replies == <<waiting, answer, served>>
vars == <<phase, url, generation, caches, downloads, clients, replies, overtaken>>

Init ==
  /\ phase = "running"
  /\ url = FirstUrl
  /\ generation = 0
  /\ memory = [k \in Keys |-> None]
  /\ files \in [Urls -> [Keys -> {None}]]
       \union {[u \in Urls |-> [k \in Keys |-> [url |-> u, epoch |-> 0]]]}
  /\ active = [k \in Keys |-> None]
  /\ queue = << >>
  /\ responders = [k \in Keys |-> {}]
  /\ marks = {}
  /\ writes = << >>
  /\ reads = {}
  /\ asked = [r \in Requests |-> None]
  /\ urls_since = [r \in Requests |-> {}]
  /\ waiting = {}
  /\ answer = [r \in Requests |-> "none"]
  /\ served = [r \in Requests |-> None]
  /\ deletions = [u \in Urls |-> [k \in Keys |-> 0]]
  /\ overtaken = {}

-----------------------------------------------------------------------------
(* Answers: Server::onTileReady, onTileFailed *)

(* All promises under the response keys in R are taken and answered.       *)
Tell(R, how, tile) ==
  LET told == {r \in waiting : asked[r] \in R}
  IN /\ waiting' = waiting \ told
     /\ answer' = [r \in Requests |-> IF r \in told THEN how ELSE answer[r]]
     /\ served' = [r \in Requests |-> IF r \in told THEN tile ELSE served[r]]

TileReady(R, tile) == Tell(R, "ready", tile)
TileFailed(R, how) == Tell(R, how, None)

-----------------------------------------------------------------------------
(* RAM cache *)

(* Inserting into the QCache may evict any other entries.                  *)
Remember(k, tile) ==
  \E evicted \in SUBSET (Keys \ {k}) :
    memory' = [x \in Keys |-> IF x = k THEN tile
                              ELSE IF x \in evicted THEN None ELSE memory[x]]

-----------------------------------------------------------------------------
(* Downloads: scheduleMapTileDownload, startQueuedDownloads *)

Downloading(act) == {k \in Keys : act[k] # None}
Queued == {queue[i].key : i \in DOMAIN queue}
InProgress(k) == k \in Downloading(active) \union Queued

CanStart(origin, act) ==
  /\ Cardinality(Downloading(act)) < MaxActive
  /\ Cardinality({k \in Downloading(act) : act[k].origin = origin}) < MaxPerOrigin

NewDownload(k, origin) ==
  [key |-> k, url |-> url, epoch |-> deletions[url][k], origin |-> origin]

Join_Forgets(k, R) ==
  /\ InProgress(k)
  /\ UNCHANGED <<active, queue, responders>>

Join(k, R) ==
  /\ InProgress(k)
  /\ responders' = [responders EXCEPT ![k] = @ \union R]
  /\ UNCHANGED <<active, queue>>

StartNow(k, R, origin) ==
  /\ ~InProgress(k) /\ CanStart(origin, active)
  /\ active' = [active EXCEPT ![k] = NewDownload(k, origin)]
  /\ responders' = [responders EXCEPT ![k] = R]
  /\ UNCHANGED queue

Enqueue(k, R, origin) ==
  /\ ~InProgress(k) /\ ~CanStart(origin, active) /\ Len(queue) < MaxQueued
  /\ queue' = Append(queue, NewDownload(k, origin))
  /\ responders' = [responders EXCEPT ![k] = R]
  /\ UNCHANGED active

Schedule(k, R, origin) ==
  /\ Join(k, R) \/ StartNow(k, R, origin) \/ Enqueue(k, R, origin)
  /\ UNCHANGED marks

QueueFull(k, origin) ==
  ~InProgress(k) /\ ~CanStart(origin, active) /\ Len(queue) >= MaxQueued

DownloadEnds_StartsNone(k) ==
  /\ active' = [active EXCEPT ![k] = None]
  /\ queue' = queue
  /\ responders' = [responders EXCEPT ![k] = {}]
  /\ marks' = marks \ {k}

(* The bookkeeping of a download that ended, then the first queued one     *)
(* that may start.  (QueueIsBlocked: the loop finds no second one.)        *)
DownloadEnds(k) ==
  LET rest == [active EXCEPT ![k] = None]
      eligible == {i \in DOMAIN queue : CanStart(queue[i].origin, rest)}
  IN /\ \/ eligible = {} /\ active' = rest /\ queue' = queue
        \/ \E first \in eligible :
             /\ \A i \in eligible : first <= i
             /\ active' = [rest EXCEPT ![queue[first].key] = queue[first]]
             /\ queue' = RemoveAt(queue, first)
     /\ responders' = [responders EXCEPT ![k] = {}]
     /\ marks' = marks \ {k}

Tile(download) == [url |-> download.url, epoch |-> download.epoch]

NewWrite(k) ==
  [key |-> k, tile |-> Tile(active[k]), to |-> responders[k], stage |-> "queued",
   registered |-> TRUE, invalidated |-> FALSE]

(* cache_write_states and cache_writes_pending_keys hold one write per     *)
(* key: scheduling a write, and finishing one, drops whichever is there.   *)
Unregister(k) ==
  [i \in DOMAIN writes |->
     IF writes[i].key = k THEN [writes[i] EXCEPT !.registered = FALSE] ELSE writes[i]]

(* requestFinished: the tile is answered at once if it must not be stored, *)
(* and otherwise put in RAM and handed to a write worker.                  *)
DownloadDone(k, may_store) ==
  /\ phase = "running" /\ active[k] # None
  /\ DownloadEnds(k)
  /\ \/ /\ k \in marks \/ ~may_store \/ Len(writes) >= MaxWrites
        /\ TileReady(responders[k], Tile(active[k]))
        /\ UNCHANGED <<memory, writes>>
     \/ /\ k \notin marks /\ may_store /\ Len(writes) < MaxWrites
        /\ Remember(k, Tile(active[k]))
        /\ writes' = Append(Unregister(k), NewWrite(k))
        /\ UNCHANGED replies
  /\ UNCHANGED <<phase, url, generation, files, reads, deletions, clients, overtaken>>

(* requestError: upstream error, invalid response or timeout.              *)
DownloadFailed(k) ==
  /\ phase = "running" /\ active[k] # None
  /\ DownloadEnds(k)
  /\ TileFailed(responders[k], "failed")
  /\ UNCHANGED <<phase, url, generation, caches, clients, overtaken>>

-----------------------------------------------------------------------------
(* Cache writes: cache_write_pool (first in, first out) and its watchers *)

Running == {i \in DOMAIN writes : writes[i].stage = "publishing"}

WriteStart_Unchecked(i) ==
  /\ writes[i].stage = "queued"
  /\ \A j \in 1 .. i - 1 : writes[j].stage # "queued"
  /\ Cardinality(Running) < WriteThreads
  /\ writes' = [writes EXCEPT ![i].stage = "publishing"]
  /\ UNCHANGED <<phase, url, generation, memory, files, reads, deletions, downloads,
                 clients, replies, overtaken>>

(* The worker takes the write's mutex and looks at its invalidation mark.  *)
WriteStart(i) ==
  /\ writes[i].stage = "queued"
  /\ \A j \in 1 .. i - 1 : writes[j].stage # "queued"
  /\ Cardinality(Running) < WriteThreads
  /\ writes' = [writes EXCEPT ![i].stage =
                  IF writes[i].invalidated THEN "done" ELSE "publishing"]
  /\ UNCHANGED <<phase, url, generation, memory, files, reads, deletions, downloads,
                 clients, replies, overtaken>>

(* saveMapTile replaces the file of the URL's variant, or fails.           *)
WritePublish(i) ==
  /\ writes[i].stage = "publishing"
  /\ writes' = [writes EXCEPT ![i].stage = "done"]
  /\ \/ files' = [files EXCEPT ![writes[i].tile.url][writes[i].key] = writes[i].tile]
     \/ files' = files
  /\ UNCHANGED <<phase, url, generation, memory, reads, deletions, downloads,
                 clients, replies, overtaken>>

WriteDone_Silent(i) ==
  /\ phase = "running" /\ writes[i].stage = "done"
  /\ writes' = RemoveAt(Unregister(writes[i].key), i)
  /\ marks' = marks \ {writes[i].key}
  /\ UNCHANGED <<phase, url, generation, memory, files, reads, deletions,
                 active, queue, responders, clients, replies, overtaken>>

(* The watcher drops the registered write of the key, its own or not, and  *)
(* the mark of the key; then the requests are answered.                    *)
WriteDone(i) ==
  /\ phase = "running" /\ writes[i].stage = "done"
  /\ writes' = RemoveAt(Unregister(writes[i].key), i)
  /\ marks' = marks \ {writes[i].key}
  /\ TileReady(writes[i].to, writes[i].tile)
  /\ UNCHANGED <<phase, url, generation, memory, files, reads, deletions,
                 active, queue, responders, clients, overtaken>>

Writing(k) == \E i \in DOMAIN writes : writes[i].key = k

(* A request or a retried read of k missed RAM.                            *)
Miss(k) == overtaken' = IF Writing(k) THEN overtaken \union {k} ELSE overtaken

-----------------------------------------------------------------------------
(* Requests: the tile route, getTileForHttp, getTile *)

Ask(r, rk) ==
  /\ phase = "running" /\ asked[r] = None
  /\ asked' = [asked EXCEPT ![r] = rk]
  /\ urls_since' = [urls_since EXCEPT ![r] = {url}]
  /\ UNCHANGED <<phase, url, generation, files, writes, deletions>>

Reply(r, how, tile) ==
  /\ answer' = [answer EXCEPT ![r] = how]
  /\ served' = [served EXCEPT ![r] = tile]
  /\ UNCHANGED waiting

(* A pending tile: 202 for cache-first delivery, else a waiting promise.   *)
Pend(r, cache_first) ==
  \/ cache_first /\ Reply(r, "accepted", None)
  \/ ~cache_first /\ Cardinality(waiting) >= MaxPending /\ Reply(r, "busy", None)
  \/ /\ ~cache_first /\ Cardinality(waiting) < MaxPending
     /\ waiting' = waiting \union {r}
     /\ UNCHANGED <<answer, served>>

RequestHit(r, rk) ==
  /\ Ask(r, rk)
  /\ memory[Canonical[rk]] # None
  /\ Reply(r, "ready", memory[Canonical[rk]])
  /\ UNCHANGED <<memory, reads, downloads, overtaken>>

OnDisk(k) == memory[k] = None /\ files[url][k] # None

SameRead(rd, k) == rd.key = k /\ rd.generation = generation

(* A tile on disk: join the read of this generation, or start one.         *)
RequestRead(r, rk, cache_first) ==
  LET k == Canonical[rk]
      same == {rd \in reads : SameRead(rd, k)}
  IN /\ Ask(r, rk)
     /\ OnDisk(k)
     /\ \/ /\ same # {}
           /\ reads' = {IF rd \in same THEN [rd EXCEPT !.to = @ \union {rk}] ELSE rd
                          : rd \in reads}
        \/ /\ same = {} /\ Cardinality(reads) < MaxReads
           /\ reads' = reads \union
                {[key |-> k, generation |-> generation, url |-> url, to |-> {rk},
                  done |-> FALSE, tile |-> None]}
     /\ Pend(r, cache_first)
     /\ Miss(k)
     /\ UNCHANGED <<memory, downloads>>

RequestDownload(r, rk, origin, cache_first) ==
  LET k == Canonical[rk]
  IN /\ Ask(r, rk)
     /\ memory[k] = None /\ files[url][k] = None
     /\ Schedule(k, {rk}, origin)
     /\ Pend(r, cache_first)
     /\ Miss(k)
     /\ UNCHANGED <<memory, reads>>

(* Too many reads or queued downloads, or a tile that may not be fetched   *)
(* (remote fetching off, zoom or coverage).                                *)
RequestRefused(r, rk, origin) ==
  LET k == Canonical[rk]
  IN /\ Ask(r, rk)
     /\ \/ /\ OnDisk(k) /\ Cardinality(reads) >= MaxReads
           /\ \A rd \in reads : ~SameRead(rd, k)
           /\ Reply(r, "busy", None)
        \/ /\ memory[k] = None /\ files[url][k] = None
           /\ \/ QueueFull(k, origin) /\ Reply(r, "busy", None)
              \/ Reply(r, "invalid", None)
     /\ UNCHANGED <<memory, reads, downloads, overtaken>>

-----------------------------------------------------------------------------
(* Cache reads: cache_read_pool and its watchers *)

(* The worker reads the file, or finds it gone, unreadable or of another   *)
(* size than was reserved.                                                 *)
ReadFile(rd) ==
  /\ rd \in reads /\ ~rd.done
  /\ \E tile \in {files[rd.url][rd.key], None} :
       reads' = (reads \ {rd}) \union {[rd EXCEPT !.done = TRUE, !.tile = tile]}
  /\ UNCHANGED <<phase, url, generation, memory, files, writes, deletions, downloads,
                 clients, replies, overtaken>>

(* A read that failed takes the normal path again, once for all of its     *)
(* response keys: they share the canonical key.                            *)
Retry(rd, origin) ==
  LET k == rd.key
  IN \/ /\ memory[k] # None
        /\ TileReady(rd.to, memory[k])
        /\ UNCHANGED <<memory, downloads, overtaken>>
     \/ /\ OnDisk(k)
        /\ Remember(k, files[url][k])
        /\ TileReady(rd.to, files[url][k])
        /\ UNCHANGED <<downloads, overtaken>>
     \/ /\ memory[k] = None /\ files[url][k] = None
        /\ \/ /\ Schedule(k, rd.to, origin)
              /\ Miss(k)
              /\ UNCHANGED replies
           \/ /\ TileFailed(rd.to, "failed")   \* QueueFull, or not to be fetched
              /\ UNCHANGED <<downloads, overtaken>>
        /\ UNCHANGED memory

ReadDone_AnyGeneration(rd, origin) ==
  /\ phase = "running" /\ rd \in reads /\ rd.done
  /\ reads' = reads \ {rd}
  /\ \/ /\ rd.tile # None
        /\ Remember(rd.key, rd.tile)
        /\ TileReady(rd.to, rd.tile)
        /\ UNCHANGED <<downloads, overtaken>>
     \/ /\ rd.tile = None
        /\ Retry(rd, origin)
  /\ UNCHANGED <<phase, url, generation, files, writes, deletions, clients>>

ReadDone(rd, origin) ==
  /\ phase = "running" /\ rd \in reads /\ rd.done
  /\ reads' = reads \ {rd}
  /\ \/ /\ rd.generation = generation /\ rd.tile # None
        /\ Remember(rd.key, rd.tile)
        /\ TileReady(rd.to, rd.tile)
        /\ UNCHANGED <<downloads, overtaken>>
     \/ /\ rd.generation # generation
        /\ TileFailed(rd.to, "cancelled")
        /\ UNCHANGED <<memory, downloads, overtaken>>
     \/ /\ rd.generation = generation /\ rd.tile = None
        /\ Retry(rd, origin)
  /\ UNCHANGED <<phase, url, generation, files, writes, deletions, clients>>

-----------------------------------------------------------------------------
(* Administration: deleteTiles, cancelUpstreamDownloads, PUT providers *)

(* deleteTiles of the range S.  The handler marks the registered writes    *)
(* of S and then blocks on the mutex of each: it goes on when none of them *)
(* is publishing.  removed: the files it could remove; on the first one it *)
(* cannot, it stops.                                                       *)
Delete(S, removed) ==
  LET overlaps(w) == w.registered /\ w.key \in S
      busy == Downloading(active) \union Queued
                \union {writes[i].key : i \in {j \in DOMAIN writes : writes[j].registered}}
  IN /\ phase = "running" /\ generation < MaxGeneration
     /\ \A i \in Running : ~overlaps(writes[i])
     /\ generation' = generation + 1
     /\ writes' = [i \in DOMAIN writes |->
          IF overlaps(writes[i]) THEN [writes[i] EXCEPT !.invalidated = TRUE] ELSE writes[i]]
     /\ marks' = marks \union (busy \intersect S)
     /\ memory' = [k \in Keys |-> IF k \in S THEN None ELSE memory[k]]
     /\ \A k \in S \ removed : files[url][k] # None
     /\ files' = [files EXCEPT ![url] = [k \in Keys |-> IF k \in removed THEN None ELSE @[k]]]
     /\ deletions' = [deletions EXCEPT ![url] =
          [k \in Keys |-> IF k \in removed THEN @[k] + 1 ELSE @[k]]]
     /\ UNCHANGED <<phase, url, reads, active, queue, responders, clients, replies, overtaken>>

CancelDownloads_QueueOnly ==
  LET gone == Queued
  IN /\ queue' = << >>
     /\ responders' = [k \in Keys |-> IF k \in gone THEN {} ELSE responders[k]]
     /\ marks' = marks \ gone
     /\ TileFailed(UNION {responders[k] : k \in gone}, "cancelled")
     /\ UNCHANGED active

CancelDownloads_KeepsMarks ==
  LET gone == Downloading(active) \union Queued
  IN /\ active' = [k \in Keys |-> None]
     /\ queue' = << >>
     /\ responders' = [k \in Keys |-> {}]
     /\ marks' = marks \ Downloading(active)
     /\ TileFailed(UNION {responders[k] : k \in gone}, "cancelled")

(* The queue is emptied, then every active client is aborted: each reports *)
(* a cancelled download at once.                                           *)
CancelDownloads ==
  LET gone == Downloading(active) \union Queued
  IN /\ active' = [k \in Keys |-> None]
     /\ queue' = << >>
     /\ responders' = [k \in Keys |-> {}]
     /\ marks' = marks \ gone
     /\ TileFailed(UNION {responders[k] : k \in gone}, "cancelled")

CancelUpstream ==
  /\ phase = "running"
  /\ CancelDownloads
  /\ UNCHANGED <<phase, url, generation, caches, clients, overtaken>>

(* PUT providers: cancel, then configureProviders, for a new or the same   *)
(* URL.                                                                    *)
Reconfigure(u) ==
  /\ phase = "running" /\ generation < MaxGeneration
  /\ CancelDownloads
  /\ url' = u
  /\ generation' = generation + 1
  /\ memory' = [k \in Keys |-> None]
  /\ urls_since' = [r \in Requests |->
       IF r \in waiting' THEN urls_since[r] \union {u} ELSE urls_since[r]]
  /\ UNCHANGED <<phase, files, writes, reads, deletions, asked, overtaken>>

(* ~Server: every promise is answered; workers finish, watchers never run. *)
Shutdown ==
  /\ phase = "running"
  /\ phase' = "stopped"
  /\ Tell(ResponseKeys, "shutdown", None)
  /\ UNCHANGED <<url, generation, caches, downloads, clients, overtaken>>

-----------------------------------------------------------------------------
Requesting ==
  \E r \in Requests, rk \in ResponseKeys :
    \/ RequestHit(r, rk)
    \/ \E origin \in Origins : RequestRefused(r, rk, origin)
    \/ \E cache_first \in BOOLEAN :
         \/ RequestRead(r, rk, cache_first)
         \/ \E origin \in Origins : RequestDownload(r, rk, origin, cache_first)

DownloadStep(k) == DownloadFailed(k) \/ \E may_store \in BOOLEAN : DownloadDone(k, may_store)

WriteStep(i) == WriteStart(i) \/ WritePublish(i) \/ WriteDone(i)

ReadStep(rd) == ReadFile(rd) \/ \E origin \in Origins : ReadDone(rd, origin)

Next ==
  \/ Requesting
  \/ \E k \in Keys : DownloadStep(k)
  \/ \E i \in DOMAIN writes : WriteStep(i)
  \/ \E rd \in reads : ReadStep(rd)
  \/ \E S \in SUBSET Keys : \E removed \in SUBSET S : Delete(S, removed)
  \/ CancelUpstream
  \/ \E u \in Urls : Reconfigure(u)
  \/ Shutdown

Safe == Init /\ [][Next]_vars

(* A download ends (overall timeout), and the pools and the event loop     *)
(* get to every read and write.                                            *)
Spec ==
  /\ Safe
  /\ \A k \in Keys : WF_vars(DownloadStep(k))
  /\ \A i \in 1 .. MaxWrites : WF_vars(i \in DOMAIN writes /\ WriteStep(i))
  /\ WF_vars(\E rd \in reads : ReadStep(rd))

-----------------------------------------------------------------------------
WriteType ==
  [key : Keys, tile : Tiles, to : SUBSET ResponseKeys,
   stage : {"queued", "publishing", "done"}, registered : BOOLEAN, invalidated : BOOLEAN]
ReadType ==
  [key : Keys, generation : 0 .. MaxGeneration, url : Urls, to : SUBSET ResponseKeys,
   done : BOOLEAN, tile : Tiles \union {None}]

TypeOK ==
  /\ phase \in {"running", "stopped"}
  /\ url \in Urls
  /\ generation \in 0 .. MaxGeneration
  /\ memory \in [Keys -> Tiles \union {None}]
  /\ files \in [Urls -> [Keys -> Tiles \union {None}]]
  /\ active \in [Keys -> DownloadType \union {None}]
  /\ queue \in Seq(DownloadType) /\ Len(queue) <= MaxQueued
  /\ responders \in [Keys -> SUBSET ResponseKeys]
  /\ marks \subseteq Keys
  /\ writes \in Seq(WriteType) /\ Len(writes) <= MaxWrites
  /\ reads \subseteq ReadType /\ Cardinality(reads) <= MaxReads
  /\ asked \in [Requests -> ResponseKeys \union {None}]
  /\ urls_since \in [Requests -> SUBSET Urls]
  /\ waiting \subseteq Requests /\ Cardinality(waiting) <= MaxPending
  /\ answer \in [Requests -> {"none", "ready", "accepted", "busy", "invalid", "failed",
                              "cancelled", "shutdown"}]
  /\ served \in [Requests -> Tiles \union {None}]
  /\ deletions \in [Urls -> [Keys -> 0 .. MaxGeneration]]
  /\ overtaken \subseteq Keys

(* The limits on downloads hold and no download waits that could run: the  *)
(* queue is only as long as the limits make it.  (canStartDownloadLocked,  *)
(* startQueuedDownloads after every end of a download.)                    *)
QueueIsBlocked ==
  /\ Cardinality(Downloading(active)) <= MaxActive
  /\ \A o \in Origins :
       Cardinality({k \in Downloading(active) : active[k].origin = o}) <= MaxPerOrigin
  /\ \A i \in DOMAIN queue : ~CanStart(queue[i].origin, active)

(* A tile is downloaded once at a time, and an invalidation mark is there  *)
(* only for a download or write that will take it: no later download is    *)
(* kept from the cache by an old deletion.  (downloads_invalidated.)       *)
MarksHaveOwners ==
  /\ \A i, j \in DOMAIN queue : queue[i].key = queue[j].key => i = j
  /\ Queued \intersect Downloading(active) = {}
  /\ \A k \in marks : InProgress(k) \/ Writing(k)

(* A waiting promise is on the list of a download, write or read that will *)
(* answer its response key, whatever was joined, evicted, deleted,         *)
(* cancelled or reconfigured since.  (connections_pending against the      *)
(* response keys MapTiles carries.)                                        *)
NobodyIsForgotten ==
  \A r \in waiting :
    LET k == Canonical[asked[r]]
    IN \/ InProgress(k) /\ asked[r] \in responders[k]
       \/ \E i \in DOMAIN writes : asked[r] \in writes[i].to
       \/ \E rd \in reads : asked[r] \in rd.to

(* RAM holds only tiles of the configured URL.  (configureProviders clears *)
(* it; downloads are cancelled first, reads are checked by generation.)    *)
MemoryIsCurrent == \A k \in Keys : memory[k] # None => memory[k].url = url

(* A tile of which no request missed RAM while a write was pending.  The   *)
(* comment in requestFinished ("Publish to RAM before scheduling           *)
(* persistence so other requests ... do not launch duplicate upstream      *)
(* fetches") expects this of every tile.                                   *)
Orderly(k) == k \notin overtaken

Fresh(tile, k) == tile # None => tile.epoch >= deletions[tile.url][k]

(* A deleted tile does not come back, in RAM or on disk, from a download,  *)
(* read or write that was under way when it was deleted.  (deleteTiles     *)
(* against write_state, downloads_invalidated and cache_generation.)       *)
DeletedStaysDeleted ==
  \A k \in Keys : Orderly(k) =>
    /\ Fresh(memory[k], k)
    /\ \A u \in Urls : Fresh(files[u][k], k)

(* A request is answered with a tile of a URL that was configured after it *)
(* was made, never with one of an earlier configuration.  (PUT             *)
(* /map/v1/providers against the downloads, reads and writes in flight.)   *)
AnsweredFromCurrentUrl ==
  \A r \in Requests :
    served[r] # None /\ Orderly(Canonical[asked[r]]) => served[r].url \in urls_since[r]

(* Not true of the code: the promise without the proviso.                  *)
DeletedTilesNeverReturn ==
  \A k \in Keys : Fresh(memory[k], k) /\ \A u \in Urls : Fresh(files[u][k], k)

(* Every waiting request is answered.                                      *)
WaitersAnswered == \A r \in Requests : r \in waiting ~> r \notin waiting
=============================================================================
