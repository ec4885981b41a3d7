------------------------- MODULE TerrainTilesProofs -------------------------
(***************************************************************************)
(* Proofs about TerrainTiles, for every set of jobs, tiles and cells: a    *)
(* valid tile is not written over, and a job that fills a tile undisturbed *)
(* finds every source cell that exists.                                    *)
(*                                                                         *)
(* The inductive invariant says who is between the lock of a tile and its  *)
(* storing, and follows what an undisturbed job knows about the sources of *)
(* its tile from the decision to acquire, through the acquisition and the  *)
(* hand-off, to the cell it is about to open.                              *)
(***************************************************************************)
EXTENDS TerrainTiles, TLAPS

(* A job that has the lock of its tile.                                    *)
Locking(j) == At(j, "checking") \/ At(j, "filling")

(* Every source of the tile that exists is cached.                         *)
Covered(t) == Needs[t] \intersect Exists \subseteq sources

(* The CPU stage of this job must find what there is.                      *)
Expects(j) == ~job[j].disturbed /\ ~job[j].fallback

(* One job per tile is under its lock, and it found no valid tile there.   *)
OneFiller ==
  \A j \in Jobs :
    Locking(j) =>
      /\ job[j].tile \in lock
      /\ \A k \in Jobs : Locking(k) /\ job[k].tile = job[j].tile => k = j

FillsInvalid == \A j \in Jobs : At(j, "filling") => ~Valid(tile[job[j].tile])

(* What a job that is not disturbed knows, by stages.                      *)
Knows(j) ==
  LET t == job[j].tile
  IN /\ At(j, "acquiring") => Needs[t] \intersect Exists \subseteq sources \union job[j].left
     /\ At(j, "reading") => tile[t] # None \/ Covered(t)
     /\ Locking(j) \/ At(j, "locking") => job[j].repairing \/ Covered(t)
     /\ At(j, "filling") => \/ job[j].repairing
                            \/ job[j].holes \intersect Exists = {}

Informed ==
  \A j \in Jobs :
    /\ ~At(j, "filling") => job[j].holes = {}
    /\ At(j, "filling") => job[j].left \subseteq Needs[job[j].tile]
    /\ Expects(j) => Knows(j)

Inv == TypeOK /\ OneFiller /\ FillsInvalid /\ Informed

-----------------------------------------------------------------------------
(* A step of one job *)

(* The records of jobs.                                                    *)
LEMMA JobFields ==
  ASSUME Inv, NEW j \in Jobs
  PROVE  /\ job[j] \in JobType
         /\ job[j].tile \in Tiles \union {None} /\ job[j].left \subseteq Cells
         /\ job[j].holes \subseteq Cells /\ job[j].point \in Cells \union {None}
         /\ job[j].repairing \in BOOLEAN /\ job[j].fallback \in BOOLEAN
         /\ job[j].disturbed \in BOOLEAN
         /\ job[j].stage # "idle" => job[j].tile \in Tiles
BY DEF Inv, TypeOK, JobType, At

(* What is new in a record of JobType stays one.                           *)
LEMMA JobUpdates ==
  ASSUME NEW r \in JobType
  PROVE  /\ \A s \in {"queued", "acquiring", "reading", "locking", "checking", "filling"} :
              [r EXCEPT !.stage = s] \in JobType
         /\ \A L \in SUBSET Cells : [r EXCEPT !.left = L] \in JobType
         /\ \A H \in SUBSET Cells : [r EXCEPT !.holes = H] \in JobType
         /\ \A b \in BOOLEAN : /\ [r EXCEPT !.repairing = b] \in JobType
                              /\ [r EXCEPT !.disturbed = b] \in JobType
                              /\ [r EXCEPT !.fallback = b] \in JobType
         /\ \A t \in Tiles \union {None} : [r EXCEPT !.tile = t] \in JobType
         /\ \A c \in Cells \union {None} : [r EXCEPT !.point = c] \in JobType
BY DEF JobType

(* Idle jobs.                                                              *)
LEMMA IdleType ==
  /\ Idle \in JobType /\ Idle.stage = "idle" /\ Idle.tile = None /\ Idle.holes = {}
  /\ Idle.left = {} /\ Idle.fallback = FALSE /\ Idle.repairing = FALSE /\ Idle.disturbed = FALSE
BY DEF Idle, JobType

(* What a step of job j must show; the others keep what they know as long  *)
(* as no source goes and no tile they have the lock of changes.            *)
LEMMA JobStep ==
  ASSUME Inv, NEW j \in Jobs, NEW r \in JobType,
         r.stage = "idle" <=> r.tile = None,
         job' = [job EXCEPT ![j] = r],
         sources \subseteq sources', sources' \subseteq Exists, missing' \subseteq Cells \ Exists,
         tile' \in [Tiles -> Normalized \union {Damaged, None}],
         \A t \in Tiles : tile'[t] = tile[t]
                          \/ (At(j, "filling") /\ t = job[j].tile /\ tile'[t] # None),
         lock' \subseteq Tiles,
         \A k \in Jobs \ {j} : Locking(k) => job[k].tile \in lock',
         r.stage \in {"checking", "filling"} =>
           /\ r.tile \in lock'
           /\ \A k \in Jobs \ {j} : ~(Locking(k) /\ job[k].tile = r.tile),
         r.stage = "filling" => ~Valid(tile'[r.tile]) /\ r.left \subseteq Needs[r.tile],
         r.stage # "filling" => r.holes = {},
         ~r.disturbed /\ ~r.fallback => Knows(j)'
  PROVE  Inv'
<1>1. job'[j] = r /\ \A k \in Jobs \ {j} : job'[k] = job[k]
  BY DEF Inv, TypeOK
<1>2. TypeOK'
  <2>1. job' \in [Jobs -> JobType]
    BY DEF Inv, TypeOK
  <2>2. \A k \in Jobs : At(k, "idle")' <=> job'[k].tile = None
    BY <1>1 DEF Inv, TypeOK, At
  <2>. QED  BY <2>1, <2>2 DEF TypeOK
<1>3. OneFiller'
  BY <1>1 DEF Inv, OneFiller, Locking, At
<1>4. ASSUME NEW k \in Jobs \ {j}, Locking(k)
      PROVE  tile'[job[k].tile] = tile[job[k].tile]
  <2>1. job[k].tile \in Tiles
    BY <1>4, JobFields DEF Locking, At
  <2>2. ~(At(j, "filling") /\ job[k].tile = job[j].tile)
    BY <1>4 DEF Inv, OneFiller, Locking
  <2>. QED  BY <2>1, <2>2
<1>5. FillsInvalid'
  BY <1>1, <1>4 DEF Inv, FillsInvalid, Locking, At
<1>6. ASSUME NEW k \in Jobs \ {j}, Expects(k)
      PROVE  Knows(k)'
  <2>1. Knows(k) /\ job'[k] = job[k]
    BY <1>1, <1>6 DEF Inv, Informed
  <2>2. \A t : Covered(t) => Covered(t)'
    BY DEF Covered
  <2>3. ASSUME At(k, "reading"), tile[job[k].tile] # None
        PROVE  tile'[job[k].tile] # None
    <3>1. job[k].tile \in Tiles
      BY <2>3, JobFields DEF At
    <3>. QED  BY <2>3, <3>1
  <2>. QED  BY <2>1, <2>2, <2>3 DEF Knows, Locking, At
<1>7. Informed'
  BY <1>1, <1>6 DEF Inv, Informed, Expects, At
<1>. QED  BY <1>2, <1>3, <1>5, <1>7 DEF Inv

(* Where a job goes that has its tile: to a coarser one, or to its end.    *)
LEMMA Concludes ==
  ASSUME Inv, NEW j \in Jobs, NEW no_data, Conclude(j, no_data), ~At(j, "idle")
  PROVE  \E r \in JobType :
           /\ job' = [job EXCEPT ![j] = r] /\ r.holes = {}
           /\ r.stage \in {"idle", "reading"} /\ (r.stage = "idle" <=> r.tile = None)
           /\ r.stage = "idle" \/ r.fallback
<1>1. CASE Finish(j)
  BY <1>1, IdleType DEF Finish
<1>2. CASE /\ Coarser[job[j].tile] # None
           /\ job' = [job EXCEPT ![j] =
                [Idle EXCEPT !.stage = "reading", !.tile = Coarser[job[j].tile],
                             !.point = job[j].point, !.fallback = TRUE,
                             !.disturbed = job[j].disturbed]]
  <2> DEFINE r == [Idle EXCEPT !.stage = "reading", !.tile = Coarser[job[j].tile],
                               !.point = job[j].point, !.fallback = TRUE,
                               !.disturbed = job[j].disturbed]
  <2>1. Coarser[job[j].tile] \in Tiles \union {None}
    BY JobFields, TilesAssumption DEF At
  <2>2. r \in JobType
    BY <2>1, JobFields DEF JobType, Idle
  <2>3. /\ r.stage = "reading" /\ r.tile = Coarser[job[j].tile] /\ r.fallback = TRUE
        /\ r.holes = {}
    BY DEF Idle
  <2>. QED  BY <1>2, <2>2, <2>3
<1>. QED  BY <1>1, <1>2 DEF Conclude

(* A job that concludes, or gives its lock up with it, needs to know       *)
(* nothing more.                                                           *)
LEMMA ConcludeStep ==
  ASSUME Inv, NEW j \in Jobs, NEW no_data, Conclude(j, no_data), ~At(j, "idle"),
         UNCHANGED <<sources, missing>>,
         tile' \in [Tiles -> Normalized \union {Damaged, None}],
         \A t \in Tiles : tile'[t] = tile[t]
                          \/ (At(j, "filling") /\ t = job[j].tile /\ tile'[t] # None),
         lock' = lock \/ (Locking(j) /\ lock' = lock \ {job[j].tile})
  PROVE  Inv'
<1>1. PICK r \in JobType :
        /\ job' = [job EXCEPT ![j] = r] /\ r.holes = {}
        /\ r.stage \in {"idle", "reading"} /\ (r.stage = "idle" <=> r.tile = None)
        /\ r.stage = "idle" \/ r.fallback
  BY Concludes
<1>2. job'[j] = r
  BY <1>1 DEF Inv, TypeOK
<1>3. ~r.disturbed /\ ~r.fallback => Knows(j)'
  BY <1>1, <1>2 DEF Knows, Locking, At
<1>4. lock' \subseteq Tiles /\ \A k \in Jobs \ {j} : Locking(k) => job[k].tile \in lock'
  BY DEF Inv, TypeOK, OneFiller
<1>5. sources' \subseteq Exists /\ missing' \subseteq Cells \ Exists /\ sources \subseteq sources'
  BY DEF Inv, TypeOK
<1>. QED  BY <1>1, <1>3, <1>4, <1>5, JobStep

(* A job that ends.                                                        *)
LEMMA FinishStep ==
  ASSUME Inv, NEW j \in Jobs, Finish(j), UNCHANGED cache,
         lock' = lock \/ (Locking(j) /\ lock' = lock \ {job[j].tile})
  PROVE  Inv'
<1>1. job' = [job EXCEPT ![j] = Idle] /\ job'[j] = Idle
  BY DEF Finish, Inv, TypeOK
<1>2. Knows(j)'
  BY <1>1, IdleType DEF Knows, Locking, At
<1>3. lock' \subseteq Tiles /\ \A k \in Jobs \ {j} : Locking(k) => job[k].tile \in lock'
  BY DEF Inv, TypeOK, OneFiller
<1>4. /\ sources' \subseteq Exists /\ missing' \subseteq Cells \ Exists /\ sources \subseteq sources'
      /\ tile' = tile /\ tile \in [Tiles -> Normalized \union {Damaged, None}]
  BY DEF Inv, TypeOK, cache
<1>. QED  BY <1>1, <1>2, <1>3, <1>4, IdleType, JobStep

(* A step that changes only the record of one job, and takes no lock.      *)
LEMMA LocalStep ==
  ASSUME Inv, NEW j \in Jobs, UNCHANGED <<cache, lock>>,
         NEW r \in JobType, job' = [job EXCEPT ![j] = r], r.tile \in Tiles, r.holes = {},
         r.stage \in {"queued", "acquiring", "reading", "locking"},
         ~r.disturbed /\ ~r.fallback => Knows(j)'
  PROVE  Inv'
<1>1. /\ sources' \subseteq Exists /\ missing' \subseteq Cells \ Exists /\ sources \subseteq sources'
      /\ tile' = tile /\ tile \in [Tiles -> Normalized \union {Damaged, None}]
      /\ lock' = lock /\ lock \subseteq Tiles
  BY DEF Inv, TypeOK, cache
<1>2. \A k \in Jobs \ {j} : Locking(k) => job[k].tile \in lock'
  BY <1>1 DEF Inv, OneFiller
<1>3. r.stage # "idle" /\ r.tile # None
  BY TilesAssumption
<1>. QED  BY <1>1, <1>2, <1>3, JobStep

-----------------------------------------------------------------------------
(* The steps *)

(* A request: with a file, or with every source, nothing is acquired.      *)
LEMMA SubmitStep ==
  ASSUME Inv, NEW j \in Jobs, NEW t \in Tiles, NEW p \in Needs[t] \union {None}, Submit(j, t, p)
  PROVE  Inv'
<1> DEFINE r == [job[j] EXCEPT !.stage = IF NeedsRemote(t) THEN "queued" ELSE "reading",
                               !.tile = t, !.point = p]
<1>1. job' = [job EXCEPT ![j] = r] /\ UNCHANGED <<cache, lock>> /\ At(j, "idle")
  BY DEF Submit, Inv, TypeOK
<1>2. p \in Cells \union {None}
  BY TilesAssumption
<1>3. r \in JobType
  BY <1>2, JobFields DEF JobType
<1>4. /\ r.tile = t /\ r.holes = {} /\ r.stage = IF NeedsRemote(t) THEN "queued" ELSE "reading"
  BY <1>1, JobFields DEF JobType, Inv, Informed, At
<1>5. job'[j] = r
  BY <1>1 DEF Inv, TypeOK
<1>6. ~NeedsRemote(t) => tile[t] # None \/ Covered(t)
  BY DEF NeedsRemote, Covered, Inv, TypeOK
<1>7. Covered(t)' = Covered(t) /\ tile' = tile
  BY <1>1 DEF Covered, cache
<1> HIDE DEF r
<1>8. Knows(j)'
  BY <1>4, <1>5, <1>6, <1>7 DEF Knows, Locking, At
<1>. QED  BY <1>1, <1>3, <1>4, <1>8, LocalStep

(* The remote task begins: its cells lie ahead.                            *)
LEMMA AcquireStep ==
  ASSUME Inv, NEW j \in Jobs, Acquire(j)
  PROVE  Inv'
<1> DEFINE t == job[j].tile
<1>1. UNCHANGED <<cache, lock>> /\ At(j, "queued") /\ t \in Tiles /\ job[j].holes = {}
  BY JobFields DEF Acquire, At, Inv, Informed
<1>2. tile' = tile /\ sources' = sources
  BY <1>1 DEF cache
<1>3. CASE job' = [job EXCEPT ![j].stage = "acquiring", ![j].left = Needs[t]]
  <2> DEFINE r == [job[j] EXCEPT !.stage = "acquiring", !.left = Needs[t]]
  <2>1. job' = [job EXCEPT ![j] = r] /\ job'[j] = r
    BY <1>3 DEF Inv, TypeOK
  <2>2. Needs[t] \subseteq Cells
    BY <1>1, TilesAssumption
  <2>3. r \in JobType /\ r.stage = "acquiring" /\ r.tile = t /\ r.holes = {} /\ r.left = Needs[t]
    BY <1>1, <2>2, JobFields DEF JobType
  <2> HIDE DEF r
  <2>4. Knows(j)'
    BY <2>1, <2>3 DEF Knows, Locking, At
  <2>. QED  BY <1>1, <2>1, <2>3, <2>4, LocalStep
<1>4. CASE tile[t] # None /\ Become(j, "reading")
  <2> DEFINE r == [job[j] EXCEPT !.stage = "reading"]
  <2>1. job' = [job EXCEPT ![j] = r] /\ job'[j] = r
    BY <1>4 DEF Become, Inv, TypeOK
  <2>2. r \in JobType /\ r.stage = "reading" /\ r.tile = t /\ r.holes = {}
    BY <1>1, JobFields DEF JobType
  <2> HIDE DEF r
  <2>3. Knows(j)'
    BY <1>2, <1>4, <2>1, <2>2 DEF Knows, Locking, At
  <2>. QED  BY <1>1, <2>1, <2>2, <2>3, LocalStep
<1>. QED  BY <1>3, <1>4 DEF Acquire

(* A cell is visited: cached now, or it does not exist.                    *)
LEMMA AcquireCellStep ==
  ASSUME Inv, NEW j \in Jobs, NEW c \in Cells, AcquireCell(j, c)
  PROVE  Inv'
<1> DEFINE t == job[j].tile
           r == [job[j] EXCEPT !.left = @ \ {c}, !.stage = "acquiring"]
<1>1. At(j, "acquiring") /\ t \in Tiles /\ job[j].holes = {} /\ lock' = lock /\ tile' = tile
  BY JobFields DEF AcquireCell, At, Inv, Informed
<1>2. job' = [job EXCEPT ![j] = r] /\ job'[j] = r
  BY DEF AcquireCell, Visit, Inv, TypeOK
<1>3. /\ r \in JobType /\ r.stage = "acquiring" /\ r.tile = t /\ r.holes = {}
      /\ r.left = job[j].left \ {c} /\ r.disturbed = job[j].disturbed /\ r.fallback = job[j].fallback
  BY <1>1, JobFields DEF JobType
<1>4. /\ sources \subseteq sources' /\ sources' \subseteq Exists /\ missing' \subseteq Cells \ Exists
      /\ c \in sources' \/ c \notin Exists
  BY DEF AcquireCell, Inv, TypeOK
<1> HIDE DEF r
<1>5. ~r.disturbed /\ ~r.fallback => Knows(j)'
  <2>1. ~r.disturbed /\ ~r.fallback =>
          Needs[t] \intersect Exists \subseteq sources \union job[j].left
    BY <1>1, <1>3 DEF Inv, Informed, Expects, Knows
  <2>. QED  BY <1>2, <1>3, <1>4, <2>1 DEF Knows, Locking, At
<1>6. \A k \in Jobs \ {j} : Locking(k) => job[k].tile \in lock'
  BY <1>1 DEF Inv, OneFiller
<1>7. lock' \subseteq Tiles /\ tile' \in [Tiles -> Normalized \union {Damaged, None}] /\ r.tile # None
  BY <1>1, <1>3, TilesAssumption DEF Inv, TypeOK
<1>. QED  BY <1>1, <1>2, <1>3, <1>4, <1>5, <1>6, <1>7, JobStep

(* The hand-off: no cell is left to visit.                                 *)
LEMMA AcquiredStep ==
  ASSUME Inv, NEW j \in Jobs, Acquired(j)
  PROVE  Inv'
<1> DEFINE t == job[j].tile
           r == [job[j] EXCEPT !.stage = "reading"]
<1>1. /\ UNCHANGED <<cache, lock>> /\ At(j, "acquiring") /\ t \in Tiles /\ job[j].holes = {}
      /\ job[j].left = {}
  BY JobFields DEF Acquired, At, Inv, Informed
<1>2. job' = [job EXCEPT ![j] = r] /\ job'[j] = r
  BY DEF Acquired, Become, Inv, TypeOK
<1>3. /\ r \in JobType /\ r.stage = "reading" /\ r.tile = t /\ r.holes = {}
      /\ r.disturbed = job[j].disturbed /\ r.fallback = job[j].fallback
  BY <1>1, JobFields DEF JobType
<1> HIDE DEF r
<1>4. ~r.disturbed /\ ~r.fallback => Knows(j)'
  <2>1. ~r.disturbed /\ ~r.fallback => Covered(t)
    BY <1>1, <1>3 DEF Inv, Informed, Expects, Knows, Covered
  <2>. QED  BY <1>1, <1>2, <1>3, <2>1 DEF Knows, Locking, At, Covered, cache
<1>. QED  BY <1>1, <1>2, <1>3, <1>4, LocalStep

(* The file is read: no valid tile means that the sources are known.       *)
LEMMA ReadStep ==
  ASSUME Inv, NEW j \in Jobs, Read(j)
  PROVE  Inv'
<1> DEFINE t == job[j].tile
           r == [job[j] EXCEPT !.stage = "locking", !.repairing = tile[t] = Damaged]
<1>1. UNCHANGED <<cache, lock>> /\ At(j, "reading") /\ t \in Tiles /\ job[j].holes = {}
  BY JobFields DEF Read, At, Inv, Informed
<1>2. CASE \E no_data : Conclude(j, no_data)
  BY <1>1, <1>2, ConcludeStep DEF Inv, TypeOK, At, cache
<1>3. CASE Finish(j)
  BY <1>1, <1>3, FinishStep
<1>4. CASE ~Valid(tile[t]) /\ job' = [job EXCEPT ![j].stage = "locking", ![j].repairing = tile[t] = Damaged]
  <2>1. job' = [job EXCEPT ![j] = r] /\ job'[j] = r
    BY <1>4 DEF Inv, TypeOK
  <2>2. /\ r \in JobType /\ r.stage = "locking" /\ r.tile = t /\ r.holes = {}
        /\ r.disturbed = job[j].disturbed /\ r.fallback = job[j].fallback
        /\ r.repairing = (tile[t] = Damaged)
    BY <1>1, JobFields DEF JobType
  <2> HIDE DEF r
  <2>3. ~r.disturbed /\ ~r.fallback => Knows(j)'
    <3>1. ~r.disturbed /\ ~r.fallback => tile[t] # None \/ Covered(t)
      BY <1>1, <2>2 DEF Inv, Informed, Expects, Knows
    <3>2. ~r.disturbed /\ ~r.fallback => r.repairing \/ Covered(t)
      BY <1>4, <2>2, <3>1 DEF Valid
    <3>. QED  BY <1>1, <2>1, <2>2, <3>2 DEF Knows, Locking, At, Covered, cache
  <2>. QED  BY <1>1, <2>1, <2>2, <2>3, LocalStep
<1>. QED  BY <1>2, <1>3, <1>4 DEF Read

(* A job gets the lock of its tile.                                        *)
LEMMA LockStep ==
  ASSUME Inv, NEW j \in Jobs, LockTile(j)
  PROVE  Inv'
<1> DEFINE t == job[j].tile
           r == [job[j] EXCEPT !.stage = "checking"]
<1>1. /\ UNCHANGED cache /\ At(j, "locking") /\ t \in Tiles /\ job[j].holes = {}
      /\ t \notin lock /\ lock' = lock \union {t}
  BY JobFields DEF LockTile, At, Inv, Informed
<1>2. job' = [job EXCEPT ![j] = r] /\ job'[j] = r
  BY DEF LockTile, Become, Inv, TypeOK
<1>3. /\ r \in JobType /\ r.stage = "checking" /\ r.tile = t /\ r.holes = {}
      /\ r.disturbed = job[j].disturbed /\ r.fallback = job[j].fallback
      /\ r.repairing = job[j].repairing
  BY <1>1, JobFields DEF JobType
<1> HIDE DEF r
<1>4. ~r.disturbed /\ ~r.fallback => Knows(j)'
  <2>1. ~r.disturbed /\ ~r.fallback => r.repairing \/ Covered(t)
    BY <1>1, <1>3 DEF Inv, Informed, Expects, Knows
  <2>. QED  BY <1>1, <1>2, <1>3, <2>1 DEF Knows, Locking, At, Covered, cache
<1>5. \A k \in Jobs \ {j} : Locking(k) => job[k].tile \in lock /\ job[k].tile # t
  BY <1>1 DEF Inv, OneFiller
<1>6. /\ lock' \subseteq Tiles /\ tile' = tile /\ tile \in [Tiles -> Normalized \union {Damaged, None}]
      /\ sources' = sources /\ sources \subseteq Exists
      /\ missing' \subseteq Cells \ Exists /\ r.tile # None
  BY <1>1, <1>3, TilesAssumption DEF Inv, TypeOK, cache
<1>. QED  BY <1>1, <1>2, <1>3, <1>4, <1>5, <1>6, JobStep

(* The second look at the file, under the lock.                            *)
LEMMA CheckAgainStep ==
  ASSUME Inv, NEW j \in Jobs, CheckAgain(j)
  PROVE  Inv'
<1> DEFINE t == job[j].tile
           r == [job[j] EXCEPT !.stage = "filling", !.left = Needs[t],
                               !.repairing = @ \/ tile[t] = Damaged]
<1>1. UNCHANGED cache /\ At(j, "checking") /\ t \in Tiles /\ job[j].holes = {} /\ Locking(j)
  BY JobFields DEF CheckAgain, At, Inv, Informed, Locking
<1>2. CASE (\E no_data : Conclude(j, no_data)) /\ lock' = lock \ {t}
  BY <1>1, <1>2, ConcludeStep DEF Inv, TypeOK, At, cache
<1>3. CASE Finish(j) /\ lock' = lock \ {t}
  BY <1>1, <1>3, FinishStep
<1>4. CASE ~Valid(tile[t]) /\ BeginFill(j) /\ lock' = lock
  <2>1. job' = [job EXCEPT ![j] = r] /\ job'[j] = r
    BY <1>4 DEF BeginFill, Inv, TypeOK
  <2>2. Needs[t] \subseteq Cells
    BY <1>1, TilesAssumption
  <2>3. /\ r \in JobType /\ r.stage = "filling" /\ r.tile = t /\ r.holes = {}
        /\ r.disturbed = job[j].disturbed /\ r.fallback = job[j].fallback
        /\ r.left = Needs[t] /\ r.repairing = (job[j].repairing \/ tile[t] = Damaged)
    BY <1>1, <2>2, JobFields DEF JobType
  <2> HIDE DEF r
  <2>4. ~r.disturbed /\ ~r.fallback => Knows(j)'
    <3>1. ~r.disturbed /\ ~r.fallback => r.repairing \/ Covered(t)
      BY <1>1, <2>3 DEF Inv, Informed, Expects, Knows
    <3>. QED  BY <1>1, <2>1, <2>3, <3>1 DEF Knows, Locking, At, Covered, cache
  <2>5. \A k \in Jobs \ {j} : Locking(k) => job[k].tile \in lock /\ job[k].tile # t
    BY <1>1 DEF Inv, OneFiller
  <2>6. /\ t \in lock /\ lock \subseteq Tiles /\ tile' = tile
        /\ tile \in [Tiles -> Normalized \union {Damaged, None}]
        /\ sources' = sources /\ sources \subseteq Exists
        /\ missing' \subseteq Cells \ Exists /\ r.tile # None
    BY <1>1, <2>3, TilesAssumption DEF Inv, TypeOK, OneFiller, cache
  <2>. QED  BY <1>4, <2>1, <2>3, <2>4, <2>5, <2>6, JobStep
<1>. QED  BY <1>2, <1>3, <1>4 DEF CheckAgain

(* A job gives up, or its lock attempt times out.                          *)
LEMMA GiveUpStep ==
  ASSUME Inv, NEW j \in Jobs, GiveUp(j) \/ LockTimeout(j)
  PROVE  Inv'
BY FinishStep DEF GiveUp, LockTimeout

(* A cell is opened, or is a hole: not one that exists.                    *)
LEMMA FillCellStep ==
  ASSUME Inv, NEW j \in Jobs, NEW c \in Cells, FillCell(j, c)
  PROVE  Inv'
<1> DEFINE t == job[j].tile
           holes == IF c \in sources \ missing THEN job[j].holes ELSE job[j].holes \union {c}
           r == [job[j] EXCEPT !.left = @ \ {c}, !.holes = holes]
<1>1. /\ UNCHANGED <<cache, lock>> /\ At(j, "filling") /\ t \in Tiles /\ c \in job[j].left
      /\ Locking(j)
  BY JobFields DEF FillCell, At, Locking
<1>2. job' = [job EXCEPT ![j] = r] /\ job'[j] = r
  BY DEF FillCell, Inv, TypeOK
<1>3. /\ r \in JobType /\ r.stage = "filling" /\ r.tile = t
      /\ r.disturbed = job[j].disturbed /\ r.fallback = job[j].fallback
      /\ r.repairing = job[j].repairing /\ r.left = job[j].left \ {c} /\ r.holes = holes
  BY <1>1, JobFields DEF JobType, At
<1>4. c \in Needs[t] /\ job[j].left \subseteq Needs[t]
  BY <1>1 DEF Inv, Informed
<1>5. /\ lock' = lock /\ t \in lock /\ lock \subseteq Tiles /\ tile' = tile
      /\ tile \in [Tiles -> Normalized \union {Damaged, None}] /\ ~Valid(tile[t])
      /\ sources' = sources /\ sources \subseteq Exists
      /\ missing' = missing /\ missing \subseteq Cells \ Exists /\ r.tile # None
  BY <1>1, <1>3, TilesAssumption DEF Inv, TypeOK, OneFiller, FillsInvalid, cache
<1>6. ~r.disturbed /\ ~r.fallback => Knows(j)'
  <2>1. ~r.disturbed /\ ~r.fallback =>
          \/ job[j].repairing
          \/ Covered(t) /\ job[j].holes \intersect Exists = {}
    BY <1>1, <1>3 DEF Inv, Informed, Expects, Knows
  <2>2. Covered(t) /\ job[j].holes \intersect Exists = {} => holes \intersect Exists = {}
    BY <1>4, <1>5 DEF Covered
  <2> HIDE DEF r, holes
  <2>. QED  BY <1>2, <1>3, <1>5, <2>1, <2>2 DEF Knows, Locking, At, Covered
<1> HIDE DEF r
<1>7. \A k \in Jobs \ {j} : Locking(k) => job[k].tile \in lock /\ job[k].tile # t
  BY <1>1 DEF Inv, OneFiller
<1>. QED  BY <1>1, <1>2, <1>3, <1>4, <1>5, <1>6, <1>7, JobStep

(* The tile is stored under its lock.                                      *)
LEMMA StoreStep ==
  ASSUME Inv, NEW j \in Jobs, Store(j)
  PROVE  Inv'
<1> DEFINE t == job[j].tile
<1>1. /\ At(j, "filling") /\ t \in Tiles /\ Locking(j) /\ lock' = lock \ {t}
      /\ UNCHANGED <<sources, missing>> /\ tile \in [Tiles -> Normalized \union {Damaged, None}]
  BY JobFields DEF Store, At, Locking, Inv, TypeOK
<1>2. CASE /\ tile' = [tile EXCEPT ![t] = [holes |-> job[j].holes, origin |-> Origin(j)]]
           /\ Conclude(j, job[j].holes)
  <2>1. [holes |-> job[j].holes, origin |-> Origin(j)] \in Normalized
    BY JobFields DEF Normalized, Origin
  <2>2. /\ tile' \in [Tiles -> Normalized \union {Damaged, None}]
        /\ \A u \in Tiles : tile'[u] = tile[u] \/ (u = t /\ tile'[u] # None)
    BY <1>1, <1>2, <2>1, TilesAssumption
  <2>. QED  BY <1>1, <1>2, <2>2, ConcludeStep DEF At
<1>3. CASE tile' = tile /\ Conclude(j, Cells)
  BY <1>1, <1>3, ConcludeStep DEF At
<1>4. CASE tile' = tile /\ Finish(j)
  BY <1>1, <1>4, FinishStep DEF cache
<1>. QED  BY <1>2, <1>3, <1>4 DEF Store

(* What a disturbance leaves of the records of jobs.                       *)
LEMMA Disturbed ==
  ASSUME Inv, NEW affected, Disturb(affected), NEW j \in Jobs
  PROVE  /\ job'[j] \in JobType /\ job'[j].stage = job[j].stage
         /\ job'[j].tile = job[j].tile
         /\ ~At(j, "idle") =>
              /\ job'[j].left = job[j].left /\ job'[j].holes = job[j].holes
              /\ job'[j].repairing = job[j].repairing /\ job'[j].fallback = job[j].fallback
              /\ job'[j].disturbed = (job[j].disturbed \/ j \in affected)
         /\ At(j, "idle") => job'[j] = Idle
<1>1. job'[j] = IF At(j, "idle") THEN Idle
                ELSE [job[j] EXCEPT !.disturbed = @ \/ j \in affected]
  BY DEF Disturb
<1>2. CASE At(j, "idle")
  BY <1>1, <1>2, IdleType DEF Inv, TypeOK, At
<1>3. CASE ~At(j, "idle")
  BY <1>1, <1>3, JobFields DEF JobType
<1>. QED  BY <1>2, <1>3

(* A deletion: those that depend on what goes are disturbed, the others    *)
(* keep what they know.                                                    *)
LEMMA DeletionStep ==
  ASSUME Inv, NEW affected, Disturb(affected), lock' = lock,
         sources' \subseteq sources, missing' \subseteq missing,
         tile' \in [Tiles -> Normalized \union {Damaged, None}],
         \A t \in Tiles : tile'[t] = tile[t] \/ tile'[t] = None,
         \A j \in Jobs \ affected : ~At(j, "idle") =>
           /\ tile'[job[j].tile] = tile[job[j].tile]
           /\ Needs[job[j].tile] \intersect (sources \ sources') = {}
  PROVE  Inv'
<1>1. TypeOK'
  <2>1. job' \in [Jobs -> JobType]
    BY Disturbed DEF Disturb
  <2>2. \A j \in Jobs : At(j, "idle")' <=> job'[j].tile = None
    BY Disturbed DEF Inv, TypeOK, At
  <2>. QED  BY <2>1, <2>2 DEF Inv, TypeOK
<1>2. \A j \in Jobs : Locking(j)' = Locking(j) /\ job'[j].tile = job[j].tile
  BY Disturbed DEF Locking, At
<1>3. OneFiller'
  BY <1>2 DEF Inv, OneFiller
<1>4. FillsInvalid'
  <2>1. \A j \in Jobs : At(j, "filling")' = At(j, "filling")
    BY Disturbed DEF At
  <2>2. \A j \in Jobs : At(j, "filling") => job[j].tile \in Tiles
    BY JobFields DEF At
  <2>. QED  BY <1>2, <2>1, <2>2 DEF Inv, FillsInvalid, Valid
<1>5. ASSUME NEW j \in Jobs, Expects(j)'
      PROVE  Knows(j)'
  <2>1. CASE At(j, "idle")
    BY <2>1, Disturbed, IdleType DEF Knows, Locking, At
  <2>2. CASE ~At(j, "idle")
    <3>1. j \notin affected /\ Expects(j)
      BY <1>5, <2>2, Disturbed DEF Expects
    <3>2. Knows(j)
      BY <3>1 DEF Inv, Informed
    <3>3. /\ tile'[job[j].tile] = tile[job[j].tile]
          /\ Needs[job[j].tile] \intersect (sources \ sources') = {}
      BY <2>2, <3>1
    <3>. QED  BY <2>2, <3>2, <3>3, Disturbed DEF Knows, Locking, At, Covered
  <2>. QED  BY <2>1, <2>2
<1>6. ASSUME NEW j \in Jobs
      PROVE  /\ ~At(j, "filling")' => job'[j].holes = {}
             /\ At(j, "filling")' => job'[j].left \subseteq Needs[job'[j].tile]
  BY Disturbed, IdleType DEF Inv, Informed, At
<1>. QED  BY <1>1, <1>3, <1>4, <1>5, <1>6 DEF Inv, Informed

(* A tile or a source is deleted.                                          *)
LEMMA DeleteStep ==
  ASSUME Inv, (\E t \in Tiles : DeleteTile(t)) \/ (\E c \in Cells : DeleteSource(c))
  PROVE  Inv'
<1>1. ASSUME NEW t \in Tiles, DeleteTile(t)
      PROVE  Inv'
  <2>1. /\ tile' = [tile EXCEPT ![t] = None] /\ UNCHANGED <<sources, missing, lock>>
        /\ Disturb({j \in Jobs : job[j].tile = t})
    BY <1>1 DEF DeleteTile
  <2>2. /\ tile' \in [Tiles -> Normalized \union {Damaged, None}]
        /\ \A u \in Tiles : tile'[u] = tile[u] \/ (u = t /\ tile'[u] = None)
    BY <2>1 DEF Inv, TypeOK
  <2>3. \A j \in Jobs : ~At(j, "idle") => job[j].tile \in Tiles
    BY JobFields DEF At
  <2>. QED  BY <2>1, <2>2, <2>3, DeletionStep
<1>2. ASSUME NEW c \in Cells, DeleteSource(c)
      PROVE  Inv'
  <2>1. /\ sources' = sources \ {c} /\ missing' = missing \ {c} /\ UNCHANGED <<tile, lock>>
        /\ Disturb({j \in Jobs : ~At(j, "idle") /\ c \in Needs[job[j].tile]})
    BY <1>2 DEF DeleteSource
  <2>2. tile \in [Tiles -> Normalized \union {Damaged, None}]
    BY DEF Inv, TypeOK
  <2>. QED  BY <2>1, <2>2, DeletionStep
<1>. QED  BY <1>1, <1>2

(* The memory of a 404 expires, or a tile file is damaged.                 *)
LEMMA WorldStep ==
  ASSUME Inv, (\E c \in Cells : Expire(c)) \/ (\E t \in Tiles : Damage(t))
  PROVE  Inv'
<1>1. /\ UNCHANGED <<sources, lock, job>> /\ missing' \subseteq missing
      /\ tile' = tile \/ \E t \in Tiles : Valid(tile[t]) /\ tile' = [tile EXCEPT ![t] = Damaged]
  BY DEF Expire, Damage
<1>2. /\ tile' \in [Tiles -> Normalized \union {Damaged, None}]
      /\ \A t \in Tiles : tile'[t] = tile[t] \/ (tile[t] # None /\ tile'[t] = Damaged)
  BY <1>1 DEF Inv, TypeOK, Valid
<1>3. TypeOK' /\ OneFiller'
  BY <1>1, <1>2 DEF Inv, TypeOK, OneFiller, Locking, At
<1>4. \A j \in Jobs : ~At(j, "idle") => job[j].tile \in Tiles
  BY JobFields DEF At
<1>5. FillsInvalid'
  BY <1>1, <1>2, <1>4 DEF Inv, FillsInvalid, Valid, At
<1>6. ASSUME NEW j \in Jobs, Expects(j)'
      PROVE  Knows(j)'
  <2>1. Knows(j)
    BY <1>1, <1>6 DEF Inv, Informed, Expects
  <2>2. At(j, "reading") /\ tile[job[j].tile] # None => tile'[job[j].tile] # None
    BY <1>2, <1>4, TilesAssumption DEF At
  <2>. QED  BY <1>1, <2>1, <2>2 DEF Knows, Locking, At, Covered
<1>7. Informed'
  BY <1>1, <1>6 DEF Inv, Informed, At
<1>. QED  BY <1>3, <1>5, <1>7 DEF Inv

-----------------------------------------------------------------------------
(* Theorems *)

(* At first there is no tile and nobody is at work.                        *)
LEMMA InitInv == Init => Inv
<1> SUFFICES ASSUME Init PROVE Inv
  OBVIOUS
<1>1. \A j \in Jobs : job[j] = Idle
  BY DEF Init
<1>2. TypeOK
  BY <1>1, IdleType, TilesAssumption DEF Init, TypeOK, At
<1>3. OneFiller /\ FillsInvalid /\ Informed
  BY <1>1, IdleType DEF OneFiller, FillsInvalid, Informed, Knows, Locking, At
<1>. QED  BY <1>2, <1>3 DEF Inv

(* Every step keeps the invariant.                                         *)
LEMMA NextInv == Inv /\ [Next]_vars => Inv'
<1> SUFFICES ASSUME Inv, [Next]_vars PROVE Inv'
  OBVIOUS
<1>1. CASE UNCHANGED vars
  BY <1>1 DEF vars, cache, Inv, TypeOK, OneFiller, FillsInvalid, Informed, Expects, Knows,
              Covered, Locking, At
<1>2. CASE Next
  BY <1>2, SubmitStep, AcquireStep, AcquireCellStep, AcquiredStep, GiveUpStep, ReadStep, LockStep,
     CheckAgainStep, FillCellStep, StoreStep, DeleteStep, WorldStep DEF Next, Step
<1>. QED  BY <1>1, <1>2

(* The invariant holds in every reachable state.                           *)
THEOREM Invariance == Safe => []Inv
BY InitInv, NextInv, PTL DEF Safe

(* Every variable keeps its type.                                          *)
THEOREM TypeCorrect == Safe => []TypeOK
<1>1. Inv => TypeOK
  BY DEF Inv
<1>. QED  BY <1>1, Invariance, PTL

(* A job that fills a tile undisturbed has data wherever there is a source *)
(* upstream (TerrainData::terrainTile, tileNeedsRemoteAcquisition).        *)
THEOREM FilledAreWhole == Safe => []FilledTilesAreWhole
<1>1. Inv => FilledTilesAreWhole
  <2> SUFFICES ASSUME Inv, NEW j \in Jobs, At(j, "filling"), Origin(j) = "filled",
                      ~job[j].disturbed
               PROVE  job[j].holes \intersect Exists = {}
    BY DEF FilledTilesAreWhole
  <2>1. ~job[j].repairing /\ ~job[j].fallback
    BY DEF Origin
  <2>. QED  BY <2>1 DEF Inv, Informed, Expects, Knows
<1>. QED  BY <1>1, Invariance, PTL

(* A valid tile is not written over (the second read under the lock in     *)
(* TerrainData::terrainTile).                                              *)
THEOREM ValidStay == Safe => ValidTilesStay
<1>1. ASSUME Inv, [Next]_vars, NEW t \in Tiles, Valid(tile[t])
      PROVE  tile'[t] \in {tile[t], Damaged, None}
  <2>5. tile \in [Tiles -> Normalized \union {Damaged, None}]
    BY <1>1 DEF Inv, TypeOK
  <2>1. CASE UNCHANGED tile
    BY <2>1
  <2>2. CASE \E j \in Jobs : Store(j)
    <3>1. PICK j \in Jobs : Store(j)
      BY <2>2
    <3>2. At(j, "filling") /\ (tile' = tile
             \/ tile' = [tile EXCEPT ![job[j].tile] = [holes |-> job[j].holes, origin |-> Origin(j)]])
      BY <3>1 DEF Store
    <3>3. job[j].tile # t
      BY <1>1, <3>2 DEF Inv, FillsInvalid
    <3>. QED  BY <2>5, <3>2, <3>3
  <2>3. CASE \E u \in Tiles : DeleteTile(u) \/ Damage(u)
    <3>1. PICK u \in Tiles : DeleteTile(u) \/ Damage(u)
      BY <2>3
    <3>2. tile' = [tile EXCEPT ![u] = None] \/ tile' = [tile EXCEPT ![u] = Damaged]
      BY <3>1 DEF DeleteTile, Damage
    <3>. QED  BY <2>5, <3>2
  <2>4. UNCHANGED tile \/ (\E j \in Jobs : Store(j)) \/ \E u \in Tiles : DeleteTile(u) \/ Damage(u)
    <3>1. CASE UNCHANGED vars
      BY <3>1 DEF vars, cache
    <3>2. CASE \E j \in Jobs : Step(j)
      BY <3>2 DEF Step, Acquire, AcquireCell, Acquired, GiveUp, Read, LockTile, LockTimeout,
                  CheckAgain, FillCell, cache
    <3>3. CASE \E u \in Tiles : \E p \in Needs[u] \union {None} : \E j \in Jobs : Submit(j, u, p)
      BY <3>3 DEF Submit, cache
    <3>4. CASE \E c \in Cells : DeleteSource(c) \/ Expire(c)
      BY <3>4 DEF DeleteSource, Expire
    <3>. QED  BY <1>1, <3>1, <3>2, <3>3, <3>4 DEF Next
  <2>. QED  BY <2>1, <2>2, <2>3, <2>4
<1>2. Inv /\ [Next]_vars =>
        \A t \in Tiles : Valid(tile[t]) => tile'[t] \in {tile[t], Damaged, None}
  BY <1>1
<1>. QED  BY <1>2, Invariance, PTL DEF Safe, ValidTilesStay
=============================================================================
