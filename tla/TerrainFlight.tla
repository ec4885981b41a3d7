---------------------------- MODULE TerrainFlight ----------------------------
(***************************************************************************)
(* The terrain front end of the HTTP server (src/src/server/server.cpp).   *)
(*                                                                         *)
(* Identical terrain requests share one job, a flight.  The HTTP thread    *)
(* keeps, per key, the waiting promises and the cancellation token of the  *)
(* current flight; a flight that may download first runs on the remote     *)
(* pool, which enqueues its CPU stage on the worker pool; the pool threads *)
(* post the result to the HTTP thread, which answers the waiters only if   *)
(* the flight's token is still the registered one.  When the last waiter   *)
(* of a flight disconnects, the flight is unregistered and its token set.  *)
(*                                                                         *)
(* Tiles, elevations and grids have a registry each and the same protocol; *)
(* here they are keys of one registry, and Cost is 0 for all but grids.    *)
(* A flight, and its token, is named by the request that started it.       *)
(* Everything the HTTP thread does is one step (it runs handlers to        *)
(* completion); a pool thread's task is cut where it touches shared state. *)
(*                                                                         *)
(* An operator named <Definition>_<mistake> is that definition with a      *)
(* plausible mistake in it.  No specification uses one: PROJECT.json says  *)
(* which property TLC finds broken when it takes the definition's place.   *)
(***************************************************************************)
EXTENDS Integers, FiniteSets

CONSTANTS
  Requests,        \* HTTP requests; each is submitted at most once
  Keys,            \* single-flight keys (dataset, address, datum, bounds)
  Sockets,         \* client connections; each disconnects at most once
  Deletion,        \* the "key" of a cache deletion, which is never shared
  NoKey, Nobody,   \* sentinels: no key yet; no flight or no known socket
  Cost,            \* bytes a grid flight reserves; 0 for other keys
  MaxGridBytes,    \* terrain_grid_bytes, 64 MiB in the server
  MaxJobs,         \* terrain_admission
  MaxRemoteJobs,   \* terrain_remote_admission, half of MaxJobs
  MaxPending,      \* max_pending_requests
  Workers,         \* threads of terrain_worker_pool
  RemoteWorkers    \* threads of terrain_remote_pool

ASSUME ConstantsAssumption ==
  /\ IsFiniteSet(Requests)
  /\ Nobody \notin Requests
  /\ NoKey \notin Keys /\ Deletion \notin Keys /\ NoKey # Deletion
  /\ Cost \in [Keys -> Nat]
  /\ MaxGridBytes \in Nat /\ MaxPending \in Nat
  /\ MaxJobs \in Nat \ {0} /\ MaxRemoteJobs \in Nat \ {0}
  /\ Workers \in Nat \ {0} /\ RemoteWorkers \in Nat \ {0}

VARIABLES
  phase,            \* "running", then the stages of ~Server
  connected,        \* open client connections
  key,              \* key of each submitted request
  waiting,          \* requests whose promise is in a pending_terrain_* list
  socket,           \* terrain_waiter_sockets
  answer,           \* what each request was told
  token,            \* key -> registered flight (the *_cancellations maps)
  cancelled,        \* tokens that were set
  stage,            \* where each flight's job is
  admission,        \* terrain_admission.outstanding
  remote_admission, \* terrain_remote_admission.outstanding
  grid_bytes,       \* terrain_grid_bytes.reserved
  pending_count     \* pending_terrain_tile_count

registry == <<key, waiting, socket, answer, token, cancelled, pending_count>>
vars == <<phase, connected, registry, stage, admission, remote_admission, grid_bytes>>

RemotePool == {"remote_queued", "acquiring", "acquired", "unacquired"}
WorkerPool == {"worker_queued", "processing", "skipping"}
Posted == {"ready", "error", "unprocessed"}   \* the result in the queued callback
HoldsJob == RemotePool \union WorkerPool     \* stages that hold a terrain_admission
HoldsRemoteJob == {"remote_queued", "acquiring"}   \* and a terrain_remote_admission
Stages == {"none", "done"} \union HoldsJob \union Posted

Answers == {"none", "busy", "disconnected", "shutdown"} \union Posted

At(stages) == {f \in Requests : stage[f] \in stages}

Waiters(k) == {r \in waiting : key[r] = k}

Init ==
  /\ phase = "running"
  /\ connected = Sockets
  /\ key = [r \in Requests |-> NoKey]
  /\ waiting = {}
  /\ socket = [r \in Requests |-> Nobody]
  /\ answer = [r \in Requests |-> "none"]
  /\ token = [k \in Keys |-> Nobody]
  /\ cancelled = {}
  /\ stage = [r \in Requests |-> "none"]
  /\ admission = 0 /\ remote_admission = 0 /\ grid_bytes = 0
  /\ pending_count = 0

-----------------------------------------------------------------------------
(* HTTP thread: submitTerrainTile, submitTerrainElevation, submitTerrainGrid *)

(* The three tryAcquire calls, bytes first, are one test here: only the    *)
(* HTTP thread acquires, the pools only release, and what an earlier call  *)
(* took is given back in the same handler when a later one fails.          *)
Admits(k, remote) ==
  /\ grid_bytes + Cost[k] <= MaxGridBytes
  /\ remote => remote_admission < MaxRemoteJobs
  /\ admission < MaxJobs

Reserve(k, remote) ==
  /\ grid_bytes' = grid_bytes + Cost[k]
  /\ remote_admission' = remote_admission + (IF remote THEN 1 ELSE 0)
  /\ admission' = admission + 1

(* The promise joins the list of its key and remembers its client socket.  *)
Attach(r, k, s) ==
  /\ key' = [key EXCEPT ![r] = k]
  /\ waiting' = waiting \union {r}
  /\ socket' = [socket EXCEPT ![r] = s]
  /\ pending_count' = pending_count + 1
  /\ UNCHANGED answer

JoinFlight_Unbounded(r, k, s) ==
  /\ phase = "running" /\ key[r] = NoKey
  /\ Waiters(k) # {}
  /\ Attach(r, k, s)
  /\ UNCHANGED <<phase, connected, token, cancelled, stage,
                 admission, remote_admission, grid_bytes>>

JoinFlight(r, k, s) ==
  /\ phase = "running" /\ key[r] = NoKey
  /\ Waiters(k) # {}
  /\ pending_count < MaxPending
  /\ Attach(r, k, s)
  /\ UNCHANGED <<phase, connected, token, cancelled, stage,
                 admission, remote_admission, grid_bytes>>

(* remote: whether *NeedsRemoteAcquisition found a source missing just now *)
StartFlight(r, k, s, remote) ==
  /\ phase = "running" /\ key[r] = NoKey
  /\ Waiters(k) = {}
  /\ pending_count < MaxPending
  /\ Admits(k, remote)
  /\ Reserve(k, remote)
  /\ Attach(r, k, s)
  /\ token' = [token EXCEPT ![k] = r]
  /\ stage' = [stage EXCEPT ![r] = IF remote THEN "remote_queued" ELSE "worker_queued"]
  /\ UNCHANGED <<phase, connected, cancelled>>

RefuseRequest(r, k, remote) ==
  /\ phase = "running" /\ key[r] = NoKey
  /\ pending_count >= MaxPending \/ (Waiters(k) = {} /\ ~Admits(k, remote))
  /\ key' = [key EXCEPT ![r] = k]
  /\ answer' = [answer EXCEPT ![r] = "busy"]
  /\ UNCHANGED <<phase, connected, waiting, socket, token, cancelled, pending_count,
                 stage, admission, remote_admission, grid_bytes>>

(* submitTerrainJob: a cache deletion takes a job and a worker, no flight  *)
StartDeletion(r) ==
  /\ phase = "running" /\ key[r] = NoKey
  /\ admission < MaxJobs
  /\ admission' = admission + 1
  /\ key' = [key EXCEPT ![r] = Deletion]
  /\ stage' = [stage EXCEPT ![r] = "worker_queued"]
  /\ UNCHANGED <<phase, connected, waiting, socket, answer, token, cancelled,
                 pending_count, remote_admission, grid_bytes>>

RefuseDeletion(r) ==
  /\ phase = "running" /\ key[r] = NoKey
  /\ admission >= MaxJobs
  /\ key' = [key EXCEPT ![r] = Deletion]
  /\ answer' = [answer EXCEPT ![r] = "busy"]
  /\ UNCHANGED <<phase, connected, waiting, socket, token, cancelled, pending_count,
                 stage, admission, remote_admission, grid_bytes>>

-----------------------------------------------------------------------------
(* HTTP thread: disconnects and queued callbacks *)

Settle_CountsOne(S, a) ==
  /\ waiting' = waiting \ S
  /\ pending_count' = IF S = {} THEN pending_count ELSE pending_count - 1
  /\ socket' = [r \in Requests |-> IF r \in S THEN Nobody ELSE socket[r]]
  /\ answer' = [r \in Requests |-> IF r \in S THEN a ELSE answer[r]]
  /\ UNCHANGED key

(* Answer the waiters in S: each leaves its list, its socket is forgotten. *)
Settle(S, a) ==
  /\ waiting' = waiting \ S
  /\ pending_count' = pending_count - Cardinality(S)
  /\ socket' = [r \in Requests |-> IF r \in S THEN Nobody ELSE socket[r]]
  /\ answer' = [r \in Requests |-> IF r \in S THEN a ELSE answer[r]]
  /\ UNCHANGED key

Orphans_Retained(S) == {}

(* The keys whose list the departure of the waiters in S leaves empty.     *)
Orphans(S) == {k \in Keys : Waiters(k) # {} /\ Waiters(k) \subseteq S}

(* abandonTerrainWaiters.  An orphaned flight leaves the registry at once; *)
(* its worker keeps its reservations.  (The second call, when the socket   *)
(* object is destroyed, finds no waiter and changes nothing.)              *)
Disconnect(s) ==
  LET gone == {r \in waiting : socket[r] = s}
  IN /\ phase = "running" /\ s \in connected
     /\ connected' = connected \ {s}
     /\ Settle(gone, "disconnected")
     /\ cancelled' = cancelled \union {token[k] : k \in Orphans(gone)}
     /\ token' = [k \in Keys |-> IF k \in Orphans(gone) THEN Nobody ELSE token[k]]
     /\ UNCHANGED <<phase, stage, admission, remote_admission, grid_bytes>>

IsCurrent(f) == token[key[f]] = f

Deliver_StaleKeepsBytes(f) ==
  /\ phase = "running" /\ stage[f] \in Posted
  /\ stage' = [stage EXCEPT ![f] = "done"]
  /\ \/ /\ IsCurrent(f)
        /\ grid_bytes' = grid_bytes - Cost[key[f]]
        /\ token' = [token EXCEPT ![key[f]] = Nobody]
        /\ Settle(Waiters(key[f]), stage[f])
     \/ /\ ~IsCurrent(f)
        /\ UNCHANGED <<key, waiting, socket, answer, token, pending_count, grid_bytes>>
  /\ UNCHANGED <<phase, connected, cancelled, admission, remote_admission>>

(* The queued callback of flight f.  A flight that is no longer registered *)
(* answers nobody; a grid returns its bytes either way.                    *)
Deliver(f) ==
  /\ phase = "running" /\ stage[f] \in Posted
  /\ grid_bytes' = grid_bytes - Cost[key[f]]
  /\ stage' = [stage EXCEPT ![f] = "done"]
  /\ \/ /\ IsCurrent(f)
        /\ token' = [token EXCEPT ![key[f]] = Nobody]
        /\ Settle(Waiters(key[f]), stage[f])
     \/ /\ ~IsCurrent(f)
        /\ UNCHANGED <<key, waiting, socket, answer, token, pending_count>>
  /\ UNCHANGED <<phase, connected, cancelled, admission, remote_admission>>

-----------------------------------------------------------------------------
(* Remote pool: one task per flight that may download *)

Go(f, to) == stage' = [stage EXCEPT ![f] = to]

OnPool == UNCHANGED <<phase, connected, registry, grid_bytes>>

RemoteFree == Cardinality(At({"acquiring", "acquired", "unacquired"})) < RemoteWorkers

StartAcquisition(f) ==
  /\ stage[f] = "remote_queued" /\ RemoteFree
  /\ Go(f, "acquiring")
  /\ OnPool /\ UNCHANGED <<admission, remote_admission>>

(* acquire*Sources returned; the remote slot is free from here on.         *)
FinishAcquisition(f) ==
  /\ stage[f] = "acquiring"
  /\ remote_admission' = remote_admission - 1
  /\ \E to \in {"acquired", "unacquired"} : Go(f, to)
  /\ OnPool /\ UNCHANGED admission

HandOff_OnHttpThread(f) ==
  /\ stage[f] = "acquired" /\ f \notin cancelled /\ phase = "running"
  /\ Go(f, "worker_queued")
  /\ OnPool /\ UNCHANGED <<admission, remote_admission>>

(* The CPU stage is enqueued, never waited for.                            *)
HandOff(f) ==
  /\ stage[f] = "acquired" /\ f \notin cancelled
  /\ Go(f, "worker_queued")
  /\ OnPool /\ UNCHANGED <<admission, remote_admission>>

EndWithoutSources_ReleasesRemote(f) ==
  /\ stage[f] = "unacquired" \/ (stage[f] = "acquired" /\ f \in cancelled)
  /\ admission' = admission - 1
  /\ remote_admission' = remote_admission - 1
  /\ Go(f, "error")
  /\ OnPool

EndWithoutSources(f) ==
  /\ stage[f] = "unacquired" \/ (stage[f] = "acquired" /\ f \in cancelled)
  /\ admission' = admission - 1
  /\ Go(f, "error")
  /\ OnPool /\ UNCHANGED remote_admission

-----------------------------------------------------------------------------
(* Worker pool: CPU stages and cache deletions *)

WorkerFree_SharedPool ==
  Cardinality(At({"acquiring", "acquired", "unacquired", "processing", "skipping"})) < Workers

WorkerFree == Cardinality(At({"processing", "skipping"})) < Workers

(* A worker takes a task and reads the flight's token.                     *)
StartProcessing(f) ==
  /\ stage[f] = "worker_queued" /\ WorkerFree
  /\ Go(f, IF f \in cancelled THEN "skipping" ELSE "processing")
  /\ OnPool /\ UNCHANGED <<admission, remote_admission>>

FinishProcessing(f) ==
  /\ key[f] \in Keys
  /\ \/ stage[f] = "processing" /\ \E result \in {"ready", "error"} : Go(f, result)
     \/ stage[f] = "skipping" /\ Go(f, "unprocessed")
  /\ admission' = admission - 1
  /\ OnPool /\ UNCHANGED remote_admission

FinishDeletion(r) ==
  /\ key[r] = Deletion /\ stage[r] = "processing"
  /\ admission' = admission - 1
  /\ answer' = [answer EXCEPT ![r] = "ready"]
  /\ Go(r, "done")
  /\ UNCHANGED <<phase, connected, key, waiting, socket, token, cancelled,
                 pending_count, remote_admission, grid_bytes>>

-----------------------------------------------------------------------------
(* ~Server.  From BeginShutdown on, the HTTP thread is inside it: no       *)
(* request, disconnect or callback is handled any more.                    *)

BeginShutdown ==
  /\ phase = "running"
  /\ phase' = "joining_remote"
  /\ UNCHANGED <<connected, registry, stage, admission, remote_admission, grid_bytes>>

JoinRemotePool_NoWait ==
  /\ phase = "joining_remote"
  /\ phase' = "joining_workers"
  /\ UNCHANGED <<connected, registry, stage, admission, remote_admission, grid_bytes>>

(* terrain_remote_pool.waitForDone() returns.                              *)
JoinRemotePool ==
  /\ phase = "joining_remote" /\ At(RemotePool) = {}
  /\ phase' = "joining_workers"
  /\ UNCHANGED <<connected, registry, stage, admission, remote_admission, grid_bytes>>

StillWaiting_NoGrids == {r \in waiting : Cost[key[r]] = 0}

(* The promises left in the three registries, which ~Server answers.       *)
StillWaiting == waiting

(* terrain_worker_pool.waitForDone() returns; every promise still in a     *)
(* registry is answered and the queued callbacks die with the server.      *)
JoinWorkerPool ==
  /\ phase = "joining_workers" /\ At(WorkerPool) = {}
  /\ phase' = "stopped"
  /\ waiting' = waiting \ StillWaiting /\ pending_count' = 0
  /\ socket' = [r \in Requests |-> Nobody]
  /\ answer' = [r \in Requests |-> IF r \in StillWaiting THEN "shutdown" ELSE answer[r]]
  /\ token' = [k \in Keys |-> Nobody]
  /\ UNCHANGED <<connected, key, cancelled, stage, admission, remote_admission, grid_bytes>>

-----------------------------------------------------------------------------
Clients ==
  \/ \E r \in Requests, k \in Keys, s \in connected \union {Nobody} :
        JoinFlight(r, k, s) \/ \E remote \in BOOLEAN : StartFlight(r, k, s, remote)
  \/ \E r \in Requests, k \in Keys, remote \in BOOLEAN : RefuseRequest(r, k, remote)
  \/ \E r \in Requests : StartDeletion(r) \/ RefuseDeletion(r)
  \/ \E s \in Sockets : Disconnect(s)

PoolStep(f) ==
  \/ StartAcquisition(f)
  \/ HandOff(f)
  \/ EndWithoutSources(f)
  \/ StartProcessing(f)
  \/ FinishProcessing(f)
  \/ FinishDeletion(f)

Next ==
  \/ Clients
  \/ \E f \in Requests : Deliver(f) \/ FinishAcquisition(f) \/ PoolStep(f)
  \/ BeginShutdown
  \/ JoinRemotePool
  \/ JoinWorkerPool

Safe == Init /\ [][Next]_vars

(* Pool threads run their tasks, tasks start in the order they were queued *)
(* (so each one does), the event loop delivers what is posted, and the     *)
(* destructor goes on when a pool is done.  Clients owe nothing.           *)
Fairness ==
  /\ \A f \in Requests : WF_vars(PoolStep(f)) /\ WF_vars(Deliver(f))
  /\ WF_vars(JoinRemotePool)
  /\ WF_vars(JoinWorkerPool)

Spec == Safe /\ Fairness

(* Every source acquisition ends: the transfer deadline, the inactivity    *)
(* timeout and the lock timeout bound it.  Properties that need this say   *)
(* so.                                                                     *)
AcquisitionsEnd == \A f \in Requests : WF_vars(FinishAcquisition(f))

-----------------------------------------------------------------------------
TypeOK ==
  /\ phase \in {"running", "joining_remote", "joining_workers", "stopped"}
  /\ connected \subseteq Sockets
  /\ key \in [Requests -> Keys \union {Deletion, NoKey}]
  /\ waiting \subseteq Requests
  /\ socket \in [Requests -> Sockets \union {Nobody}]
  /\ answer \in [Requests -> Answers]
  /\ token \in [Keys -> Requests \union {Nobody}]
  /\ cancelled \subseteq Requests
  /\ stage \in [Requests -> Stages]
  /\ admission \in Nat /\ remote_admission \in Nat /\ pending_count \in Nat
  /\ grid_bytes \in Int

(* The admission counters count exactly the jobs that hold a place, on     *)
(* every path a job can end by (served, failed, orphaned, skipped, shut    *)
(* down), and never exceed their limits; so do the pending responses.      *)
(* (terrain_admission.release and terrain_remote_admission.release in the  *)
(* pool tasks, --pending_terrain_tile_count in abandonTerrainWaiters.)     *)
ReservationsMatchJobs ==
  /\ admission = Cardinality(At(HoldsJob))
  /\ remote_admission = Cardinality(At(HoldsRemoteJob))
  /\ pending_count = Cardinality(waiting)
  /\ admission <= MaxJobs
  /\ remote_admission <= MaxRemoteJobs
  /\ pending_count <= MaxPending

(* Flights whose callback did not run yet, and their bytes, one by one.    *)
Airborne == {f \in Requests : key[f] \in Keys /\ stage[f] \notin {"none", "done"}}
ReservedBytes == UNION {{f} \X (1 .. Cost[key[f]]) : f \in Airborne}

(* The grid budget holds the bytes of every grid flight from its admission *)
(* until its callback ran, orphaned flights included, and no others.       *)
(* (terrain_grid_bytes in submitTerrainGrid.)                              *)
GridBytesMatchFlights ==
  /\ grid_bytes = Cardinality(ReservedBytes)
  /\ grid_bytes <= MaxGridBytes

(* A key has waiters exactly when a flight is registered for it, and that  *)
(* flight is its own, was not cancelled and still has its job or callback  *)
(* ahead of it: nobody joins a flight that will never answer.              *)
(* (pending_terrain_* against *_cancellations.)                            *)
RegisteredFlightsAnswer ==
  \A k \in Keys :
    /\ token[k] = Nobody <=> Waiters(k) = {}
    /\ token[k] # Nobody =>
         /\ key[token[k]] = k
         /\ token[k] \notin cancelled
         /\ stage[token[k]] \notin {"none", "done"}

(* Nobody is answered with the default result of a task that skipped its   *)
(* work because its token was set: an orphaned flight cannot answer the    *)
(* waiters of its replacement.  (The identity test in the callbacks.)      *)
AnswersAreComputed == \A r \in Requests : answer[r] # "unprocessed"

(* terrain_waiter_sockets has an entry only for a waiting promise, and     *)
(* only for an open socket: a closed connection leaves no waiter behind    *)
(* and no key for a later promise at the same address.                     *)
SocketsOfWaiters ==
  \A r \in Requests : socket[r] # Nobody => r \in waiting /\ socket[r] \in connected

(* When ~Server returns, no pool task runs or is queued, every admission   *)
(* is back and every request that was received has an answer.              *)
StoppedIsQuiet ==
  phase = "stopped" =>
    /\ At(HoldsJob) = {}
    /\ admission = 0 /\ remote_admission = 0
    /\ \A r \in Requests : key[r] # NoKey => answer[r] # "none"

(* What ties requests, flights and the stages of ~Server together: a       *)
(* request without an answer waits in a registry or is a deletion still on *)
(* its way, only a cancelled flight skips its work, and a pool that was    *)
(* joined is empty.  With the invariants above it is inductive.            *)
Lifecycle ==
  /\ \A r \in Requests :
       /\ key[r] = NoKey =>
            /\ stage[r] = "none" /\ answer[r] = "none" /\ socket[r] = Nobody
            /\ r \notin waiting /\ r \notin cancelled
       /\ r \in waiting => key[r] \in Keys /\ answer[r] = "none"
       /\ key[r] = Deletion =>
            /\ stage[r] \in {"none", "worker_queued", "processing", "done"}
            /\ r \notin cancelled
            /\ stage[r] \in WorkerPool => answer[r] = "none"
       /\ key[r] # NoKey /\ answer[r] = "none" =>
            r \in waiting \/ (key[r] = Deletion /\ stage[r] \in WorkerPool)
       /\ stage[r] \in {"skipping", "unprocessed"} => r \in cancelled
  /\ phase \in {"joining_workers", "stopped"} => At(RemotePool) = {}
  /\ phase = "stopped" => At(WorkerPool) = {} /\ waiting = {}

(* The front end does what SingleFlight promises: one answer per request,  *)
(* shared by all waiters of a key, from a job of that key that did its     *)
(* work, or a refusal, a disconnect or the shutdown.                       *)
Service ==
  INSTANCE SingleFlight
    WITH outstanding <-
           waiting \union {r \in Requests : key[r] = Deletion /\ stage[r] \in WorkerPool}

ImplementsSingleFlight == Service!Safe

(* Every request that was received is answered, if acquisitions end.       *)
EveryRequestAnswered == AcquisitionsEnd => Service!EveryRequestSettles

(* ~Server returns, if acquisitions end: neither pool waits for the other  *)
(* for ever.                                                               *)
ShutdownCompletes == AcquisitionsEnd => (phase # "running" ~> phase = "stopped")

(* Even when no source acquisition ever ends, a job that has its sources   *)
(* is processed: acquisitions hold no worker thread.                       *)
LocalJobsEnd ==
  \A f \in Requests : stage[f] = "worker_queued" ~> stage[f] \notin WorkerPool
=============================================================================
