------------------------- MODULE TerrainFlightProofs -------------------------
(***************************************************************************)
(* Proofs about TerrainFlight for every number of requests, keys, sockets, *)
(* threads and every limit.                                                *)
(***************************************************************************)
EXTENDS TerrainFlight, FiniteSetTheorems, TLAPS

IInv ==
  /\ TypeOK
  /\ ReservationsMatchJobs
  /\ RegisteredFlightsAnswer
  /\ AnswersAreComputed
  /\ SocketsOfWaiters
  /\ Lifecycle

(* Taking one element in or out of a finite set moves its cardinality by   *)
(* one.                                                                    *)
LEMMA Counting ==
  ASSUME NEW S, IsFiniteSet(S), NEW x
  PROVE  /\ Cardinality(S) \in Nat
         /\ x \notin S => Cardinality(S \union {x}) = Cardinality(S) + 1
         /\ x \in S => Cardinality(S \ {x}) = Cardinality(S) - 1
<1>1. Cardinality(S) \in Nat
  BY FS_CardinalityType
<1>2. x \notin S => Cardinality(S \union {x}) = Cardinality(S) + 1
  BY FS_AddElement
<1>3. x \in S => Cardinality(S \ {x}) = Cardinality(S) - 1
  BY FS_RemoveElement
<1>. QED  BY <1>1, <1>2, <1>3

(* The number of flights in given stages is a natural number, and 0 when   *)
(* there are none.                                                         *)
LEMMA StageCount ==
  ASSUME NEW CONSTANT stages
  PROVE  /\ IsFiniteSet(At(stages)) /\ Cardinality(At(stages)) \in Nat
         /\ IsFiniteSet(At(stages)') /\ Cardinality(At(stages)') \in Nat
         /\ At(stages) = {} => Cardinality(At(stages)) = 0
<1>1. IsFiniteSet(At(stages)) /\ IsFiniteSet(At(stages)')
  BY FS_Subset, ConstantsAssumption DEF At
<1>. QED  BY <1>1, FS_CardinalityType, FS_EmptySet

(* What one flight's move does to the number of flights in given stages.   *)
LEMMA OneMove ==
  ASSUME NEW f \in Requests, NEW CONSTANT stages,
         \A g \in Requests \ {f} : stage'[g] = stage[g]
  PROVE  Cardinality(At(stages)') = Cardinality(At(stages))
           + (IF stage'[f] \in stages THEN 1 ELSE 0) - (IF stage[f] \in stages THEN 1 ELSE 0)
<1>1. IsFiniteSet(At(stages)) /\ Cardinality(At(stages)) \in Nat
  BY StageCount
<1>2. CASE stage[f] \in stages <=> stage'[f] \in stages
  <2>. At(stages)' = At(stages)
    BY <1>2 DEF At
  <2>. QED  BY <1>1, <1>2
<1>3. CASE stage[f] \notin stages /\ stage'[f] \in stages
  <2>1. At(stages)' = At(stages) \union {f} /\ f \notin At(stages)
    BY <1>3 DEF At
  <2>. QED  BY <1>1, <1>3, <2>1, Counting
<1>4. CASE stage[f] \in stages /\ stage'[f] \notin stages
  <2>1. At(stages)' = At(stages) \ {f} /\ f \in At(stages)
    BY <1>4 DEF At
  <2>. QED  BY <1>1, <1>4, <2>1, Counting
<1>. QED  BY <1>2, <1>3, <1>4

(* Which stages hold which reservation. *)
LEMMA Holders ==
  /\ \A x \in {"remote_queued", "acquiring"} : x \in HoldsJob /\ x \in HoldsRemoteJob
  /\ \A x \in {"acquired", "unacquired", "worker_queued", "processing", "skipping"} :
        x \in HoldsJob /\ x \notin HoldsRemoteJob
  /\ \A x \in {"none", "done", "ready", "error", "unprocessed"} :
        x \notin HoldsJob /\ x \notin HoldsRemoteJob
BY DEF HoldsJob, HoldsRemoteJob, RemotePool, WorkerPool

(* The same for the two kinds of reservation.                              *)
LEMMA HoldersMove ==
  ASSUME NEW f \in Requests, \A g \in Requests \ {f} : stage'[g] = stage[g]
  PROVE  /\ Cardinality(At(HoldsJob)') = Cardinality(At(HoldsJob))
              + (IF stage'[f] \in HoldsJob THEN 1 ELSE 0)
              - (IF stage[f] \in HoldsJob THEN 1 ELSE 0)
         /\ Cardinality(At(HoldsRemoteJob)') = Cardinality(At(HoldsRemoteJob))
              + (IF stage'[f] \in HoldsRemoteJob THEN 1 ELSE 0)
              - (IF stage[f] \in HoldsRemoteJob THEN 1 ELSE 0)
         /\ Cardinality(At(HoldsJob)) \in Nat /\ Cardinality(At(HoldsRemoteJob)) \in Nat
         /\ Cardinality(At(HoldsJob)') \in Nat /\ Cardinality(At(HoldsRemoteJob)') \in Nat
<1>1. Cardinality(At(HoldsJob)') = Cardinality(At(HoldsJob))
        + (IF stage'[f] \in HoldsJob THEN 1 ELSE 0) - (IF stage[f] \in HoldsJob THEN 1 ELSE 0)
  BY OneMove
<1>2. Cardinality(At(HoldsRemoteJob)') = Cardinality(At(HoldsRemoteJob))
        + (IF stage'[f] \in HoldsRemoteJob THEN 1 ELSE 0)
        - (IF stage[f] \in HoldsRemoteJob THEN 1 ELSE 0)
  BY OneMove
<1>. QED  BY <1>1, <1>2, StageCount

(* The initial state satisfies the invariant. *)
LEMMA InitIInv == Init => IInv
<1>. SUFFICES ASSUME Init PROVE IInv
  OBVIOUS
<1>1. TypeOK
  BY ConstantsAssumption DEF Init, TypeOK, Stages, Answers
<1>2. ReservationsMatchJobs
  <2>1. At(HoldsJob) = {} /\ At(HoldsRemoteJob) = {}
    BY DEF Init, At, HoldsJob, HoldsRemoteJob, RemotePool, WorkerPool
  <2>2. Cardinality({}) = 0
    BY FS_EmptySet
  <2>. QED  BY <2>1, <2>2, ConstantsAssumption DEF Init, ReservationsMatchJobs
<1>3. RegisteredFlightsAnswer /\ AnswersAreComputed /\ SocketsOfWaiters
  BY DEF Init, RegisteredFlightsAnswer, Waiters, AnswersAreComputed, SocketsOfWaiters
<1>4. Lifecycle
  BY ConstantsAssumption DEF Init, Lifecycle, WorkerPool
<1>. QED  BY <1>1, <1>2, <1>3, <1>4 DEF IInv

(* A request that joins the registered flight of its key. *)
LEMMA JoinFlightKeeps ==
  ASSUME IInv, NEW r \in Requests, NEW k \in Keys, NEW s \in connected \union {Nobody},
         JoinFlight(r, k, s)
  PROVE  IInv'
<1>. USE DEF JoinFlight, Attach, IInv
<1>1. TypeOK'
  BY DEF TypeOK
<1>2. ReservationsMatchJobs'
  <2>1. r \notin waiting /\ IsFiniteSet(waiting)
    BY FS_Subset, ConstantsAssumption DEF Lifecycle, TypeOK
  <2>2. Cardinality(waiting') = Cardinality(waiting) + 1
    BY <2>1, Counting
  <2>3. pending_count' <= MaxPending
    BY ConstantsAssumption DEF TypeOK
  <2>. QED  BY <2>2, <2>3 DEF ReservationsMatchJobs, At
<1>3. RegisteredFlightsAnswer'
  BY ConstantsAssumption DEF RegisteredFlightsAnswer, Waiters, TypeOK, Lifecycle
<1>4. AnswersAreComputed' /\ SocketsOfWaiters'
  BY ConstantsAssumption DEF AnswersAreComputed, SocketsOfWaiters, TypeOK
<1>5. Lifecycle'
  BY ConstantsAssumption DEF Lifecycle, TypeOK, At
<1>. QED  BY <1>1, <1>2, <1>3, <1>4, <1>5

(* A request that starts a flight and takes its reservations. *)
LEMMA StartFlightKeeps ==
  ASSUME IInv, NEW r \in Requests, NEW k \in Keys, NEW s \in connected \union {Nobody},
         NEW remote \in BOOLEAN, StartFlight(r, k, s, remote)
  PROVE  IInv'
<1>. USE DEF StartFlight, Attach, Reserve, Admits, IInv
<1>. DEFINE to == IF remote THEN "remote_queued" ELSE "worker_queued"
<1>1. stage[r] = "none" /\ r \notin waiting /\ r \notin cancelled /\ answer[r] = "none"
  BY DEF Lifecycle
<1>2. TypeOK'
  BY ConstantsAssumption DEF TypeOK, Stages, HoldsJob, RemotePool, WorkerPool
<1>3. ReservationsMatchJobs'
  <2>1. IsFiniteSet(waiting)
    BY FS_Subset, ConstantsAssumption DEF TypeOK
  <2>2. Cardinality(waiting') = Cardinality(waiting) + 1
    BY <1>1, <2>1, Counting
  <2>3. stage'[r] = to /\ \A g \in Requests \ {r} : stage'[g] = stage[g]
    BY DEF TypeOK
  <2>4. /\ admission' = Cardinality(At(HoldsJob)')
        /\ remote_admission' = Cardinality(At(HoldsRemoteJob)')
    BY <1>1, <2>3, HoldersMove, Holders DEF ReservationsMatchJobs
  <2>. QED  BY <2>2, <2>3, <2>4, ConstantsAssumption DEF ReservationsMatchJobs, TypeOK
<1>4. RegisteredFlightsAnswer'
  BY <1>1, ConstantsAssumption DEF RegisteredFlightsAnswer, Waiters, TypeOK, Lifecycle
<1>5. AnswersAreComputed' /\ SocketsOfWaiters'
  BY ConstantsAssumption DEF AnswersAreComputed, SocketsOfWaiters, TypeOK
<1>6. Lifecycle'
  BY <1>1, ConstantsAssumption DEF Lifecycle, TypeOK, At
<1>. QED  BY <1>2, <1>3, <1>4, <1>5, <1>6

(* A refused request, terrain or deletion. *)
LEMMA RefusalKeeps ==
  ASSUME IInv, NEW r \in Requests,
         (\E k \in Keys, remote \in BOOLEAN : RefuseRequest(r, k, remote)) \/ RefuseDeletion(r)
  PROVE  IInv'
<1>. USE DEF RefuseRequest, RefuseDeletion, IInv
<1>1. PICK k \in Keys \union {Deletion} :
        /\ phase = "running" /\ key[r] = NoKey
        /\ key' = [key EXCEPT ![r] = k]
        /\ answer' = [answer EXCEPT ![r] = "busy"]
        /\ UNCHANGED <<phase, connected, waiting, socket, token, cancelled, pending_count,
                       stage, admission, remote_admission, grid_bytes>>
  OBVIOUS
<1>2. stage[r] = "none" /\ r \notin waiting /\ r \notin cancelled
  BY <1>1 DEF Lifecycle
<1>3. TypeOK'
  BY <1>1 DEF TypeOK, Answers
<1>4. ReservationsMatchJobs'
  BY <1>1 DEF ReservationsMatchJobs, At
<1>5. RegisteredFlightsAnswer'
  BY <1>1, <1>2, ConstantsAssumption DEF RegisteredFlightsAnswer, Waiters, TypeOK, Lifecycle
<1>6. AnswersAreComputed' /\ SocketsOfWaiters'
  BY <1>1, ConstantsAssumption DEF AnswersAreComputed, SocketsOfWaiters, TypeOK
<1>7. Lifecycle'
  BY <1>1, <1>2, ConstantsAssumption DEF Lifecycle, TypeOK, At, WorkerPool
<1>. QED  BY <1>3, <1>4, <1>5, <1>6, <1>7

(* A cache deletion that takes a job. *)
LEMMA StartDeletionKeeps ==
  ASSUME IInv, NEW r \in Requests, StartDeletion(r)
  PROVE  IInv'
<1>. USE DEF StartDeletion, IInv
<1>1. stage[r] = "none" /\ r \notin waiting /\ r \notin cancelled /\ answer[r] = "none"
  BY DEF Lifecycle
<1>2. TypeOK'
  BY DEF TypeOK, Stages, HoldsJob, WorkerPool
<1>3. ReservationsMatchJobs'
  <2>1. stage'[r] = "worker_queued" /\ \A g \in Requests \ {r} : stage'[g] = stage[g]
    BY DEF TypeOK
  <2>2. /\ admission' = Cardinality(At(HoldsJob)')
        /\ remote_admission' = Cardinality(At(HoldsRemoteJob)')
    BY <1>1, <2>1, HoldersMove, Holders DEF ReservationsMatchJobs
  <2>. QED  BY <2>1, <2>2, ConstantsAssumption DEF ReservationsMatchJobs, TypeOK
<1>4. RegisteredFlightsAnswer'
  BY <1>1, ConstantsAssumption DEF RegisteredFlightsAnswer, Waiters, TypeOK, Lifecycle
<1>5. AnswersAreComputed' /\ SocketsOfWaiters'
  BY ConstantsAssumption DEF AnswersAreComputed, SocketsOfWaiters, TypeOK
<1>6. Lifecycle'
  BY <1>1, ConstantsAssumption DEF Lifecycle, TypeOK, At, WorkerPool
<1>. QED  BY <1>2, <1>3, <1>4, <1>5, <1>6

(* A pool thread moves a job between stages, or to its posted result, and  *)
(* touches nothing else but the counters: what to check is that the move   *)
(* enters neither a joined pool nor a stage meant for cancelled flights.   *)
LEMMA PoolMoveKeeps ==
  ASSUME IInv, NEW f \in Requests, NEW to \in HoldsJob \union Posted,
         stage' = [stage EXCEPT ![f] = to],
         UNCHANGED <<phase, connected, registry, grid_bytes>>,
         admission' \in Nat, remote_admission' \in Nat,
         stage[f] \in HoldsJob,
         to \in RemotePool => stage[f] \in RemotePool,
         to \in {"skipping", "unprocessed"} => f \in cancelled,
         key[f] = Deletion => to = "processing"
  PROVE  /\ TypeOK'
         /\ RegisteredFlightsAnswer'
         /\ AnswersAreComputed'
         /\ SocketsOfWaiters'
         /\ Lifecycle'
<1>. USE DEF IInv, registry
<1>1. TypeOK'
  BY DEF TypeOK, Stages
<1>2. to \notin {"none", "done"} /\ stage[f] \notin {"none", "done"} /\ key[f] # NoKey
  BY DEF Lifecycle, HoldsJob, RemotePool, WorkerPool, Posted
<1>3. \A g \in Requests : stage'[g] = IF g = f THEN to ELSE stage[g]
  BY DEF TypeOK
<1>4. RegisteredFlightsAnswer'
  BY <1>2, <1>3, ConstantsAssumption DEF RegisteredFlightsAnswer, Waiters, TypeOK
<1>5. AnswersAreComputed' /\ SocketsOfWaiters'
  BY DEF AnswersAreComputed, SocketsOfWaiters
<1>6. Lifecycle'
  <2>1. /\ (phase \in {"joining_workers", "stopped"} => At(RemotePool) = {})'
        /\ (phase = "stopped" => At(WorkerPool) = {} /\ waiting = {})'
    BY <1>3 DEF Lifecycle, At, HoldsJob
  <2>2. ASSUME NEW r \in Requests
        PROVE  /\ (key[r] = NoKey =>
                    /\ stage[r] = "none" /\ answer[r] = "none" /\ socket[r] = Nobody
                    /\ r \notin waiting /\ r \notin cancelled)'
               /\ (r \in waiting => key[r] \in Keys /\ answer[r] = "none")'
               /\ (stage[r] \in {"skipping", "unprocessed"} => r \in cancelled)'
    BY <1>2, <1>3 DEF Lifecycle
  <2>3. ASSUME NEW r \in Requests
        PROVE  /\ (key[r] = Deletion =>
                    /\ stage[r] \in {"none", "worker_queued", "processing", "done"}
                    /\ r \notin cancelled
                    /\ stage[r] \in WorkerPool => answer[r] = "none")'
               /\ (key[r] # NoKey /\ answer[r] = "none" =>
                    r \in waiting \/ (key[r] = Deletion /\ stage[r] \in WorkerPool))'
    BY <1>2, <1>3 DEF Lifecycle, WorkerPool, HoldsJob, RemotePool
  <2>. QED  BY <2>1, <2>2, <2>3 DEF Lifecycle
<1>. QED  BY <1>1, <1>4, <1>5, <1>6

(* A remote worker takes a flight. *)
LEMMA StartAcquisitionKeeps ==
  ASSUME IInv, NEW f \in Requests, StartAcquisition(f)
  PROVE  IInv'
<1>. USE DEF IInv, StartAcquisition, Go, OnPool
<1>1. stage'[f] = "acquiring" /\ \A g \in Requests \ {f} : stage'[g] = stage[g]
  BY DEF TypeOK
<1>2. ReservationsMatchJobs'
  BY <1>1, HoldersMove, Holders DEF ReservationsMatchJobs, registry
<1>3. key[f] # Deletion
  BY DEF Lifecycle
<1>4. /\ "acquiring" \in HoldsJob \union Posted /\ "acquiring" \notin {"skipping", "unprocessed"}
      /\ stage[f] \in HoldsJob /\ stage[f] \in RemotePool
  BY Holders DEF RemotePool
<1>5. admission' \in Nat /\ remote_admission' \in Nat
  BY DEF TypeOK
<1>. QED  BY <1>2, <1>3, <1>4, <1>5, PoolMoveKeeps

(* An acquisition returns: the remote slot is given back. *)
LEMMA FinishAcquisitionKeeps ==
  ASSUME IInv, NEW f \in Requests, FinishAcquisition(f)
  PROVE  IInv'
<1>. USE DEF IInv, FinishAcquisition, Go, OnPool
<1>1. PICK to \in {"acquired", "unacquired"} : stage' = [stage EXCEPT ![f] = to]
  OBVIOUS
<1>2. stage'[f] = to /\ \A g \in Requests \ {f} : stage'[g] = stage[g]
  BY <1>1 DEF TypeOK
<1>3. /\ admission' = Cardinality(At(HoldsJob)')
      /\ remote_admission' = Cardinality(At(HoldsRemoteJob)')
  BY <1>2, HoldersMove, Holders DEF ReservationsMatchJobs, TypeOK
<1>4. admission' \in Nat /\ remote_admission' \in Nat
  BY <1>2, <1>3, HoldersMove
<1>5. ReservationsMatchJobs'
  BY <1>3, ConstantsAssumption DEF ReservationsMatchJobs, registry, TypeOK
<1>6. key[f] # Deletion
  BY DEF Lifecycle
<1>7. /\ to \in HoldsJob \union Posted /\ to \notin {"skipping", "unprocessed"}
      /\ stage[f] \in HoldsJob /\ stage[f] \in RemotePool
  BY Holders DEF RemotePool
<1>. QED  BY <1>1, <1>4, <1>5, <1>6, <1>7, PoolMoveKeeps

(* The remote task enqueues the CPU stage and keeps the job's admission. *)
LEMMA HandOffKeeps ==
  ASSUME IInv, NEW f \in Requests, HandOff(f)
  PROVE  IInv'
<1>. USE DEF IInv, HandOff, Go, OnPool
<1>1. stage'[f] = "worker_queued" /\ \A g \in Requests \ {f} : stage'[g] = stage[g]
  BY DEF TypeOK
<1>2. ReservationsMatchJobs'
  BY <1>1, HoldersMove, Holders DEF ReservationsMatchJobs, registry
<1>3. key[f] # Deletion
  BY DEF Lifecycle
<1>4. /\ "worker_queued" \in HoldsJob \union Posted /\ stage[f] \in HoldsJob
      /\ "worker_queued" \notin {"skipping", "unprocessed"} /\ "worker_queued" \notin RemotePool
  BY Holders DEF RemotePool
<1>5. admission' \in Nat /\ remote_admission' \in Nat
  BY DEF TypeOK
<1>. QED  BY <1>2, <1>3, <1>4, <1>5, PoolMoveKeeps

(* The remote task ends its flight: no sources, or nobody waits any more. *)
LEMMA EndWithoutSourcesKeeps ==
  ASSUME IInv, NEW f \in Requests, EndWithoutSources(f)
  PROVE  IInv'
<1>. USE DEF IInv, EndWithoutSources, Go, OnPool
<1>1. stage'[f] = "error" /\ \A g \in Requests \ {f} : stage'[g] = stage[g]
  BY DEF TypeOK
<1>2. /\ admission' = Cardinality(At(HoldsJob)')
      /\ remote_admission' = Cardinality(At(HoldsRemoteJob)')
  BY <1>1, HoldersMove, Holders DEF ReservationsMatchJobs, TypeOK
<1>3. admission' \in Nat /\ remote_admission' \in Nat
  BY <1>1, <1>2, HoldersMove
<1>4. ReservationsMatchJobs'
  BY <1>2, ConstantsAssumption DEF ReservationsMatchJobs, registry, TypeOK
<1>5. key[f] # Deletion
  BY DEF Lifecycle
<1>6. /\ "error" \in HoldsJob \union Posted /\ stage[f] \in HoldsJob
      /\ "error" \notin {"skipping", "unprocessed"} /\ "error" \notin RemotePool
  BY Holders DEF RemotePool, Posted
<1>. QED  BY <1>3, <1>4, <1>5, <1>6, PoolMoveKeeps

(* A worker takes a task. *)
LEMMA StartProcessingKeeps ==
  ASSUME IInv, NEW f \in Requests, StartProcessing(f)
  PROVE  IInv'
<1>. USE DEF IInv, StartProcessing, Go, OnPool
<1>. DEFINE to == IF f \in cancelled THEN "skipping" ELSE "processing"
<1>1. stage'[f] = to /\ \A g \in Requests \ {f} : stage'[g] = stage[g]
  BY DEF TypeOK
<1>2. ReservationsMatchJobs'
  BY <1>1, HoldersMove, Holders DEF ReservationsMatchJobs, registry
<1>3. key[f] = Deletion => to = "processing"
  BY DEF Lifecycle
<1>4. /\ to \in HoldsJob \union Posted /\ stage[f] \in HoldsJob
      /\ to \in {"skipping", "unprocessed"} => f \in cancelled
      /\ to \notin RemotePool
  BY Holders DEF RemotePool
<1>5. admission' \in Nat /\ remote_admission' \in Nat
  BY DEF TypeOK
<1>. QED  BY <1>2, <1>3, <1>4, <1>5, PoolMoveKeeps

(* A worker gives back the admission and posts its result. *)
LEMMA FinishProcessingKeeps ==
  ASSUME IInv, NEW f \in Requests, FinishProcessing(f)
  PROVE  IInv'
<1>. USE DEF IInv, FinishProcessing, Go, OnPool
<1>1. PICK to \in Posted : /\ stage' = [stage EXCEPT ![f] = to]
                           /\ to = "unprocessed" => stage[f] = "skipping"
  BY DEF Posted
<1>2. stage'[f] = to /\ \A g \in Requests \ {f} : stage'[g] = stage[g]
  BY <1>1 DEF TypeOK
<1>3. /\ admission' = Cardinality(At(HoldsJob)')
      /\ remote_admission' = Cardinality(At(HoldsRemoteJob)')
  BY <1>2, HoldersMove, Holders DEF ReservationsMatchJobs, TypeOK, Posted
<1>4. admission' \in Nat /\ remote_admission' \in Nat
  BY <1>2, <1>3, HoldersMove
<1>5. ReservationsMatchJobs'
  BY <1>3, ConstantsAssumption DEF ReservationsMatchJobs, registry, TypeOK
<1>6. /\ to \in {"skipping", "unprocessed"} => f \in cancelled
      /\ to \in HoldsJob \union Posted /\ stage[f] \in HoldsJob /\ to \notin RemotePool
  BY <1>1, Holders DEF RemotePool, Posted, Lifecycle
<1>7. key[f] # Deletion
  BY ConstantsAssumption
<1>. QED  BY <1>1, <1>4, <1>5, <1>6, <1>7, PoolMoveKeeps

(* A worker finishes a cache deletion, which answers its request. *)
LEMMA FinishDeletionKeeps ==
  ASSUME IInv, NEW r \in Requests, FinishDeletion(r)
  PROVE  IInv'
<1>. USE DEF IInv, FinishDeletion, Go
<1>1. stage'[r] = "done" /\ \A g \in Requests \ {r} : stage'[g] = stage[g]
  BY DEF TypeOK
<1>2. /\ admission' = Cardinality(At(HoldsJob)')
      /\ remote_admission' = Cardinality(At(HoldsRemoteJob)')
  BY <1>1, HoldersMove, Holders DEF ReservationsMatchJobs, TypeOK
<1>3. admission' \in Nat
  BY <1>1, <1>2, HoldersMove
<1>4. TypeOK'
  BY <1>3 DEF TypeOK, Stages, Answers, Posted
<1>5. ReservationsMatchJobs'
  BY <1>2, ConstantsAssumption DEF ReservationsMatchJobs, TypeOK
<1>6. RegisteredFlightsAnswer'
  BY <1>1, ConstantsAssumption DEF RegisteredFlightsAnswer, Waiters, TypeOK
<1>7. AnswersAreComputed' /\ SocketsOfWaiters'
  BY DEF AnswersAreComputed, SocketsOfWaiters, TypeOK
<1>8. r \notin waiting
  BY ConstantsAssumption DEF Lifecycle
<1>9. Lifecycle'
  BY <1>1, <1>8, ConstantsAssumption DEF Lifecycle, TypeOK, At, RemotePool, WorkerPool
<1>. QED  BY <1>4, <1>5, <1>6, <1>7, <1>9

(* Settling waiters takes as many off the count as leave the lists. *)
LEMMA SettleCounts ==
  ASSUME TypeOK, pending_count = Cardinality(waiting), pending_count <= MaxPending,
         NEW S \in SUBSET waiting, NEW a, Settle(S, a)
  PROVE  /\ pending_count' = Cardinality(waiting')
         /\ pending_count' \in Nat
         /\ pending_count' <= MaxPending
<1>1. IsFiniteSet(waiting) /\ IsFiniteSet(S)
  BY FS_Subset, ConstantsAssumption DEF TypeOK
<1>2. /\ Cardinality(waiting') = Cardinality(waiting) - Cardinality(waiting \cap S)
      /\ IsFiniteSet(waiting')
  BY <1>1, FS_Difference DEF Settle
<1>3. waiting \cap S = S
  OBVIOUS
<1>4. Cardinality(waiting') \in Nat /\ Cardinality(S) \in Nat /\ Cardinality(waiting) \in Nat
  BY <1>1, <1>2, FS_CardinalityType
<1>5. Cardinality(waiting') = Cardinality(waiting) - Cardinality(S)
  BY <1>2, <1>3
<1>6. pending_count' = pending_count - Cardinality(S)
  BY DEF Settle
<1>. QED  BY <1>4, <1>5, <1>6, ConstantsAssumption

(* A client disconnects: its waiters are answered, flights without another *)
(* waiter are unregistered and cancelled.                                  *)
LEMMA DisconnectKeeps ==
  ASSUME IInv, NEW s \in Sockets, Disconnect(s)
  PROVE  IInv'
<1>. DEFINE gone == {r \in waiting : socket[r] = s}
<1>. USE DEF IInv, Disconnect
<1>1. Settle(gone, "disconnected")
  OBVIOUS
<1>2. /\ waiting' = waiting \ gone /\ key' = key
      /\ \A r \in Requests : /\ socket'[r] = IF r \in gone THEN Nobody ELSE socket[r]
                             /\ answer'[r] = IF r \in gone THEN "disconnected" ELSE answer[r]
      /\ socket' \in [Requests -> Sockets \union {Nobody}]
      /\ answer' \in [Requests -> Answers]
  BY <1>1 DEF Settle, TypeOK, Answers
<1>3. /\ \A k \in Orphans(gone) : k \in Keys /\ token[k] \in Requests /\ key[token[k]] = k
      /\ \A k \in Keys : token'[k] = IF k \in Orphans(gone) THEN Nobody ELSE token[k]
      /\ token' \in [Keys -> Requests \union {Nobody}]
  BY DEF Orphans, RegisteredFlightsAnswer, TypeOK
<1>4. cancelled' = cancelled \union {token[k] : k \in Orphans(gone)}
  OBVIOUS
<1>5. pending_count' = Cardinality(waiting') /\ pending_count' \in Nat
      /\ pending_count' <= MaxPending
  BY <1>1, SettleCounts DEF ReservationsMatchJobs
<1>6. TypeOK'
  <2>0. cancelled \subseteq Requests /\ waiting \subseteq Requests /\ connected \subseteq Sockets
    BY DEF TypeOK
  <2>1. cancelled' \subseteq Requests /\ waiting' \subseteq Requests /\ connected' \subseteq Sockets
    <3>1. \A r \in cancelled' : r \in Requests
      BY <1>3, <1>4, <2>0
    <3>. QED  BY <1>2, <2>0, <3>1
  <2>2. /\ phase' = phase /\ stage' = stage /\ admission' = admission
        /\ remote_admission' = remote_admission /\ grid_bytes' = grid_bytes
    OBVIOUS
  <2>. QED  BY <1>2, <1>3, <1>5, <2>1, <2>2 DEF TypeOK
<1>7. ReservationsMatchJobs'
  BY <1>5 DEF ReservationsMatchJobs, At
<1>8. RegisteredFlightsAnswer'
  <2>. SUFFICES ASSUME NEW k \in Keys
                PROVE  /\ token'[k] = Nobody <=> Waiters(k)' = {}
                       /\ token'[k] # Nobody =>
                            /\ key[token'[k]] = k
                            /\ token'[k] \notin cancelled'
                            /\ stage[token'[k]] \notin {"none", "done"}
    BY <1>2 DEF RegisteredFlightsAnswer
  <2>1. Waiters(k)' = Waiters(k) \ gone
    BY <1>2 DEF Waiters
  <2>2. CASE k \in Orphans(gone)
    BY <1>3, <2>1, <2>2 DEF Orphans
  <2>3. CASE k \notin Orphans(gone)
    <3>1. token'[k] = token[k] /\ (Waiters(k)' = {} <=> Waiters(k) = {})
      BY <1>3, <2>1, <2>3 DEF Orphans
    <3>2. ASSUME token[k] # Nobody
          PROVE  token[k] \notin cancelled'
      BY <1>3, <1>4, <2>3, <3>2 DEF RegisteredFlightsAnswer
    <3>. QED  BY <3>1, <3>2 DEF RegisteredFlightsAnswer
  <2>. QED  BY <2>2, <2>3
<1>9. AnswersAreComputed' /\ SocketsOfWaiters'
  BY <1>2 DEF AnswersAreComputed, SocketsOfWaiters
<1>10. Lifecycle'
  <2>1. \A r \in Requests : r \in cancelled' => r \in cancelled \/ key[r] \in Keys
    BY <1>3, <1>4
  <2>2. cancelled \subseteq cancelled'
    BY <1>4
  <2>. QED  BY <1>2, <2>1, <2>2, ConstantsAssumption DEF Lifecycle, At
<1>. QED  BY <1>6, <1>7, <1>8, <1>9, <1>10

(* The callback of a flight answers the flight's own waiters, or nobody. *)
LEMMA DeliverKeeps ==
  ASSUME IInv, NEW f \in Requests, Deliver(f)
  PROVE  IInv'
<1>. USE DEF IInv, Deliver
<1>1. key[f] \in Keys /\ stage[f] \notin HoldsJob \union {"none", "done"}
  BY Holders DEF Lifecycle, Posted, TypeOK
<1>2. stage'[f] = "done" /\ \A g \in Requests \ {f} : stage'[g] = stage[g]
  BY DEF TypeOK
<1>3. /\ admission' = Cardinality(At(HoldsJob)')
      /\ remote_admission' = Cardinality(At(HoldsRemoteJob)')
  BY <1>2, HoldersMove, Holders DEF ReservationsMatchJobs, Posted
<1>4. grid_bytes' \in Int
  BY <1>1, ConstantsAssumption DEF TypeOK
<1>5. CASE IsCurrent(f)
  <2>. DEFINE k == key[f]
              W == Waiters(k)
  <2>1. Settle(W, stage[f]) /\ token' = [token EXCEPT ![k] = Nobody] /\ token[k] = f
    BY <1>5 DEF IsCurrent
  <2>2. /\ waiting' = waiting \ W /\ key' = key
        /\ \A r \in Requests : /\ socket'[r] = IF r \in W THEN Nobody ELSE socket[r]
                               /\ answer'[r] = IF r \in W THEN stage[f] ELSE answer[r]
        /\ socket' \in [Requests -> Sockets \union {Nobody}]
        /\ answer' \in [Requests -> Answers]
    BY <2>1 DEF Settle, TypeOK, Answers
  <2>3. stage[f] # "unprocessed" /\ stage[f] # "none"
    BY <1>1, <2>1, ConstantsAssumption DEF RegisteredFlightsAnswer, Lifecycle
  <2>4. pending_count' = Cardinality(waiting') /\ pending_count' \in Nat
        /\ pending_count' <= MaxPending
    <3>1. W \in SUBSET waiting
      BY DEF Waiters
    <3>. QED  BY <2>1, <3>1, SettleCounts DEF ReservationsMatchJobs
  <2>5. TypeOK'
    BY <1>4, <2>1, <2>2, <2>4 DEF TypeOK, Stages
  <2>6. ReservationsMatchJobs'
    BY <1>3, <2>4 DEF ReservationsMatchJobs
  <2>7. RegisteredFlightsAnswer'
    <3>1. \A j \in Keys : Waiters(j)' = IF j = k THEN {} ELSE Waiters(j)
      BY <2>2 DEF Waiters
    <3>. QED  BY <1>1, <1>2, <2>1, <2>2, <3>1, ConstantsAssumption
              DEF RegisteredFlightsAnswer, TypeOK
  <2>8. AnswersAreComputed' /\ SocketsOfWaiters'
    BY <2>2, <2>3 DEF AnswersAreComputed, SocketsOfWaiters
  <2>9. \A r \in W : r \in waiting /\ key[r] \in Keys
    BY <1>1 DEF Waiters
  <2>10. Lifecycle'
    BY <1>1, <1>2, <2>2, <2>3, <2>9, ConstantsAssumption
       DEF Lifecycle, At, RemotePool, WorkerPool
  <2>. QED  BY <2>5, <2>6, <2>7, <2>8, <2>10
<1>6. CASE ~IsCurrent(f)
  <2>1. UNCHANGED <<key, waiting, socket, answer, token, pending_count>>
    BY <1>6
  <2>2. TypeOK'
    BY <1>4, <2>1 DEF TypeOK, Stages
  <2>3. ReservationsMatchJobs'
    BY <1>3, <2>1 DEF ReservationsMatchJobs
  <2>4. RegisteredFlightsAnswer'
    BY <1>1, <1>2, <1>6, <2>1, ConstantsAssumption
       DEF RegisteredFlightsAnswer, Waiters, IsCurrent, TypeOK
  <2>5. AnswersAreComputed' /\ SocketsOfWaiters'
    BY <2>1 DEF AnswersAreComputed, SocketsOfWaiters
  <2>6. Lifecycle'
    BY <1>1, <1>2, <2>1, ConstantsAssumption DEF Lifecycle, At, RemotePool, WorkerPool
  <2>. QED  BY <2>2, <2>3, <2>4, <2>5, <2>6
<1>. QED  BY <1>5, <1>6

(* The steps of ~Server. *)
LEMMA ShutdownKeeps ==
  ASSUME IInv, BeginShutdown \/ JoinRemotePool \/ JoinWorkerPool
  PROVE  IInv'
<1>. USE DEF IInv
<1>1. CASE BeginShutdown
  BY <1>1 DEF BeginShutdown, registry, TypeOK, ReservationsMatchJobs, At,
     RegisteredFlightsAnswer, Waiters, AnswersAreComputed, SocketsOfWaiters, Lifecycle
<1>2. CASE JoinRemotePool
  BY <1>2 DEF JoinRemotePool, registry, TypeOK, ReservationsMatchJobs, At,
     RegisteredFlightsAnswer, Waiters, AnswersAreComputed, SocketsOfWaiters, Lifecycle
<1>3. CASE JoinWorkerPool
  <2>. USE <1>3 DEF JoinWorkerPool, StillWaiting
  <2>1. waiting' = {} /\ pending_count' = Cardinality(waiting')
    BY FS_EmptySet
  <2>2. \A r \in Requests : answer'[r] = IF r \in waiting THEN "shutdown" ELSE answer[r]
    OBVIOUS
  <2>3. TypeOK'
    BY <2>1 DEF TypeOK, Answers
  <2>4. ReservationsMatchJobs'
    BY <2>1, ConstantsAssumption DEF ReservationsMatchJobs, At
  <2>5. RegisteredFlightsAnswer'
    BY <2>1 DEF RegisteredFlightsAnswer, Waiters
  <2>6. AnswersAreComputed' /\ SocketsOfWaiters'
    BY <2>2 DEF AnswersAreComputed, SocketsOfWaiters
  <2>7. Lifecycle'
    BY <2>1, <2>2 DEF Lifecycle, At, WorkerPool
  <2>. QED  BY <2>3, <2>4, <2>5, <2>6, <2>7
<1>. QED  BY <1>1, <1>2, <1>3

(* The invariant holds in every reachable state of every instance. *)
THEOREM Invariance == Safe => []IInv
<1>1. IInv /\ [Next]_vars => IInv'
  <2>. SUFFICES ASSUME IInv, [Next]_vars PROVE IInv'
    OBVIOUS
  <2>1. CASE Clients
    BY <2>1, JoinFlightKeeps, StartFlightKeeps, RefusalKeeps, StartDeletionKeeps,
       DisconnectKeeps DEF Clients
  <2>2. ASSUME NEW f \in Requests, Deliver(f) \/ FinishAcquisition(f) \/ PoolStep(f)
        PROVE  IInv'
    BY <2>2, DeliverKeeps, StartAcquisitionKeeps, FinishAcquisitionKeeps, HandOffKeeps,
       EndWithoutSourcesKeeps, StartProcessingKeeps, FinishProcessingKeeps,
       FinishDeletionKeeps DEF PoolStep
  <2>3. CASE BeginShutdown \/ JoinRemotePool \/ JoinWorkerPool
    BY <2>3, ShutdownKeeps
  <2>4. CASE UNCHANGED vars
    BY <2>4 DEF vars, registry, IInv, TypeOK, ReservationsMatchJobs, At,
       RegisteredFlightsAnswer, Waiters, AnswersAreComputed, SocketsOfWaiters, Lifecycle
  <2>. QED  BY <2>1, <2>2, <2>3, <2>4 DEF Next
<1>. QED  BY <1>1, InitIInv, PTL DEF Safe

(* Every variable keeps its type. *)
THEOREM TypeCorrect == Safe => []TypeOK
<1>1. IInv => TypeOK
  BY DEF IInv
<1>. QED  BY <1>1, Invariance, PTL

(* The admission counters are exact and within their limits whatever mix   *)
(* of joins, failures, disconnects, deletions and shutdown happens.        *)
THEOREM ReservationsExact == Safe => []ReservationsMatchJobs
<1>1. IInv => ReservationsMatchJobs
  BY DEF IInv
<1>. QED  BY <1>1, Invariance, PTL

(* Whoever joins a registered flight joins one that still has its answer   *)
(* ahead of it.                                                            *)
THEOREM JoinedFlightsAnswer == Safe => []RegisteredFlightsAnswer
<1>1. IInv => RegisteredFlightsAnswer
  BY DEF IInv
<1>. QED  BY <1>1, Invariance, PTL

(* No client is answered by a flight that skipped its work. *)
THEOREM OnlyComputedAnswers == Safe => []AnswersAreComputed
<1>1. IInv => AnswersAreComputed
  BY DEF IInv
<1>. QED  BY <1>1, Invariance, PTL

(* No waiter of a closed connection is left. *)
THEOREM SocketsExact == Safe => []SocketsOfWaiters
<1>1. IInv => SocketsOfWaiters
  BY DEF IInv
<1>. QED  BY <1>1, Invariance, PTL

(* When ~Server returns, both pools are idle and everybody was answered. *)
THEOREM StopsQuiet == Safe => []StoppedIsQuiet
<1>1. IInv => StoppedIsQuiet
  <2>. SUFFICES ASSUME IInv, phase = "stopped" PROVE StoppedIsQuiet
    BY DEF StoppedIsQuiet
  <2>1. At(HoldsJob) = {} /\ At(HoldsRemoteJob) = {}
    BY DEF IInv, Lifecycle, At, HoldsJob, HoldsRemoteJob, RemotePool
  <2>2. admission = 0 /\ remote_admission = 0
    BY <2>1, StageCount DEF IInv, ReservationsMatchJobs
  <2>3. ASSUME NEW r \in Requests, key[r] # NoKey
        PROVE  answer[r] # "none"
    BY <2>1, <2>3 DEF IInv, Lifecycle, At, HoldsJob
  <2>. QED  BY <2>1, <2>2, <2>3 DEF StoppedIsQuiet
<1>. QED  BY <1>1, Invariance, PTL

-----------------------------------------------------------------------------
(* The grid budget.  The reserved bytes are a set, so that the budget is   *)
(* its cardinality, and an admission or a callback changes it by the bytes *)
(* of one flight, which are in it or not in it all at once.                *)

BytesKept == IsFiniteSet(ReservedBytes) /\ GridBytesMatchFlights

(* The bytes of one flight are as many as it costs. *)
LEMMA FlightBytes ==
  ASSUME NEW f, NEW k \in Keys
  PROVE  IsFiniteSet({f} \X (1 .. Cost[k])) /\ Cardinality({f} \X (1 .. Cost[k])) = Cost[k]
<1>. DEFINE n == Cost[k]
            B == {f} \X (1 .. n)
            line == [i \in 1 .. n |-> <<f, i>>]
<1>1. n \in Nat
  BY ConstantsAssumption
<1>2. IsFiniteSet(1 .. n) /\ Cardinality(1 .. n) = n
  <2>. HIDE DEF n
  <2>. QED  BY <1>1, FS_Interval
<1>3. line \in Bijection(1 .. n, B)
  <2>. HIDE DEF n
  <2>. QED  BY DEF Bijection, Injection, Surjection, IsInjective
<1>4. ExistsBijection(1 .. n, B)
  BY <1>3 DEF ExistsBijection
<1>5. IsFiniteSet(B) /\ Cardinality(B) = Cardinality(1 .. n)
  <2>. HIDE DEF n, B
  <2>. QED  BY <1>2, <1>4, FS_Bijection
<1>. QED  BY <1>2, <1>5

(* A step that neither lands nor starts a flight keeps the budget. *)
LEMMA SameBytes ==
  ASSUME BytesKept, grid_bytes' = grid_bytes, Airborne' = Airborne,
         \A f \in Airborne : key'[f] = key[f]
  PROVE  BytesKept'
<1>1. ReservedBytes' = ReservedBytes
  BY DEF ReservedBytes
<1>. QED  BY <1>1 DEF BytesKept, GridBytesMatchFlights

(* A flight takes off with its bytes, if they fit. *)
LEMMA TakeOffBytes ==
  ASSUME IInv, BytesKept, NEW r \in Requests, NEW k \in Keys,
         NEW s \in connected \union {Nobody}, NEW remote \in BOOLEAN,
         StartFlight(r, k, s, remote)
  PROVE  BytesKept'
<1>. DEFINE B == {r} \X (1 .. Cost[k])
<1>1. r \notin Airborne /\ key'[r] = k /\ \A f \in Requests \ {r} : key'[f] = key[f]
  BY ConstantsAssumption DEF StartFlight, Attach, Airborne, IInv, TypeOK
<1>2. stage'[r] \notin {"none", "done"} /\ \A f \in Requests \ {r} : stage'[f] = stage[f]
  BY DEF StartFlight, IInv, TypeOK
<1>3. Airborne' = Airborne \union {r}
  BY <1>1, <1>2 DEF Airborne
<1>4. ReservedBytes' = ReservedBytes \union B
  <2>1. \A f \in Airborne : key'[f] = key[f]
    BY <1>1 DEF Airborne
  <2>. QED  BY <1>1, <1>3, <2>1 DEF ReservedBytes
<1>5. ReservedBytes \cap B = {}
  BY <1>1 DEF ReservedBytes
<1>6. IsFiniteSet(B) /\ Cardinality(B) = Cost[k]
  BY FlightBytes
<1>7. grid_bytes' = grid_bytes + Cost[k] /\ grid_bytes + Cost[k] <= MaxGridBytes
  BY DEF StartFlight, Reserve, Admits
<1>8. IsFiniteSet(ReservedBytes)
      /\ grid_bytes = Cardinality(ReservedBytes) /\ grid_bytes \in Int
  BY DEF BytesKept, GridBytesMatchFlights, IInv, TypeOK
<1>9. IsFiniteSet(ReservedBytes')
      /\ Cardinality(ReservedBytes') = Cardinality(ReservedBytes) + Cardinality(B) - 0
  <2>. HIDE DEF B
  <2>1. IsFiniteSet(ReservedBytes \union B)
        /\ Cardinality(ReservedBytes \union B)
             = Cardinality(ReservedBytes) + Cardinality(B) - Cardinality(ReservedBytes \cap B)
    BY <1>6, <1>8, FS_Union
  <2>2. Cardinality(ReservedBytes \cap B) = 0
    BY <1>5, FS_EmptySet
  <2>3. IsFiniteSet(ReservedBytes')
    BY <1>4, <2>1
  <2>4. Cardinality(ReservedBytes') = Cardinality(ReservedBytes \union B)
    BY <1>4
  <2>. QED  BY <2>1, <2>2, <2>3, <2>4
<1>. QED
  <2>. HIDE DEF B
  <2>1. Cost[k] \in Int
    BY ConstantsAssumption
  <2>. QED  BY <1>6, <1>7, <1>8, <1>9, <2>1 DEF BytesKept, GridBytesMatchFlights

(* A callback gives back the bytes of its flight, registered or not. *)
LEMMA LandingBytes ==
  ASSUME IInv, BytesKept, NEW f \in Requests, Deliver(f)
  PROVE  BytesKept'
<1>. DEFINE k == key[f]
            B == {f} \X (1 .. Cost[k])
<1>1. k \in Keys
  BY DEF IInv, Deliver, Lifecycle, Posted, TypeOK
<1>2. key' = key
  BY DEF Deliver, Settle
<1>3. stage'[f] = "done" /\ \A g \in Requests \ {f} : stage'[g] = stage[g]
  BY DEF Deliver, IInv, TypeOK
<1>4. f \in Airborne
  BY <1>1 DEF Deliver, Airborne, Posted
<1>5. Airborne' = Airborne \ {f}
  BY <1>2, <1>3 DEF Airborne
<1>6. ReservedBytes = ReservedBytes' \union B /\ ReservedBytes' \cap B = {}
  BY <1>2, <1>4, <1>5 DEF ReservedBytes
<1>7. IsFiniteSet(B) /\ Cardinality(B) = Cost[k] /\ Cost[k] \in Nat
  BY <1>1, FlightBytes, ConstantsAssumption
<1>8. IsFiniteSet(ReservedBytes)
      /\ grid_bytes = Cardinality(ReservedBytes) /\ grid_bytes <= MaxGridBytes
      /\ grid_bytes \in Int
  BY DEF BytesKept, GridBytesMatchFlights, IInv, TypeOK
<1>9. IsFiniteSet(ReservedBytes') /\ Cardinality(ReservedBytes') \in Nat
  <2>1. ReservedBytes' \in SUBSET ReservedBytes
    BY <1>6
  <2>. QED  BY <1>8, <2>1, FS_Subset, FS_CardinalityType
<1>10. Cardinality(ReservedBytes) = Cardinality(ReservedBytes') + Cardinality(B) - 0
  <2>. HIDE DEF B
  <2>. QED  BY <1>6, <1>7, <1>9, FS_Union, FS_EmptySet
<1>11. grid_bytes' = grid_bytes - Cost[k]
  BY DEF Deliver
<1>. QED
  <2>. HIDE DEF B, k
  <2>. QED  BY <1>7, <1>8, <1>9, <1>10, <1>11, ConstantsAssumption
            DEF BytesKept, GridBytesMatchFlights

(* Every other step of a client or a pool keeps every flight in the air.   *)
LEMMA OtherBytes ==
  ASSUME IInv, BytesKept, NEW r \in Requests
  PROVE  /\ \A k \in Keys, s \in connected \union {Nobody} : JoinFlight(r, k, s) => BytesKept'
         /\ \A k \in Keys, remote \in BOOLEAN : RefuseRequest(r, k, remote) => BytesKept'
         /\ StartDeletion(r) \/ RefuseDeletion(r) => BytesKept'
         /\ FinishAcquisition(r) \/ PoolStep(r) => BytesKept'
<1>. SUFFICES
       /\ \A k \in Keys, s \in connected \union {Nobody} : JoinFlight(r, k, s) =>
            /\ grid_bytes' = grid_bytes /\ Airborne' = Airborne
            /\ \A f \in Airborne : key'[f] = key[f]
       /\ \A k \in Keys, remote \in BOOLEAN : RefuseRequest(r, k, remote) =>
            /\ grid_bytes' = grid_bytes /\ Airborne' = Airborne
            /\ \A f \in Airborne : key'[f] = key[f]
       /\ StartDeletion(r) \/ RefuseDeletion(r) =>
            /\ grid_bytes' = grid_bytes /\ Airborne' = Airborne
            /\ \A f \in Airborne : key'[f] = key[f]
       /\ FinishAcquisition(r) \/ PoolStep(r) =>
            /\ grid_bytes' = grid_bytes /\ Airborne' = Airborne
            /\ \A f \in Airborne : key'[f] = key[f]
  BY SameBytes
<1>1. key[r] = NoKey => r \notin Airborne /\ stage[r] = "none"
  BY ConstantsAssumption DEF Airborne, IInv, Lifecycle
<1>2. TypeOK
  BY DEF IInv
<1>3. ASSUME NEW k \in Keys, NEW s \in connected \union {Nobody}, JoinFlight(r, k, s)
      PROVE  /\ grid_bytes' = grid_bytes /\ Airborne' = Airborne
             /\ \A f \in Airborne : key'[f] = key[f]
  BY <1>1, <1>2, <1>3 DEF JoinFlight, Attach, Airborne, TypeOK
<1>4. ASSUME NEW k \in Keys, NEW remote \in BOOLEAN, RefuseRequest(r, k, remote)
      PROVE  /\ grid_bytes' = grid_bytes /\ Airborne' = Airborne
             /\ \A f \in Airborne : key'[f] = key[f]
  BY <1>1, <1>2, <1>4 DEF RefuseRequest, Airborne, TypeOK
<1>5. ASSUME StartDeletion(r) \/ RefuseDeletion(r)
      PROVE  /\ grid_bytes' = grid_bytes /\ Airborne' = Airborne
             /\ \A f \in Airborne : key'[f] = key[f]
  BY <1>1, <1>2, <1>5, ConstantsAssumption DEF StartDeletion, RefuseDeletion, Airborne, TypeOK
<1>6. ASSUME FinishAcquisition(r) \/ PoolStep(r)
      PROVE  /\ grid_bytes' = grid_bytes /\ Airborne' = Airborne
             /\ \A f \in Airborne : key'[f] = key[f]
  <2>1. CASE FinishDeletion(r)
    BY <1>2, <2>1, ConstantsAssumption DEF FinishDeletion, Go, Airborne, TypeOK
  <2>2. CASE ~FinishDeletion(r)
    <3>1. key' = key /\ grid_bytes' = grid_bytes
      BY <1>6, <2>2 DEF FinishAcquisition, PoolStep, StartAcquisition, HandOff,
         EndWithoutSources, StartProcessing, FinishProcessing, OnPool, registry
    <3>2. \A f \in Requests \ {r} : stage'[f] = stage[f]
      BY <1>2, <1>6, <2>2 DEF FinishAcquisition, PoolStep, StartAcquisition, HandOff,
         EndWithoutSources, StartProcessing, FinishProcessing, Go, TypeOK
    <3>3. stage[r] \notin {"none", "done"} /\ stage'[r] \notin {"none", "done"}
      BY <1>2, <1>6, <2>2 DEF FinishAcquisition, PoolStep, StartAcquisition, HandOff,
         EndWithoutSources, StartProcessing, FinishProcessing, Go, TypeOK
    <3>. QED  BY <3>1, <3>2, <3>3 DEF Airborne
  <2>. QED  BY <2>1, <2>2
<1>. QED  BY <1>3, <1>4, <1>5, <1>6

(* The grid budget is exact and never exceeded: neither an orphaned flight *)
(* nor a stale callback loses or returns bytes twice.                      *)
THEOREM GridBytesExact == Safe => []GridBytesMatchFlights
<1>1. Init => BytesKept
  <2>. SUFFICES ASSUME Init PROVE BytesKept
    OBVIOUS
  <2>1. ReservedBytes = {}
    BY DEF Init, ReservedBytes, Airborne
  <2>. QED  BY <2>1, FS_EmptySet, ConstantsAssumption DEF Init, BytesKept, GridBytesMatchFlights
<1>2. IInv /\ BytesKept /\ [Next]_vars => BytesKept'
  <2>. SUFFICES ASSUME IInv, BytesKept, [Next]_vars PROVE BytesKept'
    OBVIOUS
  <2>1. CASE \E s \in Sockets : Disconnect(s)
    <3>1. grid_bytes' = grid_bytes /\ key' = key /\ stage' = stage
      BY <2>1 DEF Disconnect, Settle
    <3>. QED  BY <3>1, SameBytes DEF Airborne
  <2>2. CASE BeginShutdown \/ JoinRemotePool \/ JoinWorkerPool \/ UNCHANGED vars
    <3>1. grid_bytes' = grid_bytes /\ key' = key /\ stage' = stage
      BY <2>2 DEF BeginShutdown, JoinRemotePool, JoinWorkerPool, vars, registry
    <3>. QED  BY <3>1, SameBytes DEF Airborne
  <2>3. CASE Clients /\ ~\E s \in Sockets : Disconnect(s)
    BY <2>3, TakeOffBytes, OtherBytes DEF Clients
  <2>4. CASE \E f \in Requests : Deliver(f) \/ FinishAcquisition(f) \/ PoolStep(f)
    BY <2>4, LandingBytes, OtherBytes
  <2>. QED  BY <2>1, <2>2, <2>3, <2>4 DEF Next
<1>3. BytesKept => GridBytesMatchFlights
  BY DEF BytesKept
<1>. QED  BY <1>1, <1>2, <1>3, Invariance, PTL DEF Safe

-----------------------------------------------------------------------------
(* TerrainFlight implements SingleFlight. *)

Out == waiting \union {r \in Requests : key[r] = Deletion /\ stage[r] \in WorkerPool}

(* The abstract set of outstanding terrain requests is the set of waiters. *)
LEMMA OutstandingTerrain ==
  ASSUME IInv
  PROVE  /\ Out \subseteq Requests
         /\ {q \in Out : key[q] # Deletion} = waiting
         /\ \A k \in Keys : {q \in Out : key[q] = k} = Waiters(k)
BY ConstantsAssumption DEF Out, IInv, TypeOK, Lifecycle, Waiters

(* SingleFlight counts with the same Cardinality. *)
LEMMA SameCardinality ==
  ASSUME NEW S
  PROVE  Service!Cardinality(S) = Cardinality(S)
BY DEF Cardinality, Service!Cardinality

(* A job that moves between stages, without a deletion ending, is no step  *)
(* of the abstract specification.                                          *)
LEMMA PoolStepsStutter ==
  ASSUME IInv, NEW f \in Requests,
         \/ StartAcquisition(f) \/ FinishAcquisition(f) \/ HandOff(f)
         \/ EndWithoutSources(f) \/ StartProcessing(f) \/ FinishProcessing(f)
  PROVE  UNCHANGED <<key, Out, answer>>
<1>. USE DEF OnPool, registry
<1>1. UNCHANGED <<key, waiting, answer>>
  BY DEF StartAcquisition, FinishAcquisition, HandOff, EndWithoutSources,
     StartProcessing, FinishProcessing
<1>2. ASSUME NEW r \in Requests, key[r] = Deletion
      PROVE  stage'[r] \in WorkerPool <=> stage[r] \in WorkerPool
  BY <1>2, ConstantsAssumption
     DEF StartAcquisition, FinishAcquisition, HandOff, EndWithoutSources, StartProcessing,
         FinishProcessing, Go, IInv, TypeOK, Lifecycle, WorkerPool
<1>. QED  BY <1>1, <1>2 DEF Out

(* Every step maps to a step of the abstract specification or to none. *)
LEMMA StepImplements ==
  ASSUME IInv, [Next]_vars
  PROVE  [Service!Next]_(Service!vars)
<1>. USE DEF Service!Next, Service!vars, Out
<1>1. ASSUME NEW r \in Requests, NEW k \in Keys, NEW s \in connected \union {Nobody},
             JoinFlight(r, k, s) \/ \E remote \in BOOLEAN : StartFlight(r, k, s, remote)
      PROVE  Service!Accept(r, k)
  <2>1. /\ key[r] = NoKey /\ pending_count < MaxPending /\ Attach(r, k, s)
        /\ \A q \in Requests \ {r} : stage'[q] = stage[q]
    BY <1>1 DEF JoinFlight, StartFlight, IInv, TypeOK
  <2>2. Cardinality({q \in Out : key[q] # Deletion}) < MaxPending
    BY <2>1, OutstandingTerrain DEF IInv, ReservationsMatchJobs
  <2>3. Out' = Out \union {r}
    <3>1. \A q \in Requests : key'[q] = IF q = r THEN k ELSE key[q]
      BY <2>1 DEF Attach, IInv, TypeOK
    <3>. QED  BY <2>1, <3>1, ConstantsAssumption DEF Attach
  <2>4. Service!Cardinality({q \in Out : key[q] # Deletion}) < MaxPending
    BY <2>2, SameCardinality
  <2>. QED  BY <2>1, <2>3, <2>4 DEF Service!Accept, Attach
<1>2. ASSUME NEW r \in Requests, NEW k \in Keys, NEW remote \in BOOLEAN,
             RefuseRequest(r, k, remote)
      PROVE  Service!Refuse(r, k)
  <2>1. Out' = Out
    BY <1>2, ConstantsAssumption DEF RefuseRequest, IInv, TypeOK, Lifecycle, WorkerPool
  <2>. QED  BY <1>2, <2>1 DEF RefuseRequest, Service!Refuse
<1>3. ASSUME NEW r \in Requests, StartDeletion(r)
      PROVE  Service!Accept(r, Deletion)
  <2>1. /\ \A q \in Requests : /\ key'[q] = IF q = r THEN Deletion ELSE key[q]
                               /\ stage'[q] = IF q = r THEN "worker_queued" ELSE stage[q]
        /\ waiting' = waiting
    BY <1>3 DEF StartDeletion, IInv, TypeOK
  <2>2. Out' = Out \union {r}
    BY <2>1 DEF WorkerPool
  <2>. QED  BY <1>3, <2>2, ConstantsAssumption DEF StartDeletion, Service!Accept
<1>4. ASSUME NEW r \in Requests, RefuseDeletion(r)
      PROVE  Service!Refuse(r, Deletion)
  <2>1. Out' = Out
    <3>1. /\ \A q \in Requests : key'[q] = IF q = r THEN Deletion ELSE key[q]
          /\ waiting' = waiting /\ stage' = stage /\ stage[r] = "none"
      BY <1>4 DEF RefuseDeletion, IInv, TypeOK, Lifecycle
    <3>. QED  BY <1>4, <3>1, ConstantsAssumption DEF RefuseDeletion, WorkerPool
  <2>. QED  BY <1>4, <2>1 DEF RefuseDeletion, Service!Refuse
<1>5. ASSUME NEW s \in Sockets, Disconnect(s)
      PROVE  (\E S \in SUBSET Out : Service!Leave(S)) \/ UNCHANGED <<key, Out, answer>>
  <2>. DEFINE gone == {r \in waiting : socket[r] = s}
  <2>1. Settle(gone, "disconnected") /\ stage' = stage
    BY <1>5 DEF Disconnect
  <2>2. gone \subseteq Out /\ \A r \in gone : r \in Requests /\ key[r] # Deletion
    BY ConstantsAssumption DEF IInv, Lifecycle, TypeOK
  <2>3. Out' = Out \ gone
    BY <2>1, <2>2 DEF Settle
  <2>4. CASE gone = {}
    <3>1. answer' = answer
      BY <2>1, <2>4 DEF Settle, IInv, TypeOK
    <3>. QED  BY <2>1, <2>3, <2>4, <3>1 DEF Settle
  <2>5. CASE gone # {}
    <3>1. PICK S : S = gone
      OBVIOUS
    <3>2. S \in SUBSET Out /\ Service!Leave(S)
      BY <3>1, <2>1, <2>2, <2>3, <2>5 DEF Settle, Service!Leave, Service!TellAll
    <3>. HIDE DEF Out
    <3>. QED  BY <3>2
  <2>. QED  BY <2>4, <2>5
<1>6. ASSUME NEW f \in Requests, Deliver(f)
      PROVE  \/ \E k \in Keys, outcome \in Service!Outcomes : Service!Serve(k, outcome)
             \/ UNCHANGED <<key, Out, answer>>
  <2>1. /\ key[f] \in Keys /\ stage[f] \in Posted
        /\ \A q \in Requests : stage'[q] = IF q = f THEN "done" ELSE stage[q]
    BY <1>6 DEF Deliver, IInv, TypeOK, Lifecycle, Posted
  <2>2. CASE ~IsCurrent(f)
    <3>1. UNCHANGED <<key, waiting, answer>>
      BY <1>6, <2>2 DEF Deliver
    <3>. QED  BY <2>1, <3>1, ConstantsAssumption
  <2>3. CASE IsCurrent(f)
    <3>. DEFINE k == key[f]
    <3>1. Settle(Waiters(k), stage[f])
      BY <1>6, <2>3 DEF Deliver
    <3>2. stage[f] \in {"ready", "error"} /\ Waiters(k) # {}
      BY <2>1, <2>3, ConstantsAssumption
         DEF IsCurrent, IInv, Lifecycle, RegisteredFlightsAnswer, Posted
    <3>3. {q \in Out : key[q] = k} = Waiters(k)
      BY <2>1, OutstandingTerrain
    <3>4. key' = key /\ waiting' = waiting \ Waiters(k)
      BY <3>1 DEF Settle
    <3>5. Out' = Out \ Waiters(k)
      BY <2>1, <3>4, ConstantsAssumption DEF Waiters
    <3>6. Service!Serve(k, stage[f])
      BY <3>1, <3>2, <3>3, <3>4, <3>5
         DEF Settle, Service!Serve, Service!TellAll, Service!Outstanding
    <3>. QED  BY <2>1, <3>2, <3>6 DEF Service!Outcomes
  <2>. QED  BY <2>2, <2>3
<1>7. ASSUME NEW r \in Requests, FinishDeletion(r)
      PROVE  r \in Out /\ Service!Delete(r)
  <2>1. /\ key[r] = Deletion /\ stage[r] \in WorkerPool /\ key' = key /\ waiting' = waiting
        /\ answer' = [answer EXCEPT ![r] = "ready"]
        /\ \A q \in Requests : stage'[q] = IF q = r THEN "done" ELSE stage[q]
    BY <1>7 DEF FinishDeletion, Go, IInv, TypeOK, WorkerPool
  <2>2. r \notin waiting /\ r \in Out
    BY <2>1, ConstantsAssumption DEF IInv, Lifecycle
  <2>3. Out' = Out \ {r}
    BY <2>1, <2>2 DEF WorkerPool
  <2>4. answer' = [q \in Requests |-> IF q \in {r} THEN "ready" ELSE answer[q]]
    BY <2>1 DEF IInv, TypeOK
  <2>. QED  BY <2>1, <2>2, <2>3, <2>4
            DEF Service!Delete, Service!TellAll, Service!Outstanding
<1>8. ASSUME BeginShutdown \/ JoinRemotePool \/ UNCHANGED vars
      PROVE  UNCHANGED <<key, Out, answer>>
  BY <1>8 DEF BeginShutdown, JoinRemotePool, vars, registry
<1>9. ASSUME JoinWorkerPool
      PROVE  Service!Close \/ UNCHANGED <<key, Out, answer>>
  <2>. USE <1>9 DEF JoinWorkerPool, StillWaiting
  <2>1. Out = waiting /\ Out' = {}
    BY DEF At, IInv, TypeOK
  <2>2. CASE waiting = {}
    BY <2>1, <2>2 DEF IInv, TypeOK
  <2>3. CASE waiting # {}
    <3>1. {q \in Out : key[q] = Deletion} = {}
      BY <2>1, ConstantsAssumption DEF IInv, Lifecycle, TypeOK
    <3>. QED  BY <2>1, <2>3, <3>1 DEF Service!Close, Service!TellAll, Service!Outstanding
  <2>. QED  BY <2>2, <2>3
<1>10. CASE Clients
  BY <1>1, <1>2, <1>3, <1>4, <1>5, <1>10 DEF Clients
<1>11. ASSUME NEW f \in Requests, PoolStep(f) \/ FinishAcquisition(f) \/ Deliver(f)
       PROVE  Service!Next \/ UNCHANGED <<key, Out, answer>>
  BY <1>6, <1>7, <1>11, PoolStepsStutter DEF PoolStep
<1>. QED  BY <1>8, <1>9, <1>10, <1>11 DEF Next

(* Initial states map to initial states, steps to steps or stuttering. *)
THEOREM Implementation == Safe => ImplementsSingleFlight
<1>1. Init => Service!Init
  BY DEF Init, Service!Init, WorkerPool
<1>2. IInv /\ [Next]_vars => [Service!Next]_(Service!vars)
  BY StepImplements
<1>. QED  BY <1>1, <1>2, Invariance, PTL DEF Safe, ImplementsSingleFlight, Service!Safe
=============================================================================
