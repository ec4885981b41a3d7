--------------------------- MODULE SourceDownload ---------------------------
(***************************************************************************)
(* One native source cell of the Copernicus provider: its download under a *)
(* lock file, with interrupted transfers kept and resumed, as done by      *)
(* downloadSourceTile in src/src/lib/copernicus_terrain_provider.cpp and   *)
(* the copernicus_*.h helpers.                                             *)
(*                                                                         *)
(* Workers of several server processes share the four files of the cell:   *)
(* the published source, a partial download, its metadata, and the         *)
(* incoming response.  A worker touches them one at a time, as a plan of   *)
(* operations; a crash of its process cuts the plan short and frees the    *)
(* lock.  The upstream entity may change or vanish at any moment.          *)
(*                                                                         *)
(* A byte is an entity and a position in it.  An ETag that is strong names *)
(* its entity; a Content-Range tells the truth about the bytes that follow *)
(* it.  A reply may end early without an error: where neither a length nor *)
(* chunks delimit a body, its end is the end of the connection.  Replacing *)
(* and removing a file are atomic, and removing succeeds.                  *)
(* The lock is not taken from a live process: its stale time is longer     *)
(* than the download deadline.  Operators named <Definition>_<mistake> are *)
(* that definition with a mistake; no specification uses them.             *)
(***************************************************************************)
EXTENDS Naturals, Sequences

CONSTANTS
  Workers,    \* threads that may acquire the cell
  Processes,  \* server processes sharing the cache directory
  ProcessOf,  \* the process of each worker
  Entities,   \* versions of the upstream object
  Size,       \* bytes of each entity
  Strong,     \* the entities served with a strong ETag
  None        \* no file, no entity, no response

(* What the metadata of a partial says, and the headers of a response.     *)
MetaType == [etag : Strong, downloaded : Nat, total : Nat]
ResponseType ==
  [status : {"full", "range", "not_found", "rejected"}, entity : Entities \union {None},
   first : Nat \ {0}, last : Nat, announced : BOOLEAN]

ASSUME SourceAssumption ==
  /\ ProcessOf \in [Workers -> Processes]
  /\ Size \in [Entities -> Nat \ {0}]
  /\ Strong \subseteq Entities
  /\ None \notin Workers \union Entities \union Seq(Entities \X Nat)
  /\ None \notin MetaType \union ResponseType

VARIABLES
  upstream,  \* the entity at the source URL
  final,     \* <cell>.tif
  partial,   \* <cell>.tif.partial
  meta,      \* <cell>.tif.partial.meta
  incoming,  \* <cell>.tif.incoming
  lock,      \* holder of <cell>.tif.lock
  marked,    \* unavailable_source_until holds the cell
  stage,     \* where each worker is in downloadSourceTile
  token,     \* cancel_requested of its flight
  stale,     \* upstream_cancel_generation passed the one it started with
  aborted,   \* abort() was called, or is queued, on its reply
  prior,     \* prior_state
  response,  \* the headers it received
  plan       \* file operations it has ahead

files == <<final, partial, meta, incoming>>
control == <<stage, token, stale, aborted, prior, response, plan>>
vars == <<upstream, files, lock, marked, control>>

Slice(e, first, last) == [i \in 1 .. last - first + 1 |-> <<e, first + i - 1>>]

Init ==
  /\ upstream \in Entities
  /\ final = None /\ partial = None /\ meta = None /\ incoming = None
  /\ lock = None
  /\ marked = [p \in Processes |-> FALSE]
  /\ stage = [w \in Workers |-> "idle"]
  /\ token = [w \in Workers |-> FALSE]
  /\ stale = [w \in Workers |-> FALSE]
  /\ aborted = [w \in Workers |-> FALSE]
  /\ prior = [w \in Workers |-> None]
  /\ response = [w \in Workers |-> None]
  /\ plan = [w \in Workers |-> << >>]

Cancelled(w) == token[w] \/ stale[w]

(* The workers W are out of downloadSourceTile, and its locals are gone.   *)
Leave(W) ==
  /\ stage' = [w \in Workers |-> IF w \in W THEN "idle" ELSE stage[w]]
  /\ plan' = [w \in Workers |-> IF w \in W THEN << >> ELSE plan[w]]
  /\ token' = [w \in Workers |-> w \notin W /\ token[w]]
  /\ stale' = [w \in Workers |-> w \notin W /\ stale[w]]
  /\ aborted' = [w \in Workers |-> w \notin W /\ aborted[w]]
  /\ prior' = [w \in Workers |-> IF w \in W THEN None ELSE prior[w]]
  /\ response' = [w \in Workers |-> IF w \in W THEN None ELSE response[w]]

-----------------------------------------------------------------------------
(* Waiting for the lock *)

(* The cell is not known to be missing upstream, and not cached.           *)
Begin(w) ==
  /\ stage[w] = "idle"
  /\ ~marked[ProcessOf[w]] /\ final = None
  /\ stage' = [stage EXCEPT ![w] = "locking"]
  /\ UNCHANGED <<upstream, files, lock, marked, token, stale, aborted, prior, response, plan>>

StopWaiting_CancelledOnly(w) ==
  /\ stage[w] = "locking" /\ Cancelled(w)
  /\ Leave({w})
  /\ UNCHANGED <<upstream, files, lock, marked>>

(* Cancelled, or not locked within ProviderSourceLockTimeoutMs.            *)
StopWaiting(w) ==
  /\ stage[w] = "locking"
  /\ Leave({w})
  /\ UNCHANGED <<upstream, files, lock, marked>>

TakeLock(w) ==
  /\ stage[w] = "locking" /\ lock = None
  /\ lock' = w
  /\ stage' = [stage EXCEPT ![w] = "checking"]
  /\ UNCHANGED <<upstream, files, marked, token, stale, aborted, prior, response, plan>>

-----------------------------------------------------------------------------
(* Under the lock: what is there already *)

Usable_AnyLength(part, m) == part # None /\ m # None /\ part # << >> /\ m.downloaded < m.total

(* loadCopernicusPartialState: the partial has the length its metadata     *)
(* says.  (Its ETag is strong: no other is saved.)                         *)
Usable(part, m) ==
  /\ part # None /\ m # None
  /\ part # << >> /\ Len(part) = m.downloaded /\ m.downloaded < m.total

Follow(w, next, operations) ==
  /\ stage' = [stage EXCEPT ![w] = next]
  /\ plan' = [plan EXCEPT ![w] = operations]

Check_NotAgain(w) ==
  /\ stage[w] = "checking"
  /\ \/ /\ Cancelled(w)
        /\ Follow(w, "finishing", <<"release">>)
        /\ UNCHANGED prior
     \/ /\ ~Cancelled(w)
        /\ prior' = [prior EXCEPT ![w] = IF Usable(partial, meta) THEN meta ELSE None]
        /\ Follow(w, "preparing", <<"drop_incoming", "open_incoming">>)
  /\ UNCHANGED <<upstream, files, lock, marked, token, stale, aborted, response>>

(* Another worker may have published the source meanwhile.  A partial that *)
(* cannot be resumed is removed.                                           *)
Check(w) ==
  /\ stage[w] = "checking"
  /\ \/ /\ Cancelled(w) \/ final # None
        /\ Follow(w, "finishing", <<"release">>)
        /\ UNCHANGED prior
     \/ /\ ~Cancelled(w) /\ final = None
        /\ Usable(partial, meta)
        /\ prior' = [prior EXCEPT ![w] = meta]
        /\ Follow(w, "preparing", <<"drop_incoming", "open_incoming">>)
     \/ /\ ~Cancelled(w) /\ final = None
        /\ ~Usable(partial, meta)
        /\ prior' = [prior EXCEPT ![w] = None]
        /\ Follow(w, "preparing", <<"drop_partial", "drop_meta", "drop_incoming", "open_incoming">>)
  /\ UNCHANGED <<upstream, files, lock, marked, token, stale, aborted, response>>

(* The last look at the generation and the token before the request; the   *)
(* first leaves the empty incoming file behind.                            *)
Send(w) ==
  /\ stage[w] = "preparing" /\ plan[w] = << >>
  /\ \/ /\ stale[w]
        /\ Follow(w, "finishing", <<"release">>)
     \/ /\ ~stale[w] /\ token[w]
        /\ Follow(w, "finishing", <<"drop_incoming", "release">>)
     \/ /\ ~Cancelled(w)
        /\ Follow(w, "sending", << >>)
  /\ UNCHANGED <<upstream, files, lock, marked, token, stale, aborted, prior, response>>

Register_Blindly(w) ==
  /\ stage[w] = "sending"
  /\ stage' = [stage EXCEPT ![w] = "transfer"]
  /\ aborted' = [aborted EXCEPT ![w] = token[w]]
  /\ response' = [response EXCEPT ![w] = None]
  /\ UNCHANGED <<upstream, files, lock, marked, token, stale, prior, plan>>

(* The reply joins upstream_active_replies; a cancellation that came       *)
(* between the last look and this aborts it here.                          *)
Register(w) ==
  /\ stage[w] = "sending"
  /\ stage' = [stage EXCEPT ![w] = "transfer"]
  /\ aborted' = [aborted EXCEPT ![w] = Cancelled(w)]
  /\ response' = [response EXCEPT ![w] = None]
  /\ UNCHANGED <<upstream, files, lock, marked, token, stale, prior, plan>>

-----------------------------------------------------------------------------
(* The transfer *)

(* announced: Content-Length is given.                                     *)
Response(status, e, first, last, announced) ==
  [status |-> status, entity |-> e, first |-> first, last |-> last, announced |-> announced]

(* A full entity, a range of it if one was asked for, not the one asked    *)
(* for perhaps, 404, or another status.                                    *)
Responses(w) ==
  {Response("rejected", None, 1, 0, FALSE)} \union
  IF upstream = None THEN {Response("not_found", None, 1, 0, FALSE)}
  ELSE LET size == Size[upstream]
       IN {Response("full", upstream, 1, size, announced) : announced \in BOOLEAN} \union
          IF prior[w] = None THEN {}
          ELSE {Response("range", upstream, first, last, announced) :
                  first \in 1 .. size, last \in 1 .. size, announced \in BOOLEAN}

Respond(w) ==
  /\ stage[w] = "transfer" /\ response[w] = None
  /\ \E r \in Responses(w) :
       /\ r.status = "range" => r.first <= r.last
       /\ response' = [response EXCEPT ![w] = r]
  /\ UNCHANGED <<upstream, files, lock, marked, stage, token, stale, aborted, prior, plan>>

Body(r) == IF r = None THEN << >> ELSE Slice(r.entity, r.first, r.last)

Receive(w) ==
  /\ stage[w] = "transfer"
  /\ Len(incoming) < Len(Body(response[w]))
  /\ incoming' = Append(incoming, Body(response[w])[Len(incoming) + 1])
  /\ UNCHANGED <<upstream, final, partial, meta, lock, marked, control>>

Status(r) == IF r = None THEN "none" ELSE r.status

(* The interrupted response may be kept: an entity with a strong ETag and  *)
(* a known length.                                                         *)
Keepable(w) ==
  LET r == response[w]
  IN /\ Status(r) = "full"
     /\ r.entity \in Strong /\ r.announced
     /\ 0 < Len(incoming) /\ Len(incoming) < r.last

Continues_OtherEntity(w) ==
  LET r == response[w]
  IN /\ Status(r) = "range" /\ prior[w] # None
     /\ r.first = prior[w].downloaded + 1
     /\ r.last = Size[r.entity] /\ prior[w].total = Size[r.entity]
     /\ Len(incoming) > 0

(* A range that continues the partial: the same entity, from the next byte *)
(* to its last one.                                                        *)
Continues(w) ==
  LET r == response[w]
  IN /\ Status(r) = "range" /\ prior[w] # None
     /\ r.entity = prior[w].etag
     /\ r.first = prior[w].downloaded + 1
     /\ r.last = Size[r.entity] /\ prior[w].total = Size[r.entity]
     /\ Len(incoming) > 0

DropIncoming == <<"drop_incoming", "release">>
DropAll == <<"drop_incoming", "drop_partial", "drop_meta", "release">>

(* A network error, or a deadline: what may be resumed is kept.            *)
Interrupted(w) ==
  IF Keepable(w)
  THEN <<"drop_partial", "drop_meta", "keep_incoming", "save_meta", "release">>
  ELSE IF Continues(w) /\ response[w].announced /\ Len(incoming) < Len(Body(response[w]))
  THEN <<"append", "save_meta", "drop_incoming", "release">>
  ELSE DropIncoming

Publish == <<"publish", "drop_incoming", "drop_partial", "drop_meta", "release">>

CompleteFull_AnyLength(w) == Status(response[w]) = "full" /\ Len(incoming) > 0

(* completeCopernicusResponse: a body of the length that was announced, or *)
(* of any length when none was.                                            *)
CompleteFull(w) ==
  /\ Status(response[w]) = "full" /\ Len(incoming) > 0
  /\ response[w].announced => Len(incoming) = Len(Body(response[w]))

(* The reply ended without an error.                                       *)
Complete(w) ==
  IF CompleteFull(w) \/ (Continues(w) /\ Len(incoming) = Len(Body(response[w])))
  THEN Publish
  ELSE IF Status(response[w]) = "range" THEN DropAll ELSE DropIncoming

(* The event loop returned: the outcome decides what becomes of the files. *)
End(w) ==
  LET status == Status(response[w])
  IN /\ stage[w] = "transfer"
     /\ \/ Cancelled(w) /\ Follow(w, "finishing", DropIncoming)
        \/ /\ ~Cancelled(w)
           /\ \/ Follow(w, "finishing", DropIncoming)   \* write error, too large
              \/ /\ status = "not_found"
                 /\ Follow(w, "finishing",
                           <<"drop_incoming", "drop_partial", "drop_meta", "release", "mark">>)
              \/ /\ status # "not_found"
                 /\ Follow(w, "finishing", Interrupted(w))
              \/ /\ status = "rejected"    \* 416 and others
                 /\ Follow(w, "finishing", DropAll)
              \/ /\ status \in {"full", "range"}
                 /\ Follow(w, "finishing", Complete(w))
     /\ UNCHANGED <<upstream, files, lock, marked, token, stale, aborted, prior, response>>

-----------------------------------------------------------------------------
(* File operations *)

DropFile(operation) ==
  /\ partial' = IF operation = "drop_partial" THEN None ELSE partial
  /\ meta' = IF operation = "drop_meta" THEN None ELSE meta
  /\ incoming' = IF operation = "drop_incoming" THEN None ELSE incoming
  /\ UNCHANGED <<final, lock, marked>>

(* The metadata of the bytes now in the partial.                           *)
Description(w) ==
  [etag |-> response[w].entity, downloaded |-> Len(partial), total |-> Size[response[w].entity]]

(* What an operation does when it succeeds.                                *)
Succeed(w, operation) ==
  \/ operation \in {"drop_partial", "drop_meta", "drop_incoming"} /\ DropFile(operation)
  \/ /\ operation = "open_incoming"
     /\ incoming' = << >> /\ UNCHANGED <<final, partial, meta, lock, marked>>
  \/ /\ operation = "keep_incoming"
     /\ partial' = incoming /\ incoming' = None /\ UNCHANGED <<final, meta, lock, marked>>
  \/ /\ operation = "append"
     /\ partial' = partial \o incoming /\ UNCHANGED <<final, meta, incoming, lock, marked>>
  \/ /\ operation = "save_meta"
     /\ meta' = Description(w) /\ UNCHANGED <<final, partial, incoming, lock, marked>>
  \/ /\ operation = "publish" /\ ~token[w]
     /\ final' = IF Status(response[w]) = "range" THEN partial \o incoming ELSE incoming
     /\ UNCHANGED <<partial, meta, incoming, lock, marked>>
  \/ operation = "release" /\ lock' = None /\ UNCHANGED <<files, marked>>
  \/ /\ operation = "mark"
     /\ marked' = [marked EXCEPT ![ProcessOf[w]] = TRUE] /\ UNCHANGED <<files, lock>>

(* What is left to do after a write that failed, or a publication that was *)
(* cancelled.                                                              *)
Recovery(w, operation) ==
  CASE operation = "open_incoming" -> <<"release">>
    [] operation = "save_meta" /\ Status(response[w]) = "full" -> DropAll
    [] OTHER -> DropIncoming

Do(w) ==
  /\ plan[w] # << >>
  /\ \/ /\ Succeed(w, Head(plan[w]))
        /\ IF stage[w] = "finishing" /\ Len(plan[w]) = 1
           THEN Leave({w})
           ELSE /\ plan' = [plan EXCEPT ![w] = Tail(@)]
                /\ UNCHANGED <<stage, token, stale, aborted, prior, response>>
     \/ /\ Head(plan[w]) \in {"open_incoming", "keep_incoming", "append", "save_meta", "publish"}
        /\ Follow(w, "finishing", Recovery(w, Head(plan[w])))
        /\ UNCHANGED <<files, lock, marked, token, stale, aborted, prior, response>>
  /\ UNCHANGED upstream

-----------------------------------------------------------------------------
(* Cancellation, deletion, crashes, the world *)

(* The last waiter of the worker's flight left, or the server stops.       *)
CancelFlight(w) ==
  /\ stage[w] # "idle" /\ ~token[w]
  /\ token' = [token EXCEPT ![w] = TRUE]
  /\ UNCHANGED <<upstream, files, lock, marked, stage, stale, aborted, prior, response, plan>>

(* orphan_poll.                                                            *)
PollToken(w) ==
  /\ stage[w] = "transfer" /\ token[w] /\ ~aborted[w]
  /\ aborted' = [aborted EXCEPT ![w] = TRUE]
  /\ UNCHANGED <<upstream, files, lock, marked, stage, token, stale, prior, response, plan>>

CancelUpstream(p) ==
  /\ stale' = [w \in Workers |-> stale[w] \/ (ProcessOf[w] = p /\ stage[w] # "idle")]
  /\ aborted' = [w \in Workers |->
       aborted[w] \/ (ProcessOf[w] = p /\ stage[w] = "transfer")]
  /\ UNCHANGED <<upstream, files, lock, marked, stage, token, prior, response, plan>>

(* deleteSourceData: the cell is forgotten as missing, and removed unless  *)
(* someone holds its lock.                                                 *)
DeleteSource(p) ==
  /\ marked' = [marked EXCEPT ![p] = FALSE]
  /\ \/ final # None /\ lock = None /\ final' = None
     \/ final' = final
  /\ UNCHANGED <<upstream, partial, meta, incoming, lock, control>>

(* The hour of unavailable_source_until is over.                           *)
Expire(p) ==
  /\ marked[p]
  /\ marked' = [marked EXCEPT ![p] = FALSE]
  /\ UNCHANGED <<upstream, files, lock, control>>

Crash(p) ==
  LET gone == {w \in Workers : ProcessOf[w] = p}
  IN /\ Leave(gone)
     /\ lock' = IF lock \in gone THEN None ELSE lock
     /\ marked' = [marked EXCEPT ![p] = FALSE]
     /\ UNCHANGED <<upstream, files>>

UpstreamChanges ==
  /\ upstream' \in Entities \union {None}
  /\ UNCHANGED <<files, lock, marked, control>>

-----------------------------------------------------------------------------
Step(w) ==
  \/ StopWaiting(w) \/ TakeLock(w) \/ Check(w) \/ Send(w) \/ Register(w)
  \/ Respond(w) \/ Receive(w) \/ End(w) \/ Do(w)

Next ==
  \/ \E w \in Workers : Begin(w) \/ Step(w) \/ CancelFlight(w) \/ PollToken(w)
  \/ \E p \in Processes : CancelUpstream(p) \/ DeleteSource(p) \/ Expire(p) \/ Crash(p)
  \/ UpstreamChanges

Safe == Init /\ [][Next]_vars

(* Threads run, lock attempts time out and transfers have a deadline.      *)
Spec == Safe /\ \A w \in Workers : WF_vars(Step(w))

-----------------------------------------------------------------------------
TypeOK ==
  LET Contents == Seq(Entities \X Nat) \union {None}
  IN /\ upstream \in Entities \union {None}
     /\ final \in Contents /\ partial \in Contents /\ incoming \in Contents
     /\ meta \in MetaType \union {None}
     /\ lock \in Workers \union {None}
     /\ marked \in [Processes -> BOOLEAN]
     /\ stage \in [Workers -> {"idle", "locking", "checking", "preparing", "sending",
                               "transfer", "finishing"}]
     /\ token \in [Workers -> BOOLEAN] /\ stale \in [Workers -> BOOLEAN]
     /\ aborted \in [Workers -> BOOLEAN]
     /\ prior \in [Workers -> MetaType \union {None}]
     /\ response \in [Workers -> ResponseType \union {None}]
     /\ DOMAIN plan = Workers
     /\ \A w \in Workers : plan[w] # << >> => stage[w] \in {"preparing", "finishing"}

(* What is published is a whole copy of one upstream entity, whatever was  *)
(* interrupted, resumed, cancelled, lost in a crash or changed upstream    *)
(* before.  The exception is a full response that did not announce its     *)
(* length: of that it may be the beginning.  (completeCopernicusResponse;  *)
(* "Incomplete files are never published as final .tif sources",           *)
(* docs/architecture.md:99, holds for all other responses; a mixture of    *)
(* two entities would be as bad.)                                          *)
PublishedIsWhole ==
  [][final' \notin {final, None} =>
       \E w \in Workers, e \in Entities :
         /\ lock = w
         /\ Len(final') \in 1 .. Size[e] /\ final' = Slice(e, 1, Len(final'))
         /\ Len(final') = Size[e] \/
              (Status(response[w]) = "full" /\ ~response[w].announced)]_vars

(* A partial that the next attempt would resume is a prefix of the entity  *)
(* its metadata names, after a crash between any two file operations too.  *)
(* (loadCopernicusPartialState against the order of partial and metadata.) *)
ResumableIsPrefix ==
  Usable(partial, meta) =>
    /\ partial = Slice(meta.etag, 1, meta.downloaded)
    /\ meta.total = Size[meta.etag]

(* A published source is not downloaded over: it stays until it is         *)
(* deleted.  (The second look under the lock.)                             *)
PublishedOnce == [][final # None => final' \in {final, None}]_vars

(* After cancelUpstreamDownloads no transfer of an earlier acquisition     *)
(* goes on: whichever came first, the registration of its reply or the     *)
(* cancellation, it is aborted.                                            *)
NoStrayTransfers == \A w \in Workers : stage[w] = "transfer" /\ stale[w] => aborted[w]

(* Every acquisition ends.  (The lock timeout and the transfer deadlines.) *)
AcquisitionsEnd == \A w \in Workers : stage[w] # "idle" ~> stage[w] = "idle"
=============================================================================
