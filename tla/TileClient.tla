------------------------------ MODULE TileClient ------------------------------
(***************************************************************************)
(* TileHttpClient: one download of a raster tile.                          *)
(*                                                                         *)
(*   src/src/lib/http_client_tilefetch.cpp   get, getAttempt, cancel,      *)
(*                                           handleReply                   *)
(*                                                                         *)
(* MapTiles makes a client for every download, calls get once, and may     *)
(* cancel until the client has reported.  Everything happens in the event  *)
(* loop of one thread: bytes of the reply, the timer of the whole transfer *)
(* and the timer between two attempts arrive one by one.                   *)
(* QNetworkReply::abort emits finished before it returns, so an abort and  *)
(* the handling of its outcome are one step.                               *)
(*                                                                         *)
(* The Windows build limits a silence on the wire and tries a second time  *)
(* after a timeout, the other build does neither; "build" is chosen at the *)
(* start.  Time passes in ticks and timers fire on time: how late a busy   *)
(* event loop runs them is left out, and so are post and the cancellation  *)
(* from another thread, which nothing calls.                               *)
(***************************************************************************)
EXTENDS Naturals

CONSTANTS
  Builds,       \* [retries, overall, silence, delay], in ticks; a build
                \* without a limit on silence has silence > overall
  MaxSize,      \* maximum_tile_size
  Chunk,        \* the most that arrives between two looks at the size
  Totals,       \* sizes the upstream may announce; 0 for none
  Responses,    \* [status, type, image]: what the upstream answers
  None          \* nothing

ASSUME BuildsAssumption ==
  Builds \subseteq [retries: Nat, overall: Nat, silence: Nat, delay: Nat]

ASSUME SizesAssumption == MaxSize \in Nat /\ Chunk \in Nat /\ Totals \subseteq Nat

ASSUME NoneAssumption == None \notin {"tile", "upstream", "timeout", "invalid", "canceled"}

Reasons == {"upstream", "timeout", "invalid", "canceled"}

VARIABLES
  build,            \* the build that runs
  phase,            \* "idle", "transfer", "delay" (before a retry), "done"
  attempt,          \* attempts made before this one
  reply,            \* active_reply: [received, total, too_large]
  cancel_requested,
  age,              \* ticks since the attempt, or the delay, began
  quiet,            \* ticks since bytes came
  report,           \* None, "tile" or the reason of requestError
  waited            \* ticks since get

vars == <<build, phase, attempt, reply, cancel_requested, age, quiet, report, waited>>

NoReply == [received |-> 0, total |-> 0, too_large |-> FALSE]

(***************************************************************************)
(* handleReply.                                                            *)
(***************************************************************************)

(* The checks of a complete response, in their order, all end alike.       *)
ValidTile(r, response) ==
  /\ response.status = "ok"
  /\ r.received \in 1 .. MaxSize
  /\ response.type # "other"        \* absent, octet-stream or image/
  /\ response.image                 \* the signature of PNG, JPEG or WebP

(* Mistake: the abort of a tile that is too large is taken for a timeout.  *)
Verdict_TimeoutFirst(r, canceled, error, response) ==
  IF canceled THEN "canceled"
  ELSE IF error \in {"overall", "timeout", "aborted"} THEN "timeout"
  ELSE IF r.too_large THEN "invalid"
  ELSE IF error # "none" THEN "upstream"
  ELSE IF response.status = "bad" THEN "upstream"
  ELSE IF ValidTile(r, response) THEN "tile" ELSE "invalid"

(* What becomes of a finished reply.  "aborted" is OperationCanceledError: *)
(* an abort of limitTileReplySize, of cancel, or of Qt's transfer timeout. *)
Verdict(r, canceled, error, response) ==
  IF canceled THEN "canceled"
  ELSE IF r.too_large THEN "invalid"
  ELSE IF error \in {"overall", "timeout", "aborted"} THEN "timeout"
  ELSE IF error # "none" THEN "upstream"
  ELSE IF response.status = "bad" THEN "upstream"
  ELSE IF ValidTile(r, response) THEN "tile" ELSE "invalid"

(* Mistake: a timeout is retried as often as it happens.                   *)
MayRetry_Always(verdict) == verdict = "timeout" /\ build.retries > 0

MayRetry(verdict) == verdict = "timeout" /\ attempt < build.retries

(* The reply r is finished: a timeout may be retried after a delay,        *)
(* everything else is reported.                                            *)
HandleReply(r, canceled, error, response) ==
  LET verdict == Verdict(r, canceled, error, response)
  IN  /\ reply' = r
      /\ IF MayRetry(verdict)
           THEN /\ phase' = "delay" /\ age' = 0
                /\ UNCHANGED report
           ELSE /\ phase' = "done" /\ report' = verdict
                /\ UNCHANGED age
      /\ UNCHANGED quiet

(***************************************************************************)
(* The request.                                                            *)
(***************************************************************************)

(* The request goes out, and its timer starts.                             *)
StartAttempt ==
  /\ phase' = "transfer" /\ reply' = NoReply
  /\ age' = 0 /\ quiet' = 0

Get ==
  /\ phase = "idle"
  /\ cancel_requested' = FALSE
  /\ StartAttempt
  /\ UNCHANGED <<build, attempt, report, waited>>

(* Mistake: a canceled second attempt is dropped without a word.           *)
GetAgain_Silent ==
  /\ phase = "delay" /\ age = build.delay
  /\ attempt' = attempt + 1
  /\ IF cancel_requested
       THEN phase' = "done" /\ UNCHANGED <<reply, age, quiet>>
       ELSE StartAttempt
  /\ UNCHANGED <<build, cancel_requested, report, waited>>

(* getAttempt, when the delay is over: canceled meanwhile, or once more.   *)
GetAgain ==
  /\ phase = "delay" /\ age = build.delay
  /\ attempt' = attempt + 1
  /\ IF cancel_requested
       THEN /\ phase' = "done" /\ report' = "canceled"
            /\ UNCHANGED <<reply, age, quiet>>
       ELSE StartAttempt /\ UNCHANGED report
  /\ UNCHANGED <<build, cancel_requested, waited>>

(* Mistake: the size is compared when the reply is complete.               *)
TooLarge_Late(received, total) == FALSE

TooLarge(received, total) == received > MaxSize \/ total > MaxSize

(* downloadProgress: bytes arrive; more than a tile may have, or the       *)
(* announcement of more, aborts the reply.                                 *)
Receive(n, total) ==
  LET r == [received  |-> reply.received + n, total |-> total,
            too_large |-> TooLarge(reply.received + n, total)]
  IN  /\ phase = "transfer"
      /\ reply.total \in {0, total}
      /\ total # 0 => r.received <= total
      /\ IF r.too_large
           THEN HandleReply(r, cancel_requested, "aborted", None)
           ELSE /\ reply' = r /\ quiet' = 0
                /\ UNCHANGED <<phase, age, report>>
      /\ UNCHANGED <<build, attempt, cancel_requested, waited>>

(* The upstream closes the response.                                       *)
Finish(response) ==
  /\ phase = "transfer"
  /\ reply.total # 0 => reply.received = reply.total
  /\ HandleReply(reply, cancel_requested, "none", response)
  /\ UNCHANGED <<build, attempt, cancel_requested, waited>>

(* A transport error; the network stack has timeouts of its own.           *)
Break(error) ==
  /\ phase = "transfer"
  /\ HandleReply(reply, cancel_requested, error, None)
  /\ UNCHANGED <<build, attempt, cancel_requested, waited>>

(* The timer of the whole transfer, and Qt's timer of a silent one.        *)
TransferEnds ==
  /\ phase = "transfer"
  /\ \/ age = build.overall /\ HandleReply(reply, cancel_requested, "overall", None)
     \/ quiet = build.silence /\ HandleReply(reply, cancel_requested, "aborted", None)
  /\ UNCHANGED <<build, attempt, cancel_requested, waited>>

(* Time passes until a timer is due.                                       *)
Tick ==
  /\ \/ phase = "transfer" /\ age < build.overall /\ quiet < build.silence
     \/ phase = "delay" /\ age < build.delay
  /\ age' = age + 1 /\ quiet' = quiet + 1 /\ waited' = waited + 1
  /\ UNCHANGED <<build, phase, attempt, reply, cancel_requested, report>>

(* cancel: an active reply is aborted at once; between two attempts there  *)
(* is none, and the flag is all.                                           *)
Cancel ==
  /\ phase \in {"transfer", "delay"} /\ ~cancel_requested
  /\ cancel_requested' = TRUE
  /\ IF phase = "transfer"
       THEN HandleReply(reply, TRUE, "aborted", None)
       ELSE UNCHANGED <<phase, reply, age, quiet, report>>
  /\ UNCHANGED <<build, attempt, waited>>

(***************************************************************************)
(* The specification.                                                      *)
(***************************************************************************)

Init ==
  /\ build \in Builds
  /\ phase = "idle" /\ attempt = 0 /\ reply = NoReply
  /\ cancel_requested = FALSE
  /\ age = 0 /\ quiet = 0 /\ waited = 0
  /\ report = None

Next ==
  \/ Get \/ GetAgain \/ TransferEnds \/ Tick \/ Cancel
  \/ \E n \in 1 .. Chunk, total \in Totals : Receive(n, total)
  \/ \E response \in Responses : Finish(response)
  \/ \E error \in {"network", "timeout"} : Break(error)

(* Time passes, and the event loop runs the timers that are due.           *)
Fairness == WF_vars(Tick) /\ WF_vars(TransferEnds) /\ WF_vars(GetAgain)

Spec == Init /\ [][Next]_vars /\ Fairness

(***************************************************************************)
(* Properties.                                                             *)
(***************************************************************************)

(* Every variable has its type, and no attempt is made beyond the retries. *)
TypeOK ==
  /\ build \in Builds
  /\ phase \in {"idle", "transfer", "delay", "done"}
  /\ attempt \in 0 .. build.retries
  /\ reply \in [received: Nat, total: Totals \cup {0}, too_large: BOOLEAN]
  /\ cancel_requested \in BOOLEAN
  /\ age \in Nat /\ quiet \in Nat /\ waited \in Nat
  /\ report \in Reasons \cup {"tile", None}

(* A client holds at most one look at the socket more than a tile may      *)
(* have, whatever the upstream sends.  (limitTileReplySize)                *)
BufferIsBounded == reply.received <= MaxSize + Chunk

(* A tile that is too large is reported as such, at once: its abort is not *)
(* taken for a timeout and not tried again.  (limitTileReplySize against   *)
(* the order of the checks in handleReply)                                 *)
TooLargeIsFinal == reply.too_large => report \in {"invalid", "canceled"}

(* After a cancellation nothing is transferred any more, not even by an    *)
(* attempt that was already due.  (cancel, getAttempt)                     *)
CancelIsPrompt == cancel_requested => phase # "transfer"

(* A request waits for its limits and no longer: every attempt for the     *)
(* overall timeout, and for the delay before every other one.              *)
(* (overall_timeout_ms, timeout_retry_delay_ms)                            *)
WaitIsBounded ==
  waited <= (build.retries + 1) * build.overall + build.retries * build.delay

(* The client is a tile request as MapTiles sees it: one report for every  *)
(* get, in the end, and no tile after a cancellation.                      *)
(* (requestFinished and requestError, emitted on every path once)          *)
Request == INSTANCE TileRequest WITH
  asked <- phase # "idle", canceled <- cancel_requested

ImplementsTileRequest == Request!Spec
=============================================================================
