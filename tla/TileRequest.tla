----------------------------- MODULE TileRequest -----------------------------
(***************************************************************************)
(* What a tile client promises to MapTiles: a request that was made gets   *)
(* one report, sooner or later, and a canceled one gets no tile any more.  *)
(*                                                                         *)
(*   src/src/lib/http_client_tilefetch.h   get, cancel, requestFinished,   *)
(*                                         requestError                    *)
(***************************************************************************)
CONSTANTS Reasons, None

VARIABLES asked, canceled, report

rvars == <<asked, canceled, report>>

Init == asked = FALSE /\ canceled = FALSE /\ report = None

Ask == ~asked /\ asked' = TRUE /\ canceled' = FALSE /\ UNCHANGED report

Cancel == canceled' = TRUE /\ UNCHANGED <<asked, report>>

Deliver == /\ asked /\ report = None /\ ~canceled
           /\ report' = "tile" /\ UNCHANGED <<asked, canceled>>

(* A cancellation may end the request by itself.                           *)
Fail(r) == /\ asked /\ report = None
           /\ canceled' = (r = "canceled")
           /\ canceled => canceled'
           /\ report' = r /\ UNCHANGED asked

Next == Ask \/ Cancel \/ Deliver \/ \E r \in Reasons : Fail(r)

Safety == Init /\ [][Next]_rvars

Spec == Safety /\ WF_rvars(Deliver \/ \E r \in Reasons : Fail(r))
=============================================================================
