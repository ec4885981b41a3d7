-------------------------- MODULE MCSourceDownload --------------------------
(* An instance of SourceDownload: a worker of each of two processes, and   *)
(* two versions of the upstream object.                                    *)
EXTENDS SourceDownload, TLC

CONSTANTS w1, w2, p1, p2, e1, e2

MCProcessOf == w1 :> p1 @@ w2 :> p2
MCSize == e1 :> 3 @@ e2 :> 3
=============================================================================
