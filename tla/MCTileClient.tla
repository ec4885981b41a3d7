---------------------------- MODULE MCTileClient ----------------------------
(* The Windows build and the other one, tiles of up to two units, and every*)
(* kind of response.                                                       *)
EXTENDS TileClient

MCBuilds == {[retries |-> 1, overall |-> 4, silence |-> 2, delay |-> 1],
             [retries |-> 0, overall |-> 5, silence |-> 6, delay |-> 0]}
MCResponses == [status: {"none", "ok", "bad"}, type: {"absent", "image", "other"},
                image: BOOLEAN]
=============================================================================
