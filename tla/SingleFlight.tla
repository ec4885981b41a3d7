---------------------------- MODULE SingleFlight ----------------------------
(***************************************************************************)
(* What the terrain front end of the map server promises its HTTP clients, *)
(* with no pools, tokens or reservations: a request for a key is refused   *)
(* at once or outstanding until exactly one of four things happens.  Its   *)
(* client leaves; the server closes; all outstanding requests for its key  *)
(* are answered together, with the same outcome of one real computation;   *)
(* or, for a cache deletion, which shares nothing, it is answered alone.   *)
(***************************************************************************)
EXTENDS Naturals, FiniteSets

CONSTANTS
  Requests,     \* HTTP requests; each is submitted at most once
  Keys,         \* tile, elevation and grid keys
  Deletion,     \* the "key" of a cache deletion, which is never shared
  NoKey,        \* a request that was not submitted
  MaxPending    \* max_pending_requests

VARIABLES
  key,          \* what each request asks for
  outstanding,  \* the accepted requests without an answer
  answer        \* what each request was told, "none" before

vars == <<key, outstanding, answer>>

Outcomes == {"ready", "error"}

Init ==
  /\ key = [r \in Requests |-> NoKey]
  /\ outstanding = {}
  /\ answer = [r \in Requests |-> "none"]

Outstanding(k) == {r \in outstanding : key[r] = k}

TellAll(S, a) ==
  /\ answer' = [r \in Requests |-> IF r \in S THEN a ELSE answer[r]]
  /\ outstanding' = outstanding \ S
  /\ UNCHANGED key

Accept(r, k) ==
  /\ key[r] = NoKey
  /\ k \in Keys => Cardinality({q \in outstanding : key[q] # Deletion}) < MaxPending
  /\ key' = [key EXCEPT ![r] = k]
  /\ outstanding' = outstanding \union {r}
  /\ UNCHANGED answer

Refuse(r, k) ==
  /\ key[r] = NoKey
  /\ key' = [key EXCEPT ![r] = k]
  /\ answer' = [answer EXCEPT ![r] = "busy"]
  /\ UNCHANGED outstanding

Serve(k, outcome) ==
  /\ Outstanding(k) # {}
  /\ TellAll(Outstanding(k), outcome)

Delete(r) ==
  /\ r \in Outstanding(Deletion)
  /\ TellAll({r}, "ready")

Leave(S) ==
  /\ S # {}
  /\ \A r \in S : key[r] # Deletion
  /\ TellAll(S, "disconnected")

Close ==
  /\ outstanding # {}
  /\ Outstanding(Deletion) = {}
  /\ TellAll(outstanding, "shutdown")

Next ==
  \/ \E r \in Requests, k \in Keys \union {Deletion} : Accept(r, k) \/ Refuse(r, k)
  \/ \E k \in Keys, outcome \in Outcomes : Serve(k, outcome)
  \/ \E r \in outstanding : Delete(r)
  \/ \E S \in SUBSET outstanding : Leave(S)
  \/ Close

EveryRequestSettles ==
  \A r \in Requests : r \in outstanding ~> r \notin outstanding

Safe == Init /\ [][Next]_vars

Spec == Safe /\ EveryRequestSettles
=============================================================================
