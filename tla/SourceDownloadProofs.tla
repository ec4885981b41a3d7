------------------------ MODULE SourceDownloadProofs ------------------------
(***************************************************************************)
(* Proofs about SourceDownload, for every number of workers and processes  *)
(* and every set of upstream entities: what is published is a whole copy   *)
(* of one entity, or the beginning of one whose length was not announced,  *)
(* what would be resumed is a prefix of the entity its metadata names,     *)
(* nothing is published over, and a cancelled transfer is aborted.         *)
(*                                                                         *)
(* The inductive invariant says of every worker that may touch the files   *)
(* that it holds the lock (so there is one at most), and, for every stage  *)
(* and every plan of file operations, what the four files contain: it is   *)
(* what makes a crash between any two operations harmless.                 *)
(***************************************************************************)
EXTENDS SourceDownload, TLAPS

-----------------------------------------------------------------------------
(* Parts of entities *)

Bytes == Entities \X Nat

(* The bytes s are those of entity e from position f on.                   *)
Part(s, e, f) == s \in Seq(Bytes) /\ \A i \in 1 .. Len(s) : s[i] = <<e, f + i - 1>>

(* A part from the beginning is a slice.                                   *)
LEMMA PartIsSlice ==
  ASSUME NEW s, NEW e, Part(s, e, 1)
  PROVE  s = Slice(e, 1, Len(s))
BY DEF Part, Slice, Bytes

(* A slice is a part.                                                      *)
LEMMA SliceIsPart ==
  ASSUME NEW e \in Entities, NEW f \in Nat \ {0}, NEW l \in Nat, l >= f - 1
  PROVE  Part(Slice(e, f, l), e, f) /\ Len(Slice(e, f, l)) = l - f + 1
BY DEF Part, Slice, Bytes

(* What a response with its range has: so many bytes, in order.            *)
LEMMA SliceBytes ==
  ASSUME NEW e, NEW f \in Nat \ {0}, NEW l \in Nat, l >= f - 1
  PROVE  /\ Len(Slice(e, f, l)) = l - f + 1
         /\ \A i \in 1 .. l - f + 1 : Slice(e, f, l)[i] = <<e, f + i - 1>>
BY DEF Slice

(* The next byte makes a part longer.                                      *)
LEMMA PartGrows ==
  ASSUME NEW e \in Entities, NEW s, NEW f \in Nat, Part(s, e, f)
  PROVE  Part(Append(s, <<e, f + Len(s)>>), e, f)
BY DEF Part, Bytes

(* A part and the part that continues it make one.                         *)
LEMMA PartsJoin ==
  ASSUME NEW e \in Entities, NEW s, NEW t, NEW f \in Nat, Part(s, e, f), Part(t, e, f + Len(s))
  PROVE  Part(s \o t, e, f) /\ Len(s \o t) = Len(s) + Len(t)
BY DEF Part, Bytes

-----------------------------------------------------------------------------
(* Plans of file operations *)

(* The rest of a plan that only tidies up.                                 *)
Clearing ==
  {<<"release">>, <<"release", "mark">>,
   <<"drop_meta", "release">>, <<"drop_meta", "release", "mark">>,
   <<"drop_partial", "drop_meta", "release">>, <<"drop_partial", "drop_meta", "release", "mark">>,
   <<"drop_incoming", "drop_partial", "drop_meta", "release">>,
   <<"drop_incoming", "drop_partial", "drop_meta", "release", "mark">>,
   <<"drop_incoming", "release">>}

Drops == {"drop_incoming", "drop_partial", "drop_meta"}

(* Tidying ends with the release of the lock, and a 404 is remembered      *)
(* after it.                                                               *)
LEMMA ClearingSteps ==
  ASSUME NEW p \in Clearing
  PROVE  /\ p # << >>
         /\ \/ Head(p) \in Drops /\ Tail(p) \in Clearing /\ Len(p) # 1
            \/ Head(p) = "release" /\ Len(p) = 1
            \/ Head(p) = "release" /\ Tail(p) = <<"mark">> /\ Len(p) # 1
<1>1. CASE p = <<"release">>
  <2>1. p # << >> /\ Head(p) = "release" /\ Len(p) = 1
    BY <1>1
  <2>. QED  BY <2>1 DEF Clearing, Drops
<1>2. CASE p = <<"release", "mark">>
  <2>1. /\ p # << >> /\ Head(p) = "release" /\ Len(p) # 1
        /\ Tail(p) = <<"mark">>
    BY <1>2
  <2>. QED  BY <2>1 DEF Clearing, Drops
<1>3. CASE p = <<"drop_incoming", "release">>
  <2>1. /\ p # << >> /\ Head(p) = "drop_incoming" /\ Len(p) # 1
        /\ Tail(p) = <<"release">>
    BY <1>3
  <2>. QED  BY <2>1 DEF Clearing, Drops
<1>4. CASE p = <<"drop_meta", "release">>
  <2>1. /\ p # << >> /\ Head(p) = "drop_meta" /\ Len(p) # 1
        /\ Tail(p) = <<"release">>
    BY <1>4
  <2>. QED  BY <2>1 DEF Clearing, Drops
<1>5. CASE p = <<"drop_meta", "release", "mark">>
  <2>1. /\ p # << >> /\ Head(p) = "drop_meta" /\ Len(p) # 1
        /\ Tail(p) = <<"release", "mark">>
    BY <1>5
  <2>. QED  BY <2>1 DEF Clearing, Drops
<1>6. CASE p = <<"drop_partial", "drop_meta", "release">>
  <2>1. /\ p # << >> /\ Head(p) = "drop_partial" /\ Len(p) # 1
        /\ Tail(p) = <<"drop_meta", "release">>
    BY <1>6
  <2>. QED  BY <2>1 DEF Clearing, Drops
<1>7. CASE p = <<"drop_partial", "drop_meta", "release", "mark">>
  <2>1. /\ p # << >> /\ Head(p) = "drop_partial" /\ Len(p) # 1
        /\ Tail(p) = <<"drop_meta", "release", "mark">>
    BY <1>7
  <2>. QED  BY <2>1 DEF Clearing, Drops
<1>8. CASE p = <<"drop_incoming", "drop_partial", "drop_meta", "release">>
  <2>1. /\ p # << >> /\ Head(p) = "drop_incoming" /\ Len(p) # 1
        /\ Tail(p) = <<"drop_partial", "drop_meta", "release">>
    BY <1>8
  <2>. QED  BY <2>1 DEF Clearing, Drops
<1>9. CASE p = <<"drop_incoming", "drop_partial", "drop_meta", "release", "mark">>
  <2>1. /\ p # << >> /\ Head(p) = "drop_incoming" /\ Len(p) # 1
        /\ Tail(p) = <<"drop_partial", "drop_meta", "release", "mark">>
    BY <1>9
  <2>. QED  BY <2>1 DEF Clearing, Drops
<1>. QED  BY <1>1, <1>2, <1>3, <1>4, <1>5, <1>6, <1>7, <1>8, <1>9 DEF Clearing

(* After a write that failed a worker tidies up.                           *)
LEMMA RecoveryClears ==
  ASSUME NEW w, NEW operation
  PROVE  Recovery(w, operation) \in Clearing
BY DEF Recovery, Clearing, DropAll, DropIncoming

-----------------------------------------------------------------------------
(* The invariant *)

(* The response headers of a worker are ones the server may send.          *)
Wellformed(r) ==
  /\ r.status \in {"full", "range", "not_found", "rejected"}
  /\ r.first \in Nat \ {0} /\ r.last \in Nat /\ r.first - 1 <= r.last
  /\ r.status \in {"full", "range"} => r.entity \in Entities
  /\ r.status \in {"not_found", "rejected"} => r.first = 1 /\ r.last = 0
  /\ r.status = "full" => r.first = 1 /\ r.last = Size[r.entity]

(* What a worker would resume is what is on disk.                          *)
Resuming(w) ==
  \/ prior[w] = None
  \/ prior[w] \in MetaType /\ prior[w] = meta /\ Usable(partial, meta)

Preparing(w) ==
  /\ final = None
  /\ \/ /\ prior[w] = None
        /\ plan[w] \in {<<"drop_partial", "drop_meta", "drop_incoming", "open_incoming">>,
                        <<"drop_meta", "drop_incoming", "open_incoming">>}
     \/ /\ Resuming(w)
        /\ plan[w] \in {<<"drop_incoming", "open_incoming">>, <<"open_incoming">>}
     \/ Resuming(w) /\ plan[w] = << >> /\ incoming = << >>

(* The bytes that have arrived are those the headers announced.            *)
Transferring(w) ==
  /\ final = None /\ plan[w] = << >> /\ Resuming(w)
  /\ \/ response[w] = None /\ incoming = << >>
     \/ /\ response[w] # None /\ Wellformed(response[w])
        /\ \/ incoming = << >>
           \/ /\ response[w].entity \in Entities
              /\ Part(incoming, response[w].entity, response[w].first)
              /\ response[w].first + Len(incoming) - 1 <= response[w].last

(* An interrupted response is on its way into the partial.                 *)
Keeping(w) ==
  /\ Part(incoming, response[w].entity, 1)
  /\ \/ plan[w] = <<"drop_partial", "drop_meta", "keep_incoming", "save_meta", "release">>
     \/ plan[w] = <<"drop_meta", "keep_incoming", "save_meta", "release">>
     \/ plan[w] = <<"keep_incoming", "save_meta", "release">> /\ meta = None

(* The partial continues with what arrived.                                *)
Continuing(w) ==
  /\ Part(partial, response[w].entity, 1)
  /\ Part(incoming, response[w].entity, 1 + Len(partial))

Appending(w) ==
  /\ Continuing(w) /\ Len(incoming) > 0
  /\ meta # None => Len(partial) = meta.downloaded
  /\ plan[w] = <<"append", "save_meta", "drop_incoming", "release">>

(* The partial waits for the metadata that describe it.                    *)
Describing(w) ==
  /\ Part(partial, response[w].entity, 1)
  /\ plan[w] \in {<<"save_meta", "release">>, <<"save_meta", "drop_incoming", "release">>}

Publishing(w) ==
  /\ final = None
  /\ plan[w] = <<"publish", "drop_incoming", "drop_partial", "drop_meta", "release">>
  /\ IF response[w].status = "range"
       THEN Continuing(w) /\ Len(partial) + Len(incoming) = Size[response[w].entity]
       ELSE /\ Part(incoming, response[w].entity, 1)
            /\ Len(incoming) \in 1 .. Size[response[w].entity]
            /\ Len(incoming) = Size[response[w].entity] \/
                 (response[w].status = "full" /\ ~response[w].announced)

Finishing(w) ==
  \/ plan[w] \in Clearing
  \/ /\ response[w] # None /\ response[w].entity \in Entities
     /\ \/ Publishing(w)
        \/ /\ response[w].entity \in Strong
           /\ Keeping(w) \/ Appending(w) \/ Describing(w)

(* A worker under the lock, by stages.                                     *)
Working(w) ==
  \/ stage[w] = "checking" /\ plan[w] = << >>
  \/ stage[w] = "preparing" /\ Preparing(w)
  \/ stage[w] = "sending" /\ final = None /\ plan[w] = << >> /\ Resuming(w)
                           /\ incoming = << >>
  \/ stage[w] = "transfer" /\ Transferring(w)
  \/ stage[w] = "finishing" /\ Finishing(w)

(* Whoever may touch the files holds the lock.                             *)
Sound(w) ==
  \/ stage[w] \in {"idle", "locking"} /\ plan[w] = << >>
  \/ stage[w] = "finishing" /\ plan[w] = <<"mark">>
  \/ lock = w /\ Working(w)

Inv ==
  /\ TypeOK
  /\ ResumableIsPrefix /\ NoStrayTransfers
  /\ \A w \in Workers : Sound(w)

-----------------------------------------------------------------------------
(* Steps that leave the files alone *)

Locals(w) == <<stage[w], plan[w], prior[w], response[w]>>

(* What is known of a worker depends on the files and its own locals.      *)
LEMMA Unaffected ==
  ASSUME NEW w \in Workers, Sound(w), UNCHANGED <<files, lock>>, UNCHANGED Locals(w)
  PROVE  Sound(w)'
<1>1. /\ stage'[w] = stage[w] /\ plan'[w] = plan[w] /\ prior'[w] = prior[w]
      /\ response'[w] = response[w]
  BY DEF Locals
<1>2. final' = final /\ partial' = partial /\ meta' = meta /\ incoming' = incoming /\ lock' = lock
  BY DEF files
<1>3. Resuming(w)' = Resuming(w) /\ Preparing(w)' = Preparing(w) /\ Transferring(w)' = Transferring(w)
  BY <1>1, <1>2 DEF Resuming, Usable, Preparing, Transferring
<1>4. Keeping(w)' = Keeping(w) /\ Appending(w)' = Appending(w) /\ Describing(w)' = Describing(w)
  BY <1>1, <1>2 DEF Keeping, Continuing, Appending, Describing
<1>5. Publishing(w)' = Publishing(w)
  BY <1>1, <1>2 DEF Continuing, Publishing
<1>6. Finishing(w)' = Finishing(w)
  BY <1>1, <1>4, <1>5 DEF Finishing
<1>. QED  BY <1>1, <1>2, <1>3, <1>6 DEF Sound, Working

(* Nobody else is under the lock when a worker holds or takes it.          *)
LEMMA OthersWait ==
  ASSUME NEW w \in Workers, lock \in {w, None},
         \A v \in Workers : Sound(v),
         NEW v \in Workers, v # w, stage'[v] = stage[v], plan'[v] = plan[v]
  PROVE  Sound(v)'
BY SourceAssumption DEF Sound

(* Workers that leave are at the beginning again.                          *)
LEMMA LeaveSound ==
  ASSUME NEW W, Leave(W), NEW w \in W \intersect Workers
  PROVE  Sound(w)'
BY DEF Leave, Sound

(* The other workers keep their locals.                                    *)
LEMMA LeaveOthers ==
  ASSUME NEW W, Leave(W), NEW w \in Workers \ W
  PROVE  UNCHANGED Locals(w)
BY DEF Leave, Locals

(* Leaving keeps the types.                                                *)
LEMMA LeaveType ==
  ASSUME Inv, NEW W, Leave(W), UNCHANGED <<upstream, files>>,
         lock' \in Workers \union {None}, marked' \in [Processes -> BOOLEAN]
  PROVE  TypeOK' /\ ResumableIsPrefix' /\ NoStrayTransfers'
<1>1. TypeOK'
  BY DEF Inv, TypeOK, Leave, files
<1>2. ResumableIsPrefix'
  BY DEF Inv, ResumableIsPrefix, Usable, files
<1>3. NoStrayTransfers'
  BY DEF Inv, NoStrayTransfers, Leave
<1>. QED  BY <1>1, <1>2, <1>3

(* A step that leaves files and lock alone, and changes the stage of no    *)
(* other worker.                                                           *)
LEMMA QuietStep ==
  ASSUME Inv, NEW w \in Workers, UNCHANGED <<files, lock>>, TypeOK', NoStrayTransfers',
         \A v \in Workers \ {w} : UNCHANGED Locals(v),
         Sound(w)'
  PROVE  Inv'
<1>1. ResumableIsPrefix'
  BY DEF Inv, ResumableIsPrefix, Usable, files
<1>2. \A v \in Workers \ {w} : Sound(v)'
  BY Unaffected DEF Inv
<1>. QED  BY <1>1, <1>2 DEF Inv

(* A worker begins to wait for the lock.                                   *)
LEMMA BeginStep ==
  ASSUME Inv, NEW w \in Workers, Begin(w)
  PROVE  Inv'
<1>1. TypeOK' /\ NoStrayTransfers'
  BY DEF Inv, TypeOK, NoStrayTransfers, Begin, files
<1>2. Sound(w)'
  BY DEF Inv, Sound, Working, Begin, TypeOK
<1>3. \A v \in Workers \ {w} : UNCHANGED Locals(v)
  BY DEF Inv, TypeOK, Begin, Locals
<1>. QED  BY <1>1, <1>2, <1>3, QuietStep DEF Begin

(* It gives up waiting.                                                    *)
LEMMA StopWaitingStep ==
  ASSUME Inv, NEW w \in Workers, StopWaiting(w)
  PROVE  Inv'
<1>1. TypeOK' /\ NoStrayTransfers'
  BY LeaveType DEF Inv, TypeOK, StopWaiting
<1>2. Sound(w)'
  BY LeaveSound DEF StopWaiting
<1>3. \A v \in Workers \ {w} : UNCHANGED Locals(v)
  BY LeaveOthers DEF StopWaiting
<1>. QED  BY <1>1, <1>2, <1>3, QuietStep DEF StopWaiting

(* It takes the lock: nobody else was under it.                            *)
LEMMA TakeLockStep ==
  ASSUME Inv, NEW w \in Workers, TakeLock(w)
  PROVE  Inv'
<1>1. TypeOK' /\ NoStrayTransfers'
  BY DEF Inv, TypeOK, NoStrayTransfers, TakeLock, files
<1>2. ResumableIsPrefix'
  BY DEF Inv, ResumableIsPrefix, Usable, TakeLock, files
<1>3. Sound(w)'
  BY DEF Inv, Sound, Working, TakeLock, TypeOK
<1>4. \A v \in Workers \ {w} : Sound(v)'
  BY OthersWait DEF Inv, TypeOK, TakeLock
<1>. QED  BY <1>1, <1>2, <1>3, <1>4 DEF Inv

(* It looks at the files.                                                  *)
LEMMA CheckStep ==
  ASSUME Inv, NEW w \in Workers, Check(w)
  PROVE  Inv'
<1>1. lock = w /\ stage[w] = "checking" /\ plan[w] = << >>
  BY DEF Inv, Sound, Working, Check
<1>2. /\ UNCHANGED <<final, partial, meta, incoming>>
      /\ UNCHANGED <<upstream, lock, marked, token, stale, aborted, response>>
      /\ \/ prior' = prior /\ Follow(w, "finishing", <<"release">>)
         \/ /\ final = None /\ Usable(partial, meta) /\ prior' = [prior EXCEPT ![w] = meta]
            /\ Follow(w, "preparing", <<"drop_incoming", "open_incoming">>)
         \/ /\ final = None /\ prior' = [prior EXCEPT ![w] = None]
            /\ Follow(w, "preparing",
                      <<"drop_partial", "drop_meta", "drop_incoming", "open_incoming">>)
  BY DEF Check, files
<1>3. /\ stage \in [Workers -> {"idle", "locking", "checking", "preparing", "sending",
                               "transfer", "finishing"}]
      /\ DOMAIN plan = Workers /\ prior \in [Workers -> MetaType \union {None}]
      /\ meta \in MetaType \union {None}
  BY DEF Inv, TypeOK
<1>4. stage'[w] \in {"preparing", "finishing"} /\ stage' = [stage EXCEPT ![w] = stage'[w]]
      /\ plan' = [plan EXCEPT ![w] = plan'[w]]
  BY <1>2, <1>3 DEF Follow
<1>5. prior' \in [Workers -> MetaType \union {None}]
  BY <1>2, <1>3 DEF Usable
<1>6. \A v \in Workers \ {w} : UNCHANGED Locals(v)
  BY <1>2, <1>3, <1>4 DEF Locals
<1>7. TypeOK'
  BY <1>2, <1>3, <1>4, <1>5 DEF Inv, TypeOK
<1>8. NoStrayTransfers'
  BY <1>2, <1>3, <1>4 DEF Inv, NoStrayTransfers
<1>9. stage'[w] = "finishing" => plan'[w] \in Clearing
  BY <1>2, <1>3 DEF Follow, Clearing
<1>10. stage'[w] = "preparing" => Preparing(w)'
  BY <1>2, <1>3 DEF Follow, Preparing, Resuming, Usable
<1>11. Sound(w)'
  BY <1>1, <1>2, <1>4, <1>9, <1>10 DEF Sound, Working, Finishing
<1>. QED  BY <1>2, <1>6, <1>7, <1>8, <1>11, QuietStep DEF files

(* A worker goes on to another stage with another plan.                    *)
LEMMA FollowStep ==
  ASSUME Inv, NEW w \in Workers, NEW operations,
         NEW next \in {"preparing", "sending", "finishing"},
         Follow(w, next, operations), next = "sending" => operations = << >>,
         UNCHANGED <<upstream, files, lock, marked, token, stale, aborted, prior, response>>
  PROVE  /\ TypeOK' /\ NoStrayTransfers'
         /\ stage'[w] = next /\ plan'[w] = operations
         /\ \A v \in Workers \ {w} : UNCHANGED Locals(v)
<1>1. /\ stage \in [Workers -> {"idle", "locking", "checking", "preparing", "sending",
                               "transfer", "finishing"}]
      /\ DOMAIN plan = Workers
  BY DEF Inv, TypeOK
<1>2. /\ stage' = [stage EXCEPT ![w] = next] /\ plan' = [plan EXCEPT ![w] = operations]
      /\ UNCHANGED <<upstream, final, partial, meta, incoming, lock, marked>>
      /\ UNCHANGED <<token, stale, aborted, prior, response>>
  BY DEF Follow, files
<1>3. \A v \in Workers \ {w} : UNCHANGED Locals(v)
  BY <1>1, <1>2 DEF Locals
<1>4. TypeOK'
  BY <1>1, <1>2 DEF Inv, TypeOK
<1>5. NoStrayTransfers'
  BY <1>1, <1>2 DEF Inv, NoStrayTransfers
<1>. QED  BY <1>1, <1>2, <1>3, <1>4, <1>5

(* A worker under the lock begins to tidy up.                              *)
LEMMA ClearStep ==
  ASSUME Inv, NEW w \in Workers, lock = w, NEW operations \in Clearing,
         Follow(w, "finishing", operations),
         UNCHANGED <<upstream, files, lock, marked, token, stale, aborted, prior, response>>
  PROVE  Inv'
<1>1. /\ TypeOK' /\ NoStrayTransfers'
      /\ stage'[w] = "finishing" /\ plan'[w] = operations
      /\ \A v \in Workers \ {w} : UNCHANGED Locals(v)
  BY FollowStep
<1>2. Sound(w)'
  BY <1>1 DEF Sound, Working, Finishing
<1>. QED  BY <1>1, <1>2, QuietStep

(* It looks at the cancellations a last time.                              *)
LEMMA SendStep ==
  ASSUME Inv, NEW w \in Workers, Send(w)
  PROVE  Inv'
<1>1. lock = w /\ Preparing(w) /\ plan[w] = << >>
  BY DEF Inv, Sound, Working, Send
<1>2. final = None /\ Resuming(w) /\ incoming = << >>
  BY <1>1 DEF Preparing
<1>3. /\ UNCHANGED <<upstream, files, lock, marked, token, stale, aborted, prior, response>>
      /\ \/ Follow(w, "finishing", <<"release">>)
         \/ Follow(w, "finishing", <<"drop_incoming", "release">>)
         \/ Follow(w, "sending", << >>)
  BY DEF Send
<1>4. CASE Follow(w, "finishing", <<"release">>) \/ Follow(w, "finishing", <<"drop_incoming", "release">>)
  BY <1>1, <1>3, <1>4, ClearStep DEF Clearing
<1>5. CASE Follow(w, "sending", << >>)
  <2>1. /\ TypeOK' /\ NoStrayTransfers'
        /\ stage'[w] = "sending" /\ plan'[w] = << >>
        /\ \A v \in Workers \ {w} : UNCHANGED Locals(v)
    BY <1>3, <1>5, FollowStep
  <2>2. Resuming(w)' /\ final' = None /\ incoming' = << >> /\ lock' = w
    BY <1>1, <1>2, <1>3 DEF Resuming, Usable, files
  <2>3. Sound(w)'
    BY <2>1, <2>2 DEF Sound, Working
  <2>. QED  BY <1>3, <2>1, <2>3, QuietStep
<1>. QED  BY <1>3, <1>4, <1>5

(* Its reply is registered, and aborted if it was cancelled.               *)
LEMMA RegisterStep ==
  ASSUME Inv, NEW w \in Workers, Register(w)
  PROVE  Inv'
<1>1. lock = w /\ final = None /\ Resuming(w) /\ incoming = << >> /\ plan[w] = << >>
  BY DEF Inv, Sound, Working, Register
<1>2. /\ stage \in [Workers -> {"idle", "locking", "checking", "preparing", "sending",
                               "transfer", "finishing"}]
      /\ token \in [Workers -> BOOLEAN] /\ stale \in [Workers -> BOOLEAN]
      /\ aborted \in [Workers -> BOOLEAN]
      /\ response \in [Workers -> ResponseType \union {None}]
  BY DEF Inv, TypeOK
<1>3. /\ stage' = [stage EXCEPT ![w] = "transfer"]
      /\ aborted' = [aborted EXCEPT ![w] = token[w] \/ stale[w]]
      /\ response' = [response EXCEPT ![w] = None]
      /\ UNCHANGED <<upstream, final, partial, meta, incoming, lock, marked>>
      /\ UNCHANGED <<token, stale, prior, plan>>
  BY DEF Register, Cancelled, files
<1>4. TypeOK'
  BY <1>1, <1>2, <1>3 DEF Inv, TypeOK
<1>5. NoStrayTransfers'
  BY <1>2, <1>3 DEF Inv, NoStrayTransfers
<1>6. \A v \in Workers \ {w} : UNCHANGED Locals(v)
  BY <1>2, <1>3 DEF Locals
<1>7. Transferring(w)'
  BY <1>1, <1>2, <1>3 DEF Resuming, Usable, Transferring
<1>8. Sound(w)'
  BY <1>1, <1>2, <1>3, <1>7 DEF Sound, Working
<1>. QED  BY <1>3, <1>4, <1>5, <1>6, <1>8, QuietStep DEF files

(* Every response the server may send is well formed.                      *)
LEMMA ResponsesWellformed ==
  ASSUME Inv, NEW w \in Workers, NEW r \in Responses(w), r.status = "range" => r.first <= r.last
  PROVE  Wellformed(r) /\ r \in ResponseType /\ r # None
<1>1. upstream # None => Size[upstream] \in Nat \ {0} /\ upstream \in Entities
  BY SourceAssumption DEF Inv, TypeOK
<1>2. ASSUME r = Response("rejected", None, 1, 0, FALSE)
      PROVE  Wellformed(r) /\ r \in ResponseType
  BY <1>2 DEF Wellformed, ResponseType, Response
<1>3. ASSUME r = Response("not_found", None, 1, 0, FALSE)
      PROVE  Wellformed(r) /\ r \in ResponseType
  BY <1>3 DEF Wellformed, ResponseType, Response
<1>4. ASSUME upstream # None, NEW announced \in BOOLEAN,
             r = Response("full", upstream, 1, Size[upstream], announced)
      PROVE  Wellformed(r) /\ r \in ResponseType
  <2>1. r \in ResponseType
    BY <1>1, <1>4 DEF ResponseType, Response
  <2>2. /\ r.status = "full" /\ r.entity = upstream /\ r.first = 1 /\ r.last = Size[upstream]
    BY <1>4 DEF Response
  <2>. QED  BY <1>1, <1>4, <2>1, <2>2 DEF Wellformed
<1>5. ASSUME upstream # None, NEW announced \in BOOLEAN,
             NEW first \in 1 .. Size[upstream], NEW last \in 1 .. Size[upstream],
             r = Response("range", upstream, first, last, announced)
      PROVE  Wellformed(r) /\ r \in ResponseType
  <2>1. r \in ResponseType
    BY <1>1, <1>5 DEF ResponseType, Response
  <2>2. /\ r.status = "range" /\ r.entity = upstream /\ r.first = first /\ r.last = last
    BY <1>5 DEF Response
  <2>. QED  BY <1>1, <1>5, <2>1, <2>2 DEF Wellformed
<1>6. \/ r = Response("rejected", None, 1, 0, FALSE)
      \/ r = Response("not_found", None, 1, 0, FALSE)
      \/ upstream # None /\ \E announced \in BOOLEAN :
           \/ r = Response("full", upstream, 1, Size[upstream], announced)
           \/ \E first \in 1 .. Size[upstream], last \in 1 .. Size[upstream] :
                r = Response("range", upstream, first, last, announced)
                /\ r.status = "range" /\ r.first = first /\ r.last = last
  BY DEF Responses, Response
<1>7. Wellformed(r) /\ r \in ResponseType
  BY <1>2, <1>3, <1>4, <1>5, <1>6
<1>. QED  BY <1>7, SourceAssumption

(* The headers arrive.                                                     *)
LEMMA RespondStep ==
  ASSUME Inv, NEW w \in Workers, Respond(w)
  PROVE  Inv'
<1>1. PICK r \in Responses(w) : /\ r.status = "range" => r.first <= r.last
                                /\ response' = [response EXCEPT ![w] = r]
  BY DEF Respond
<1>2. Wellformed(r) /\ r \in ResponseType /\ r # None
  BY <1>1, ResponsesWellformed
<1>3. lock = w /\ Transferring(w) /\ response[w] = None /\ stage[w] = "transfer"
  BY DEF Inv, Sound, Working, Respond
<1>4. /\ UNCHANGED <<upstream, final, partial, meta, incoming, lock, marked>>
      /\ UNCHANGED <<stage, token, stale, aborted, prior, plan>>
  BY DEF Respond, files
<1>5. response \in [Workers -> ResponseType \union {None}]
  BY DEF Inv, TypeOK
<1>6. TypeOK' /\ NoStrayTransfers'
  BY <1>1, <1>2, <1>4, <1>5 DEF Inv, TypeOK, NoStrayTransfers
<1>7. \A v \in Workers \ {w} : UNCHANGED Locals(v)
  BY <1>1, <1>4, <1>5 DEF Locals
<1>8. response'[w] = r
  BY <1>1, <1>5
<1>9. Transferring(w)'
  BY <1>2, <1>3, <1>4, <1>8 DEF Transferring, Wellformed, Resuming, Usable
<1>10. Sound(w)'
  BY <1>3, <1>4, <1>9 DEF Sound, Working
<1>. QED  BY <1>4, <1>6, <1>7, <1>10, QuietStep DEF files

-----------------------------------------------------------------------------
(* Steps that change files *)

(* What the holder of the lock does to the files concerns nobody else.     *)
LEMMA HolderStep ==
  ASSUME Inv, NEW w \in Workers, lock = w,
         \A v \in Workers \ {w} : stage'[v] = stage[v] /\ plan'[v] = plan[v],
         TypeOK', ResumableIsPrefix', NoStrayTransfers', Sound(w)'
  PROVE  Inv'
<1>1. \A v \in Workers \ {w} : Sound(v)'
  BY OthersWait DEF Inv
<1>. QED  BY <1>1 DEF Inv

(* The body of a response that may have one.                               *)
LEMMA BodyBytes ==
  ASSUME NEW r, r # None, Wellformed(r)
  PROVE  /\ Len(Body(r)) = r.last - r.first + 1
         /\ \A i \in 1 .. r.last - r.first + 1 : Body(r)[i] = <<r.entity, r.first + i - 1>>
BY SliceBytes DEF Body, Wellformed

(* Another byte arrives: the one the headers announced.                    *)
LEMMA ReceiveStep ==
  ASSUME Inv, NEW w \in Workers, Receive(w)
  PROVE  Inv'
<1> DEFINE r == response[w]
<1>1. lock = w /\ Transferring(w) /\ stage[w] = "transfer"
  BY DEF Inv, Sound, Working, Receive
<1>2. /\ incoming' = Append(incoming, Body(r)[Len(incoming) + 1])
      /\ Len(incoming) < Len(Body(r))
      /\ UNCHANGED <<upstream, final, partial, meta, lock, marked>>
      /\ UNCHANGED <<stage, token, stale, aborted, prior, response, plan>>
  BY DEF Receive, control
<1>3. r # None /\ Wellformed(r)
  <2>1. r # None \/ (r = None /\ incoming = << >>)
    BY <1>1 DEF Transferring
  <2>2. r = None => Len(Body(r)) = 0
    BY DEF Body
  <2>. QED  BY <1>1, <1>2, <2>1, <2>2 DEF Transferring
<1>4. /\ Len(Body(r)) = r.last - r.first + 1
      /\ \A i \in 1 .. r.last - r.first + 1 : Body(r)[i] = <<r.entity, r.first + i - 1>>
  BY <1>3, BodyBytes
<1>5. r.first \in Nat \ {0} /\ r.last \in Nat
  BY <1>3 DEF Wellformed
<1>6. r.entity \in Entities /\ Part(incoming, r.entity, r.first) /\ Len(incoming) \in Nat
  <2>1. CASE incoming = << >>
    <3>1. r.first <= r.last
      BY <1>2, <1>4, <1>5, <2>1
    <3>2. r.entity \in Entities
      BY <1>3, <3>1 DEF Wellformed
    <3>. QED  BY <2>1, <3>2 DEF Part
  <2>2. CASE incoming # << >>
    BY <1>1, <1>3, <2>2 DEF Transferring, Part
  <2>. QED  BY <2>1, <2>2
<1>7. Body(r)[Len(incoming) + 1] = <<r.entity, r.first + Len(incoming)>>
  <2>1. Len(incoming) + 1 \in 1 .. r.last - r.first + 1
    BY <1>2, <1>4, <1>5, <1>6
  <2>2. Body(r)[Len(incoming) + 1] = <<r.entity, r.first + (Len(incoming) + 1) - 1>>
    BY <1>4, <2>1
  <2>3. r.first + (Len(incoming) + 1) - 1 = r.first + Len(incoming)
    BY <1>5, <1>6
  <2>. QED  BY <2>2, <2>3
<1>8. Part(incoming', r.entity, r.first) /\ Len(incoming') = Len(incoming) + 1
  <2>1. Part(Append(incoming, <<r.entity, r.first + Len(incoming)>>), r.entity, r.first)
    BY <1>5, <1>6, PartGrows
  <2>2. incoming' = Append(incoming, <<r.entity, r.first + Len(incoming)>>)
    BY <1>2, <1>7
  <2>3. incoming \in Seq(Bytes)
    BY <1>6 DEF Part
  <2>4. Len(incoming') = Len(incoming) + 1
    BY <2>2, <2>3
  <2>. QED  BY <2>1, <2>2, <2>4
<1>9. Transferring(w)'
  <2>1. r.first + Len(incoming') - 1 <= r.last
    BY <1>2, <1>4, <1>5, <1>6, <1>8
  <2>. QED  BY <1>1, <1>2, <1>3, <1>6, <1>8, <2>1 DEF Transferring, Wellformed, Resuming, Usable
<1>10. TypeOK' /\ NoStrayTransfers'
  <2>1. incoming' \in Seq(Entities \X Nat)
    BY <1>8 DEF Part, Bytes
  <2>. QED  BY <1>2, <2>1 DEF Inv, TypeOK, NoStrayTransfers
<1>11. ResumableIsPrefix'
  BY <1>2 DEF Inv, ResumableIsPrefix, Usable
<1>12. Sound(w)'
  BY <1>1, <1>2, <1>9 DEF Sound, Working
<1>. QED  BY <1>1, <1>2, <1>10, <1>11, <1>12, HolderStep

(* The transfer is over: what the plan will do fits what is on disk.       *)
LEMMA EndStep ==
  ASSUME Inv, NEW w \in Workers, End(w)
  PROVE  Inv'
<1> DEFINE r == response[w]
           e == r.entity
<1>1. lock = w /\ Transferring(w) /\ stage[w] = "transfer"
  BY DEF Inv, Sound, Working, End
<1>2. UNCHANGED <<upstream, files, lock, marked, token, stale, aborted, prior, response>>
  BY DEF End
<1>3. ASSUME NEW operations, Follow(w, "finishing", operations),
             r # None, e \in Entities,
             Publishing(w)' \/ (e \in Strong /\ (Keeping(w)' \/ Appending(w)'))
      PROVE  Inv'
  <2>1. /\ TypeOK' /\ NoStrayTransfers' /\ stage'[w] = "finishing"
        /\ \A v \in Workers \ {w} : UNCHANGED Locals(v)
    BY <1>2, <1>3, FollowStep
  <2>2. response'[w] = r /\ lock' = w
    BY <1>1, <1>2
  <2>3. Sound(w)'
    BY <1>3, <2>1, <2>2 DEF Sound, Working, Finishing
  <2>. QED  BY <1>2, <2>1, <2>3, QuietStep
<1>4. ASSUME r # None
      PROVE  /\ Wellformed(r) /\ r.first \in Nat \ {0} /\ r.last \in Nat
             /\ Len(Body(r)) = r.last - r.first + 1
             /\ Len(incoming) > 0 => e \in Entities /\ Part(incoming, e, r.first)
  <2>1. Wellformed(r)
    BY <1>1, <1>4 DEF Transferring
  <2>2. Len(incoming) > 0 => e \in Entities /\ Part(incoming, e, r.first)
    BY <1>1, <1>4 DEF Transferring
  <2>. QED  BY <1>4, <2>1, <2>2, BodyBytes DEF Wellformed
<1>5. ASSUME Continues(w)
      PROVE  /\ r # None /\ e \in Strong /\ Continuing(w) /\ Len(incoming) \in Nat \ {0}
             /\ Len(partial) = meta.downloaded /\ meta.downloaded \in Nat
             /\ r.first = meta.downloaded + 1 /\ r.last = Size[e] /\ r.status = "range"
  <2>1. /\ r # None /\ r.status = "range" /\ prior[w] # None /\ e = prior[w].etag
        /\ r.first = prior[w].downloaded + 1 /\ r.last = Size[e] /\ Len(incoming) > 0
    BY <1>5 DEF Continues, Status
  <2>2. prior[w] \in MetaType /\ prior[w] = meta /\ Usable(partial, meta)
    BY <1>1, <2>1 DEF Transferring, Resuming
  <2>3. /\ meta.etag \in Strong /\ meta.downloaded \in Nat
        /\ Len(partial) = meta.downloaded
    BY <2>2 DEF MetaType, Usable
  <2>4. partial = Slice(e, 1, meta.downloaded) /\ e \in Entities
    BY <2>1, <2>2, <2>3, SourceAssumption DEF Inv, ResumableIsPrefix
  <2>5. Part(partial, e, 1)
    <3>1. meta.downloaded >= 1 - 1 /\ 1 \in Nat \ {0}
      BY <2>3
    <3>2. Part(Slice(e, 1, meta.downloaded), e, 1)
      BY <2>3, <2>4, <3>1, SliceIsPart
    <3>. QED  BY <2>4, <3>2
  <2>6. Part(incoming, e, r.first) /\ Len(incoming) \in Nat
    BY <1>4, <2>1 DEF Part
  <2>7. Part(incoming, e, 1 + Len(partial))
    BY <2>1, <2>2, <2>3, <2>6
  <2>. QED  BY <2>1, <2>2, <2>3, <2>5, <2>6, <2>7 DEF Continuing
<1>6. CASE \/ Follow(w, "finishing", DropIncoming) \/ Follow(w, "finishing", DropAll)
           \/ Follow(w, "finishing",
                     <<"drop_incoming", "drop_partial", "drop_meta", "release", "mark">>)
  BY <1>1, <1>2, <1>6, ClearStep DEF Clearing, DropIncoming, DropAll
<1>7. ASSUME Keepable(w),
             Follow(w, "finishing", <<"drop_partial", "drop_meta", "keep_incoming", "save_meta", "release">>)
      PROVE  Inv'
  <2>1. r # None /\ r.status = "full" /\ e \in Strong /\ Len(incoming) > 0
    BY <1>7 DEF Keepable, Status
  <2>2. Part(incoming, e, 1) /\ e \in Entities
    BY <1>4, <2>1 DEF Wellformed
  <2>3. plan'[w] = <<"drop_partial", "drop_meta", "keep_incoming", "save_meta", "release">>
    BY <1>2, <1>7, FollowStep
  <2>4. Keeping(w)'
    BY <1>2, <2>2, <2>3 DEF Keeping, files
  <2>. QED  BY <1>3, <1>7, <2>1, <2>2, <2>4
<1>8. ASSUME Continues(w),
             Follow(w, "finishing", <<"append", "save_meta", "drop_incoming", "release">>)
      PROVE  Inv'
  <2>1. plan'[w] = <<"append", "save_meta", "drop_incoming", "release">>
    BY <1>2, <1>8, FollowStep
  <2>2. Continuing(w) /\ Len(incoming) > 0 /\ Len(partial) = meta.downloaded
    BY <1>5, <1>8
  <2>3. Appending(w)'
    BY <1>2, <2>1, <2>2 DEF Appending, Continuing, files
  <2>4. r # None /\ e \in Strong /\ e \in Entities
    BY <1>5, <1>8, SourceAssumption
  <2>. QED  BY <1>3, <1>8, <2>3, <2>4
<1>9. ASSUME CompleteFull(w) \/ (Continues(w) /\ Len(incoming) = Len(Body(r))),
             Follow(w, "finishing", Publish)
      PROVE  Inv'
  <2>1. /\ plan'[w] = <<"publish", "drop_incoming", "drop_partial", "drop_meta", "release">>
        /\ final' = None
    BY <1>1, <1>2, <1>9, FollowStep DEF Transferring, files, Publish
  <2>2. CASE Continues(w) /\ Len(incoming) = Len(Body(r))
    <3>1. /\ r # None /\ e \in Entities /\ Continuing(w) /\ r.status = "range"
          /\ Len(partial) = meta.downloaded /\ meta.downloaded \in Nat
          /\ r.first = meta.downloaded + 1 /\ r.last = Size[e]
      BY <1>5, <2>2, SourceAssumption
    <3>2. Size[e] \in Nat
      BY <3>1, SourceAssumption
    <3>3. Len(partial) + Len(incoming) = Size[e]
      BY <1>4, <2>2, <3>1, <3>2
    <3>4. Publishing(w)'
      BY <1>2, <2>1, <3>1, <3>3 DEF Publishing, Continuing, files
    <3>. QED  BY <1>3, <1>9, <3>1, <3>4
  <2>3. CASE CompleteFull(w)
    <3>1. /\ r # None /\ r.status = "full" /\ Len(incoming) > 0
          /\ r.announced => Len(incoming) = Len(Body(r))
      BY <2>3 DEF CompleteFull, Status
    <3>2. e \in Entities /\ r.first = 1 /\ r.last = Size[e] /\ Size[e] \in Nat \ {0}
      BY <1>4, <3>1, SourceAssumption DEF Wellformed
    <3>3. Part(incoming, e, 1) /\ Len(incoming) \in Nat
      BY <1>4, <3>1, <3>2 DEF Part
    <3>4. Len(incoming) <= Size[e]
      BY <1>1, <3>1, <3>2, <3>3 DEF Transferring
    <3>5. Len(incoming) = Size[e] \/ ~r.announced
      BY <1>4, <3>1, <3>2
    <3>6. Publishing(w)'
      BY <1>2, <2>1, <3>1, <3>2, <3>3, <3>4, <3>5 DEF Publishing, files
    <3>. QED  BY <1>3, <1>9, <3>1, <3>2, <3>6
  <2>. QED  BY <1>9, <2>2, <2>3
<1>10. \/ Follow(w, "finishing", DropIncoming) \/ Follow(w, "finishing", DropAll)
       \/ Follow(w, "finishing",
                 <<"drop_incoming", "drop_partial", "drop_meta", "release", "mark">>)
       \/ Follow(w, "finishing", Interrupted(w))
       \/ Follow(w, "finishing", Complete(w))
  BY DEF End
<1>11. CASE Follow(w, "finishing", Interrupted(w))
  BY <1>6, <1>7, <1>8, <1>11 DEF Interrupted
<1>12. CASE Follow(w, "finishing", Complete(w))
  BY <1>6, <1>9, <1>12 DEF Complete
<1>. QED  BY <1>6, <1>10, <1>11, <1>12

-----------------------------------------------------------------------------
(* File operations *)

(* One operation of the holder of the lock, and the rest of the plan ahead.*)
LEMMA OperationStep ==
  ASSUME Inv, NEW w \in Workers, lock = w, stage[w] \in {"preparing", "finishing"},
         plan' = [plan EXCEPT ![w] = Tail(@)],
         UNCHANGED <<upstream, marked, stage, token, stale, aborted, prior, response>>,
         lock' \in {w, None},
         final' = None \/ final' \in Seq(Bytes), partial' = None \/ partial' \in Seq(Bytes),
         incoming' = None \/ incoming' \in Seq(Bytes), meta' \in MetaType \union {None},
         ResumableIsPrefix', Sound(w)'
  PROVE  Inv'
<1>1. /\ \A v \in Workers \ {w} : plan'[v] = plan[v]
      /\ DOMAIN plan' = Workers
  BY DEF Inv, TypeOK
<1>2. TypeOK'
  BY <1>1 DEF Inv, TypeOK, Bytes
<1>3. NoStrayTransfers'
  BY DEF Inv, NoStrayTransfers
<1>. QED  BY <1>1, <1>2, <1>3, HolderStep

(* Files that are dropped or left alone make nothing resumable.            *)
LEMMA DroppedIsNotResumed ==
  ASSUME Inv, partial' \in {partial, None}, meta' \in {meta, None}, final' = final
  PROVE  ResumableIsPrefix'
BY DEF Inv, ResumableIsPrefix, Usable

(* The types of the files.                                                 *)
LEMMA FileTypes ==
  ASSUME Inv
  PROVE  /\ final = None \/ final \in Seq(Bytes)
         /\ partial = None \/ partial \in Seq(Bytes)
         /\ incoming = None \/ incoming \in Seq(Bytes)
         /\ meta \in MetaType \union {None}
         /\ DOMAIN plan = Workers
BY DEF Inv, TypeOK, Bytes

(* What each operation does.                                               *)
LEMMA Operations ==
  ASSUME NEW w, NEW operation, Succeed(w, operation)
  PROVE  /\ operation \in Drops =>
              /\ partial' = IF operation = "drop_partial" THEN None ELSE partial
              /\ meta' = IF operation = "drop_meta" THEN None ELSE meta
              /\ incoming' = IF operation = "drop_incoming" THEN None ELSE incoming
              /\ UNCHANGED <<final, lock, marked>>
         /\ operation = "open_incoming" =>
              incoming' = << >> /\ UNCHANGED <<final, partial, meta, lock, marked>>
         /\ operation = "keep_incoming" =>
              /\ partial' = incoming /\ incoming' = None
              /\ UNCHANGED <<final, meta, lock, marked>>
         /\ operation = "append" =>
              /\ partial' = partial \o incoming
              /\ UNCHANGED <<final, meta, incoming, lock, marked>>
         /\ operation = "save_meta" =>
              /\ meta' = Description(w)
              /\ UNCHANGED <<final, partial, incoming, lock, marked>>
         /\ operation = "publish" =>
              /\ final' = IF Status(response[w]) = "range" THEN partial \o incoming ELSE incoming
              /\ UNCHANGED <<partial, meta, incoming, lock, marked>>
         /\ operation = "release" =>
              lock' = None /\ UNCHANGED <<final, partial, meta, incoming, marked>>
         /\ operation = "mark" =>
              /\ marked' = [marked EXCEPT ![ProcessOf[w]] = TRUE]
              /\ UNCHANGED <<final, partial, meta, incoming, lock>>
BY DEF Succeed, DropFile, Drops, files

(* The operation that is next succeeds, and others follow.                 *)
Goes(w) ==
  /\ Succeed(w, Head(plan[w]))
  /\ plan' = [plan EXCEPT ![w] = Tail(@)]
  /\ UNCHANGED <<upstream, stage, token, stale, aborted, prior, response>>

(* Tidying up.                                                             *)
LEMMA ClearingGoes ==
  ASSUME Inv, NEW w \in Workers, lock = w, stage[w] = "finishing", plan[w] \in Clearing, Goes(w),
         Len(plan[w]) # 1
  PROVE  Inv'
<1> DEFINE operation == Head(plan[w])
<1>1. /\ Succeed(w, operation) /\ plan' = [plan EXCEPT ![w] = Tail(@)]
      /\ UNCHANGED <<upstream, stage, token, stale, aborted, prior, response>>
  BY DEF Goes
<1>2. \/ operation \in Drops /\ Tail(plan[w]) \in Clearing
      \/ operation = "release" /\ Tail(plan[w]) = <<"mark">>
  BY ClearingSteps
<1>3. plan'[w] = Tail(plan[w]) /\ stage'[w] = "finishing"
  BY <1>1, FileTypes
<1>4. CASE operation \in Drops /\ Tail(plan[w]) \in Clearing
  <2>1. /\ partial' \in {partial, None} /\ meta' \in {meta, None}
        /\ incoming' \in {incoming, None} /\ UNCHANGED <<final, lock, marked>>
    BY <1>1, <1>4, Operations
  <2>2. Sound(w)'
    BY <1>3, <1>4, <2>1 DEF Sound, Working, Finishing
  <2>3. ResumableIsPrefix'
    BY <2>1, DroppedIsNotResumed
  <2>. QED  BY <1>1, <2>1, <2>2, <2>3, FileTypes, OperationStep
<1>5. CASE operation = "release" /\ Tail(plan[w]) = <<"mark">>
  <2>1. lock' = None /\ UNCHANGED <<final, partial, meta, incoming, marked>>
    BY <1>1, <1>5, Operations
  <2>2. Sound(w)'
    BY <1>3, <1>5 DEF Sound
  <2>3. ResumableIsPrefix'
    BY <2>1, DroppedIsNotResumed
  <2>. QED  BY <1>1, <2>1, <2>2, <2>3, FileTypes, OperationStep
<1>. QED  BY <1>2, <1>4, <1>5

(* Preparing the incoming file.                                            *)
LEMMA PreparingGoes ==
  ASSUME Inv, NEW w \in Workers, lock = w, stage[w] = "preparing", Preparing(w), Goes(w),
         plan[w] # << >>
  PROVE  Inv'
<1> DEFINE operation == Head(plan[w])
<1>1. /\ Succeed(w, operation) /\ plan' = [plan EXCEPT ![w] = Tail(@)]
      /\ UNCHANGED <<upstream, stage, token, stale, aborted, prior, response>>
  BY DEF Goes
<1>2. plan'[w] = Tail(plan[w]) /\ stage'[w] = "preparing" /\ final = None
  BY <1>1, FileTypes DEF Preparing
<1>3. ASSUME /\ partial' \in {partial, None} /\ meta' \in {meta, None}
             /\ incoming' \in {incoming, None, << >>} /\ UNCHANGED <<final, lock, marked>>,
             Preparing(w)'
      PROVE  Inv'
  <2>1. Sound(w)'
    BY <1>2, <1>3 DEF Sound, Working
  <2>2. ResumableIsPrefix'
    BY <1>3, DroppedIsNotResumed
  <2>3. << >> \in Seq(Bytes)
    OBVIOUS
  <2>. QED  BY <1>1, <1>3, <2>1, <2>2, <2>3, FileTypes, OperationStep
<1>4. CASE /\ prior[w] = None
           /\ plan[w] = <<"drop_partial", "drop_meta", "drop_incoming", "open_incoming">>
  <2>1. operation = "drop_partial" /\ Tail(plan[w]) = <<"drop_meta", "drop_incoming", "open_incoming">>
    BY <1>4
  <2>2. partial' = None /\ meta' = meta /\ incoming' = incoming /\ UNCHANGED <<final, lock, marked>>
    BY <1>1, <2>1, Operations DEF Drops
  <2>3. Preparing(w)'
    BY <1>1, <1>2, <1>4, <2>1, <2>2 DEF Preparing
  <2>. QED  BY <1>3, <2>2, <2>3
<1>5. CASE prior[w] = None /\ plan[w] = <<"drop_meta", "drop_incoming", "open_incoming">>
  <2>1. operation = "drop_meta" /\ Tail(plan[w]) = <<"drop_incoming", "open_incoming">>
    BY <1>5
  <2>2. partial' = partial /\ meta' = None /\ incoming' = incoming /\ UNCHANGED <<final, lock, marked>>
    BY <1>1, <2>1, Operations DEF Drops
  <2>3. Preparing(w)'
    BY <1>1, <1>2, <1>5, <2>1, <2>2 DEF Preparing, Resuming
  <2>. QED  BY <1>3, <2>2, <2>3
<1>6. CASE Resuming(w) /\ plan[w] = <<"drop_incoming", "open_incoming">>
  <2>1. operation = "drop_incoming" /\ Tail(plan[w]) = <<"open_incoming">>
    BY <1>6
  <2>2. partial' = partial /\ meta' = meta /\ incoming' = None /\ UNCHANGED <<final, lock, marked>>
    BY <1>1, <2>1, Operations DEF Drops
  <2>3. Preparing(w)'
    BY <1>1, <1>2, <1>6, <2>1, <2>2 DEF Preparing, Resuming, Usable
  <2>. QED  BY <1>3, <2>2, <2>3
<1>7. CASE Resuming(w) /\ plan[w] = <<"open_incoming">>
  <2>1. operation = "open_incoming" /\ Tail(plan[w]) = << >>
    BY <1>7
  <2>2. partial' = partial /\ meta' = meta /\ incoming' = << >> /\ UNCHANGED <<final, lock, marked>>
    BY <1>1, <2>1, Operations
  <2>3. Preparing(w)'
    BY <1>1, <1>2, <1>7, <2>1, <2>2 DEF Preparing, Resuming, Usable
  <2>. QED  BY <1>3, <2>2, <2>3
<1>. QED  BY <1>4, <1>5, <1>6, <1>7 DEF Preparing

(* An interrupted response becomes the partial.                            *)
LEMMA KeepingGoes ==
  ASSUME Inv, NEW w \in Workers, lock = w, stage[w] = "finishing", Goes(w),
         response[w] # None, response[w].entity \in Strong, Keeping(w)
  PROVE  Inv'
<1> DEFINE operation == Head(plan[w])
           e == response[w].entity
<1>1. /\ Succeed(w, operation) /\ plan' = [plan EXCEPT ![w] = Tail(@)]
      /\ UNCHANGED <<upstream, stage, token, stale, aborted, prior, response>>
  BY DEF Goes
<1>2. plan'[w] = Tail(plan[w]) /\ stage'[w] = "finishing" /\ response'[w] = response[w]
  BY <1>1, FileTypes
<1>3. e \in Strong /\ e \in Entities /\ Part(incoming, e, 1)
  BY SourceAssumption DEF Keeping
<1>4. ASSUME Keeping(w)' \/ Describing(w)', lock' = lock
      PROVE  Sound(w)'
  BY <1>2, <1>3, <1>4 DEF Sound, Working, Finishing
<1>5. CASE plan[w] = <<"drop_partial", "drop_meta", "keep_incoming", "save_meta", "release">>
  <2>1. /\ operation = "drop_partial"
        /\ Tail(plan[w]) = <<"drop_meta", "keep_incoming", "save_meta", "release">>
    BY <1>5
  <2>2. partial' = None /\ meta' = meta /\ incoming' = incoming /\ UNCHANGED <<final, lock, marked>>
    BY <1>1, <2>1, Operations DEF Drops
  <2>3. Keeping(w)'
    BY <1>2, <1>3, <2>1, <2>2 DEF Keeping
  <2>4. ResumableIsPrefix'
    BY <2>2, DroppedIsNotResumed
  <2>. QED  BY <1>1, <1>4, <2>2, <2>3, <2>4, FileTypes, OperationStep
<1>6. CASE plan[w] = <<"drop_meta", "keep_incoming", "save_meta", "release">>
  <2>1. /\ operation = "drop_meta"
        /\ Tail(plan[w]) = <<"keep_incoming", "save_meta", "release">>
    BY <1>6
  <2>2. partial' = partial /\ meta' = None /\ incoming' = incoming /\ UNCHANGED <<final, lock, marked>>
    BY <1>1, <2>1, Operations DEF Drops
  <2>3. Keeping(w)'
    BY <1>2, <1>3, <2>1, <2>2 DEF Keeping
  <2>4. ResumableIsPrefix'
    BY <2>2, DroppedIsNotResumed
  <2>. QED  BY <1>1, <1>4, <2>2, <2>3, <2>4, FileTypes, OperationStep
<1>7. CASE plan[w] = <<"keep_incoming", "save_meta", "release">> /\ meta = None
  <2>1. operation = "keep_incoming" /\ Tail(plan[w]) = <<"save_meta", "release">>
    BY <1>7
  <2>2. /\ partial' = incoming /\ incoming' = None /\ meta' = None
        /\ UNCHANGED <<final, lock, marked>>
    BY <1>1, <1>7, <2>1, Operations
  <2>3. Describing(w)'
    BY <1>2, <1>3, <2>1, <2>2 DEF Describing
  <2>4. ResumableIsPrefix'
    BY <2>2 DEF Inv, ResumableIsPrefix, Usable
  <2>. QED  BY <1>1, <1>4, <2>2, <2>3, <2>4, FileTypes, OperationStep
<1>. QED  BY <1>5, <1>6, <1>7 DEF Keeping

(* The metadata that describe the partial are saved.                       *)
LEMMA DescribingGoes ==
  ASSUME Inv, NEW w \in Workers, lock = w, stage[w] = "finishing", Goes(w),
         response[w] # None, response[w].entity \in Strong, Describing(w)
  PROVE  Inv'
<1> DEFINE e == response[w].entity
<1>1. /\ Succeed(w, Head(plan[w])) /\ plan' = [plan EXCEPT ![w] = Tail(@)]
      /\ UNCHANGED <<upstream, stage, token, stale, aborted, prior, response>>
  BY DEF Goes
<1>2. plan'[w] = Tail(plan[w]) /\ stage'[w] = "finishing"
  BY <1>1, FileTypes
<1>3. e \in Strong /\ e \in Entities /\ Part(partial, e, 1) /\ Size[e] \in Nat
  BY SourceAssumption DEF Describing
<1>4. Head(plan[w]) = "save_meta" /\ Tail(plan[w]) \in Clearing
  <2>1. CASE plan[w] = <<"save_meta", "release">>
    <3>1. Head(plan[w]) = "save_meta" /\ Tail(plan[w]) = <<"release">>
      BY <2>1
    <3>. QED  BY <3>1 DEF Clearing
  <2>2. CASE plan[w] = <<"save_meta", "drop_incoming", "release">>
    <3>1. Head(plan[w]) = "save_meta" /\ Tail(plan[w]) = <<"drop_incoming", "release">>
      BY <2>2
    <3>. QED  BY <3>1 DEF Clearing
  <2>. QED  BY <2>1, <2>2 DEF Describing
<1>5. meta' = Description(w) /\ UNCHANGED <<final, partial, incoming, lock, marked>>
  BY <1>1, <1>4, Operations
<1>6. /\ meta' \in MetaType
      /\ meta'.etag = e /\ meta'.downloaded = Len(partial) /\ meta'.total = Size[e]
  BY <1>3, <1>5 DEF Description, MetaType, Part
<1>7. partial = Slice(e, 1, Len(partial))
  BY <1>3, PartIsSlice
<1>8. ResumableIsPrefix'
  BY <1>5, <1>6, <1>7 DEF Inv, ResumableIsPrefix
<1>9. Sound(w)'
  BY <1>2, <1>4, <1>5 DEF Sound, Working, Finishing
<1>. QED  BY <1>1, <1>5, <1>6, <1>8, <1>9, FileTypes, OperationStep

(* What arrived is appended; the metadata still describe a shorter file.   *)
LEMMA AppendingGoes ==
  ASSUME Inv, NEW w \in Workers, lock = w, stage[w] = "finishing", Goes(w),
         response[w] # None, response[w].entity \in Strong, Appending(w)
  PROVE  Inv'
<1> DEFINE e == response[w].entity
<1>1. /\ Succeed(w, Head(plan[w])) /\ plan' = [plan EXCEPT ![w] = Tail(@)]
      /\ UNCHANGED <<upstream, stage, token, stale, aborted, prior, response>>
  BY DEF Goes
<1>2. plan'[w] = Tail(plan[w]) /\ stage'[w] = "finishing" /\ response'[w] = response[w]
  BY <1>1, FileTypes
<1>3. /\ Head(plan[w]) = "append"
      /\ Tail(plan[w]) = <<"save_meta", "drop_incoming", "release">>
  BY DEF Appending
<1>4. partial' = partial \o incoming /\ UNCHANGED <<final, meta, incoming, lock, marked>>
  BY <1>1, <1>3, Operations
<1>5. /\ e \in Entities /\ Part(partial, e, 1) /\ Part(incoming, e, 1 + Len(partial))
      /\ Len(incoming) > 0 /\ (meta # None => Len(partial) = meta.downloaded)
  BY SourceAssumption DEF Appending, Continuing
<1>6. Part(partial', e, 1) /\ Len(partial') = Len(partial) + Len(incoming)
  BY <1>4, <1>5, PartsJoin
<1>7. Len(partial) \in Nat /\ Len(incoming) \in Nat /\ partial' \in Seq(Bytes)
  BY <1>5, <1>6 DEF Part
<1>8. meta' # None => Len(partial') # meta'.downloaded
  BY <1>4, <1>5, <1>6, <1>7
<1>9. ResumableIsPrefix'
  BY <1>4, <1>8 DEF Inv, ResumableIsPrefix, Usable
<1>10. Describing(w)'
  BY <1>2, <1>3, <1>6 DEF Describing
<1>11. Sound(w)'
  BY <1>2, <1>4, <1>5, <1>10 DEF Sound, Working, Finishing
<1>. QED  BY <1>1, <1>4, <1>7, <1>9, <1>11, FileTypes, OperationStep

(* The source is published.                                                *)
LEMMA PublishingGoes ==
  ASSUME Inv, NEW w \in Workers, lock = w, stage[w] = "finishing", Goes(w),
         response[w] # None, response[w].entity \in Entities, Publishing(w)
  PROVE  Inv'
<1> DEFINE e == response[w].entity
<1>1. /\ Succeed(w, Head(plan[w])) /\ plan' = [plan EXCEPT ![w] = Tail(@)]
      /\ UNCHANGED <<upstream, stage, token, stale, aborted, prior, response>>
  BY DEF Goes
<1>2. plan'[w] = Tail(plan[w]) /\ stage'[w] = "finishing"
  BY <1>1, FileTypes
<1>3. Head(plan[w]) = "publish" /\ Tail(plan[w]) \in Clearing
  BY DEF Publishing, Clearing
<1>4. /\ final' = IF response[w].status = "range" THEN partial \o incoming ELSE incoming
      /\ UNCHANGED <<partial, meta, incoming, lock, marked>>
  BY <1>1, <1>3, Operations DEF Status
<1>5. final' \in Seq(Bytes)
  BY <1>4, Inv, FileTypes, PartsJoin DEF Publishing, Continuing, Part
<1>7. ResumableIsPrefix'
  BY <1>4 DEF Inv, ResumableIsPrefix, Usable
<1>8. Sound(w)'
  BY <1>2, <1>3, <1>4 DEF Sound, Working, Finishing
<1>. QED  BY <1>1, <1>4, <1>5, <1>7, <1>8, FileTypes, OperationStep

(* A worker whose plan is done leaves.                                     *)
LEMMA LastOperation ==
  ASSUME Inv, NEW w \in Workers, stage[w] = "finishing", Len(plan[w]) = 1,
         plan[w] = <<"mark">> \/ (lock = w /\ plan[w] \in Clearing),
         Succeed(w, Head(plan[w])), Leave({w}), upstream' = upstream
  PROVE  Inv'
<1>1. Sound(w)'
  BY LeaveSound
<1>2. \A v \in Workers \ {w} : UNCHANGED Locals(v)
  BY LeaveOthers
<1>3. CASE plan[w] = <<"mark">>
  <2>1. Head(plan[w]) = "mark"
    BY <1>3
  <2>2. /\ marked' = [marked EXCEPT ![ProcessOf[w]] = TRUE]
        /\ UNCHANGED <<final, partial, meta, incoming, lock>>
    BY <2>1, Operations
  <2>3. marked' \in [Processes -> BOOLEAN] /\ lock' \in Workers \union {None}
    BY <2>2 DEF Inv, TypeOK
  <2>4. TypeOK' /\ NoStrayTransfers'
    BY <2>2, <2>3, LeaveType DEF files
  <2>. QED  BY <1>1, <1>2, <2>2, <2>4, QuietStep DEF files
<1>4. CASE lock = w /\ plan[w] \in Clearing
  <2>1. Head(plan[w]) = "release"
    BY <1>4, ClearingSteps
  <2>2. lock' = None /\ UNCHANGED <<final, partial, meta, incoming, marked>>
    BY <2>1, Operations
  <2>3. marked' \in [Processes -> BOOLEAN]
    BY <2>2 DEF Inv, TypeOK
  <2>4. TypeOK' /\ ResumableIsPrefix' /\ NoStrayTransfers'
    BY <2>2, <2>3, LeaveType DEF files
  <2>. QED  BY <1>1, <1>2, <1>4, <2>4, HolderStep DEF Locals
<1>. QED  BY <1>3, <1>4

(* One file operation of a worker, done or failed.                         *)
LEMMA DoStep ==
  ASSUME Inv, NEW w \in Workers, Do(w)
  PROVE  Inv'
<1>1. plan[w] # << >>
  BY DEF Do
<1>2. \/ stage[w] = "finishing" /\ plan[w] = <<"mark">>
      \/ lock = w /\ stage[w] = "preparing" /\ Preparing(w)
      \/ lock = w /\ stage[w] = "finishing" /\ Finishing(w)
  BY <1>1 DEF Inv, Sound, Working, Transferring
<1>3. CASE /\ Head(plan[w]) \in {"open_incoming", "keep_incoming", "append", "save_meta", "publish"}
           /\ Follow(w, "finishing", Recovery(w, Head(plan[w])))
           /\ UNCHANGED <<upstream, files, lock, marked, token, stale, aborted, prior, response>>
  <2>1. plan[w] # <<"mark">>
    BY <1>3
  <2>. QED  BY <1>2, <1>3, <2>1, RecoveryClears, ClearStep
<1>4. CASE /\ stage[w] = "finishing" /\ Len(plan[w]) = 1
           /\ Succeed(w, Head(plan[w])) /\ Leave({w}) /\ upstream' = upstream
  <2>1. plan[w] = <<"mark">> \/ (lock = w /\ plan[w] \in Clearing)
    <3>1. ~Publishing(w)
      BY <1>4 DEF Publishing
    <3>2. ~Keeping(w)
      BY <1>4 DEF Keeping
    <3>3. ~Appending(w)
      BY <1>4 DEF Appending
    <3>4. ~Describing(w)
      BY <1>4 DEF Describing
    <3>. QED  BY <1>2, <1>4, <3>1, <3>2, <3>3, <3>4 DEF Finishing
  <2>. QED  BY <1>4, <2>1, LastOperation
<1>5. CASE Goes(w) /\ ~(stage[w] = "finishing" /\ Len(plan[w]) = 1)
  <2>1. CASE lock = w /\ stage[w] = "preparing" /\ Preparing(w)
    BY <1>1, <1>5, <2>1, PreparingGoes
  <2>2. CASE lock = w /\ stage[w] = "finishing" /\ Finishing(w)
    BY <1>5, <2>2, SourceAssumption, ClearingGoes, KeepingGoes, AppendingGoes, DescribingGoes,
       PublishingGoes DEF Finishing
  <2>3. ~(stage[w] = "finishing" /\ plan[w] = <<"mark">>)
    BY <1>5
  <2>. QED  BY <1>2, <2>1, <2>2, <2>3
<1>. QED  BY <1>3, <1>4, <1>5 DEF Do, Goes

-----------------------------------------------------------------------------
(* Cancellation, deletion, crashes, the world *)

(* The flight of a worker is cancelled, or its poll aborts the reply.      *)
LEMMA CancelStep ==
  ASSUME Inv, NEW w \in Workers, CancelFlight(w) \/ PollToken(w)
  PROVE  Inv'
<1>1. /\ UNCHANGED <<upstream, final, partial, meta, incoming, lock, marked>>
      /\ UNCHANGED <<stage, stale, prior, response, plan>>
      /\ \/ token' = [token EXCEPT ![w] = TRUE] /\ aborted' = aborted
         \/ token' = token /\ aborted' = [aborted EXCEPT ![w] = TRUE]
  BY DEF CancelFlight, PollToken, files
<1>2. TypeOK' /\ NoStrayTransfers'
  BY <1>1 DEF Inv, TypeOK, NoStrayTransfers
<1>3. \A v \in Workers : UNCHANGED Locals(v)
  BY <1>1 DEF Locals
<1>4. Sound(w)'
  BY <1>1, <1>3, Unaffected DEF Inv, files
<1>. QED  BY <1>1, <1>2, <1>3, <1>4, QuietStep DEF files

(* All transfers of a process are cancelled: those it has are aborted.     *)
LEMMA CancelUpstreamStep ==
  ASSUME Inv, NEW p \in Processes, CancelUpstream(p)
  PROVE  Inv'
<1>1. /\ UNCHANGED <<upstream, final, partial, meta, incoming, lock, marked>>
      /\ UNCHANGED <<stage, token, prior, response, plan>>
      /\ stale' = [w \in Workers |-> stale[w] \/ (ProcessOf[w] = p /\ stage[w] # "idle")]
      /\ aborted' = [w \in Workers |->
           aborted[w] \/ (ProcessOf[w] = p /\ stage[w] = "transfer")]
  BY DEF CancelUpstream, files
<1>2. TypeOK' /\ NoStrayTransfers'
  BY <1>1 DEF Inv, TypeOK, NoStrayTransfers
<1>3. ResumableIsPrefix'
  BY <1>1 DEF Inv, ResumableIsPrefix, Usable
<1>4. \A v \in Workers : Sound(v)'
  BY <1>1, Unaffected DEF Inv, Locals, files
<1>. QED  BY <1>2, <1>3, <1>4 DEF Inv

(* A published source is deleted; what a worker is about to publish is not *)
(* concerned.                                                              *)
LEMMA DeleteStep ==
  ASSUME Inv, NEW p \in Processes, DeleteSource(p)
  PROVE  Inv'
<1>1. /\ UNCHANGED <<upstream, partial, meta, incoming, lock, stage, token, stale, aborted>>
      /\ UNCHANGED <<prior, response, plan>>
      /\ final' \in {final, None} /\ marked' = [marked EXCEPT ![p] = FALSE]
  BY DEF DeleteSource, control
<1>2. TypeOK' /\ NoStrayTransfers'
  BY <1>1 DEF Inv, TypeOK, NoStrayTransfers
<1>3. ResumableIsPrefix'
  BY <1>1 DEF Inv, ResumableIsPrefix, Usable
<1>4. ASSUME NEW v \in Workers
      PROVE  Sound(v)'
  <2>1. CASE final' = final
    BY <1>1, <2>1, Unaffected DEF Inv, Locals, files
  <2>2. CASE final' = None
    <3>1. Sound(v)
      BY DEF Inv
    <3>2. Preparing(v) => Preparing(v)'
      BY <1>1, <2>2 DEF Preparing, Resuming, Usable
    <3>3. Transferring(v) => Transferring(v)'
      BY <1>1, <2>2 DEF Transferring, Resuming, Usable
    <3>4. Publishing(v) => Publishing(v)'
      BY <1>1, <2>2 DEF Publishing, Continuing
    <3>5. Keeping(v)' = Keeping(v) /\ Appending(v)' = Appending(v) /\ Describing(v)' = Describing(v)
      BY <1>1 DEF Keeping, Appending, Describing, Continuing
    <3>6. Finishing(v) => Finishing(v)'
      BY <1>1, <3>4, <3>5 DEF Finishing
    <3>7. Resuming(v)' = Resuming(v)
      BY <1>1 DEF Resuming, Usable
    <3>. QED  BY <1>1, <2>2, <3>1, <3>2, <3>3, <3>6, <3>7 DEF Sound, Working
  <2>. QED  BY <1>1, <2>1, <2>2
<1>. QED  BY <1>2, <1>3, <1>4 DEF Inv

(* A process crashes: what it left on disk was sound.                      *)
LEMMA CrashStep ==
  ASSUME Inv, NEW p \in Processes, Crash(p)
  PROVE  Inv'
<1> DEFINE gone == {w \in Workers : ProcessOf[w] = p}
<1>1. /\ Leave(gone) /\ lock' = (IF lock \in gone THEN None ELSE lock)
      /\ marked' = [marked EXCEPT ![p] = FALSE] /\ UNCHANGED <<upstream, files>>
  BY DEF Crash
<1>2. lock' \in Workers \union {None} /\ marked' \in [Processes -> BOOLEAN]
  BY <1>1 DEF Inv, TypeOK
<1> HIDE DEF gone
<1>3. TypeOK' /\ ResumableIsPrefix' /\ NoStrayTransfers'
  BY <1>1, <1>2, LeaveType
<1>4. \A v \in Workers \intersect gone : Sound(v)'
  BY <1>1, LeaveSound
<1>5. ASSUME NEW v \in Workers \ gone
      PROVE  Sound(v)'
  <2>1. UNCHANGED Locals(v) /\ Sound(v)
    BY <1>1, LeaveOthers DEF Inv
  <2>2. CASE lock = v
    BY <1>1, <2>1, <2>2, Unaffected
  <2>3. CASE lock # v
    BY <2>1, <2>3 DEF Sound, Locals
  <2>. QED  BY <2>2, <2>3
<1>. QED  BY <1>3, <1>4, <1>5 DEF Inv

(* The memory of a 404 expires, or upstream changes.                       *)
LEMMA WorldStep ==
  ASSUME Inv, UpstreamChanges \/ \E p \in Processes : Expire(p)
  PROVE  Inv'
<1>1. /\ UNCHANGED <<final, partial, meta, incoming, lock, stage, token, stale, aborted>>
      /\ UNCHANGED <<prior, response, plan>>
      /\ upstream' \in Entities \union {None}
      /\ marked' = marked \/ \E p \in Processes : marked' = [marked EXCEPT ![p] = FALSE]
  BY DEF UpstreamChanges, Expire, control, files, Inv, TypeOK
<1>2. TypeOK' /\ NoStrayTransfers'
  BY <1>1 DEF Inv, TypeOK, NoStrayTransfers
<1>3. ResumableIsPrefix'
  BY <1>1 DEF Inv, ResumableIsPrefix, Usable
<1>4. \A v \in Workers : Sound(v)'
  BY <1>1, Unaffected DEF Inv, Locals, files
<1>. QED  BY <1>2, <1>3, <1>4 DEF Inv

-----------------------------------------------------------------------------
(* Theorems *)

(* At first there are no files and nobody is at work.                      *)
LEMMA InitInv == Init => Inv
BY DEF Init, Inv, TypeOK, ResumableIsPrefix, Usable, NoStrayTransfers, Sound

(* Every step keeps the invariant.                                         *)
LEMMA NextInv == Inv /\ [Next]_vars => Inv'
<1> SUFFICES ASSUME Inv, [Next]_vars PROVE Inv'
  OBVIOUS
<1>1. CASE UNCHANGED vars
  <2>1. /\ UNCHANGED <<upstream, final, partial, meta, incoming, lock, marked, stage, token>>
        /\ UNCHANGED <<stale, aborted, prior, response, plan>>
    BY <1>1 DEF vars, files, control
  <2>2. TypeOK' /\ NoStrayTransfers' /\ ResumableIsPrefix'
    BY <2>1 DEF Inv, TypeOK, NoStrayTransfers, ResumableIsPrefix, Usable
  <2>3. \A v \in Workers : Sound(v)'
    BY <2>1, Unaffected DEF Inv, Locals, files
  <2>. QED  BY <2>2, <2>3 DEF Inv
<1>2. CASE Next
  BY <1>2, BeginStep, StopWaitingStep, TakeLockStep, CheckStep, SendStep, RegisterStep,
     RespondStep, ReceiveStep, EndStep, DoStep, CancelStep, CancelUpstreamStep, DeleteStep,
     CrashStep, WorldStep DEF Next, Step
<1>. QED  BY <1>1, <1>2

(* The invariant holds in every reachable state.                           *)
THEOREM Invariance == Safe => []Inv
BY InitInv, NextInv, PTL DEF Safe

(* Every variable keeps its type.                                          *)
THEOREM TypeCorrect == Safe => []TypeOK
<1>1. Inv => TypeOK
  BY DEF Inv
<1>. QED  BY <1>1, Invariance, PTL

(* What the next attempt would resume is a prefix of the entity its        *)
(* metadata names (loadCopernicusPartialState).                            *)
THEOREM ResumablePrefix == Safe => []ResumableIsPrefix
<1>1. Inv => ResumableIsPrefix
  BY DEF Inv
<1>. QED  BY <1>1, Invariance, PTL

(* A transfer that cancelUpstreamDownloads came after, or before its       *)
(* registration, is aborted.                                               *)
THEOREM StrayTransfers == Safe => []NoStrayTransfers
<1>1. Inv => NoStrayTransfers
  BY DEF Inv
<1>. QED  BY <1>1, Invariance, PTL

(* A source is published by the holder of the lock only, and from what its *)
(* plan was made for.                                                      *)
LEMMA OnlyPublished ==
  ASSUME Inv, [Next]_vars, final' # final, final' # None
  PROVE  \E w \in Workers :
           /\ lock = w /\ Publishing(w)
           /\ response[w] # None /\ response[w].entity \in Entities
           /\ final' = IF response[w].status = "range" THEN partial \o incoming ELSE incoming
<1>1. PICK w \in Workers : Do(w)
  <2>1. CASE UNCHANGED vars
    BY <2>1 DEF vars, files
  <2>2. CASE Next /\ ~(\E w \in Workers : Do(w))
    BY <2>2 DEF Next, Step, Begin, StopWaiting, TakeLock, Check, Send, Register, Respond, Receive,
                End, CancelFlight, PollToken, CancelUpstream, DeleteSource, Expire, Crash,
                UpstreamChanges, files
  <2>. QED  BY <2>1, <2>2
<1>2. plan[w] # << >> /\ Succeed(w, Head(plan[w]))
  BY <1>1 DEF Do, files
<1>3. Head(plan[w]) = "publish"
  BY <1>2 DEF Succeed, DropFile, files
<1>4. plan[w] # <<"mark">> /\ plan[w] \notin Clearing
  BY <1>3, ClearingSteps DEF Drops
<1>5. ~Keeping(w) /\ ~Appending(w) /\ ~Describing(w)
  BY <1>3 DEF Keeping, Appending, Describing
<1>6. lock = w /\ Working(w)
  BY <1>2, <1>4 DEF Inv, Sound
<1>7. ~Preparing(w)
  BY <1>2, <1>3 DEF Preparing
<1>8. stage[w] = "finishing" /\ Finishing(w)
  BY <1>2, <1>6, <1>7 DEF Working, Transferring
<1>9. /\ Publishing(w) /\ response[w] # None /\ response[w].entity \in Entities
  BY <1>4, <1>5, <1>8 DEF Finishing
<1>10. final' = IF response[w].status = "range" THEN partial \o incoming ELSE incoming
  BY <1>2, <1>3, <1>9, Operations DEF Status
<1>. QED  BY <1>6, <1>9, <1>10

(* What is published is a whole copy of one upstream entity, or the        *)
(* beginning of one that came in full without its length                   *)
(* (downloadSourceTile, publishCopernicusSource).                          *)
THEOREM PublishedWhole == Safe => PublishedIsWhole
<1>1. ASSUME Inv, [Next]_vars, final' \notin {final, None}
      PROVE  \E w \in Workers, e \in Entities :
               /\ lock = w
               /\ Len(final') \in 1 .. Size[e] /\ final' = Slice(e, 1, Len(final'))
               /\ Len(final') = Size[e] \/
                    (Status(response[w]) = "full" /\ ~response[w].announced)
  <2>1. PICK w \in Workers :
          /\ lock = w /\ Publishing(w)
          /\ response[w] # None /\ response[w].entity \in Entities
          /\ final' = IF response[w].status = "range" THEN partial \o incoming ELSE incoming
    BY <1>1, OnlyPublished
  <2> DEFINE e == response[w].entity
  <2>2. Size[e] \in Nat \ {0}
    BY <2>1, SourceAssumption
  <2>3. CASE response[w].status = "range"
    <3>1. /\ Part(partial, e, 1) /\ Part(incoming, e, 1 + Len(partial))
          /\ Len(partial) + Len(incoming) = Size[e]
      BY <2>1, <2>3 DEF Publishing, Continuing
    <3>2. Part(final', e, 1) /\ Len(final') = Size[e]
      BY <2>1, <2>3, <3>1, PartsJoin
    <3>3. final' = Slice(e, 1, Len(final'))
      BY <3>2, PartIsSlice
    <3>. QED  BY <2>1, <2>2, <3>2, <3>3
  <2>4. CASE response[w].status # "range"
    <3>1. /\ Part(final', e, 1) /\ Len(final') \in 1 .. Size[e]
          /\ Len(final') = Size[e] \/
               (Status(response[w]) = "full" /\ ~response[w].announced)
      BY <2>1, <2>4 DEF Publishing, Status
    <3>2. final' = Slice(e, 1, Len(final'))
      BY <3>1, PartIsSlice
    <3>. QED  BY <2>1, <3>1, <3>2
  <2>. QED  BY <2>3, <2>4
<1>. QED  BY <1>1, Invariance, PTL DEF Safe, PublishedIsWhole

(* Nothing is published over (the second look under the lock).             *)
THEOREM NothingIsPublishedOver == Safe => PublishedOnce
<1>1. ASSUME Inv, [Next]_vars, final # None
      PROVE  final' \in {final, None}
  BY <1>1, OnlyPublished DEF Publishing
<1>. QED  BY <1>1, Invariance, PTL DEF Safe, PublishedOnce
=============================================================================
