--------------------------- MODULE TileClientProofs ---------------------------
(***************************************************************************)
(* The invariants of TileClient for every build, size limit and response,  *)
(* and the safety part of its refinement of TileRequest.                   *)
(*                                                                         *)
(* The bounds on the buffer and on the time need to know what a transfer   *)
(* in progress has used up: Inv keeps the received bytes below the limit   *)
(* while they are looked at, and counts the ticks of the attempts that are *)
(* over.                                                                   *)
(***************************************************************************)
EXTENDS TileClient, TLAPS

(* What every attempt that ended in a retry has cost.                      *)
Spent(a) == a * (build.overall + build.delay)

(* A reply is active in "transfer" only, and there it is within its limits.*)
Transfer ==
  phase = "transfer" =>
    /\ age <= build.overall
    /\ reply.received <= MaxSize /\ ~ reply.too_large
    /\ ~ cancel_requested
    /\ waited <= Spent(attempt) + age

(* Between two attempts one is left.                                       *)
Delay ==
  phase = "delay" =>
    /\ attempt < build.retries /\ age <= build.delay
    /\ ~ reply.too_large
    /\ waited <= Spent(attempt) + build.overall + age

(* Nothing has happened yet.                                               *)
Start ==
  phase = "idle" =>
    /\ attempt = 0 /\ waited = 0 /\ reply = NoReply /\ ~ cancel_requested

(* The report is what "done" means, and its reason is the first that holds.*)
Reported ==
  /\ (phase = "done") <=> (report # None)
  /\ report = "canceled" <=> (phase = "done" /\ cancel_requested)

Inv ==
  /\ TypeOK /\ BufferIsBounded /\ TooLargeIsFinal /\ WaitIsBounded
  /\ Transfer /\ Delay /\ Start /\ Reported

------------------------------------------------------------------------------
(* Arithmetic of the limits.                                               *)

(* A product grows with its factors.                                       *)
LEMMA Product ==
  \A a, b, c \in Nat : a <= b => a * c \in Nat /\ b * c \in Nat /\ a * c <= b * c
BY SMTT(20)

(* Products over sums.                                                     *)
LEMMA Distributes ==
  \A a, b, c \in Nat : a * (b + c) = a * b + a * c /\ (a + 1) * b = a * b + b
BY SMTT(20)

(* The attempts before the last cost no more than the limit leaves for it. *)
LEMMA LimitLeavesOneAttempt ==
  ASSUME TypeOK
  PROVE  /\ Spent(attempt) \in Nat
         /\ build.overall \in Nat /\ build.delay \in Nat /\ build.silence \in Nat
         /\ Spent(attempt) + build.overall
              <= (build.retries + 1) * build.overall + build.retries * build.delay
         /\ attempt < build.retries =>
              Spent(attempt) + build.overall + build.delay = Spent(attempt + 1)
         /\ attempt < build.retries =>
              Spent(attempt) + build.overall + build.delay
                <= (build.retries + 1) * build.overall + build.retries * build.delay
<1>1. /\ build.retries \in Nat /\ build.overall \in Nat /\ build.delay \in Nat
      /\ build.silence \in Nat
  BY BuildsAssumption DEF TypeOK
<1>2. attempt \in Nat /\ attempt <= build.retries
  BY <1>1 DEF TypeOK
<1> DEFINE o == build.overall
           d == build.delay
           n == build.retries
<1>3. attempt * (o + d) \in Nat /\ n * (o + d) \in Nat /\ attempt * (o + d) <= n * (o + d)
  BY <1>1, <1>2, Product
<1>4. n * (o + d) = n * o + n * d /\ (n + 1) * o = n * o + o
  BY <1>1, Distributes
<1>5. (attempt + 1) * (o + d) = attempt * (o + d) + (o + d)
  BY <1>1, <1>2, Distributes
<1>6. n * o \in Nat /\ n * d \in Nat
  BY <1>1, Product
<1>7. attempt < n => (attempt + 1) * (o + d) <= n * (o + d)
  BY <1>1, <1>2, Product
<1>. QED  BY <1>1, <1>2, <1>3, <1>4, <1>5, <1>6, <1>7 DEF Spent

------------------------------------------------------------------------------
(* What handleReply makes of a finished reply.                             *)

(* The verdict is a tile or a reason, and a cancellation or a size that is *)
(* too large decides it alone.                                             *)
LEMMA Verdicts ==
  ASSUME NEW r, NEW c \in BOOLEAN, NEW e, NEW resp
  PROVE  /\ Verdict(r, c, e, resp) \in Reasons \cup {"tile"}
         /\ Verdict(r, c, e, resp) # None
         /\ Verdict(r, c, e, resp) = "canceled" <=> c
         /\ r.too_large = TRUE /\ ~c => Verdict(r, c, e, resp) = "invalid"
BY NoneAssumption DEF Verdict, Reasons

(* It leaves the transfer in a state that is in order, if the reply is and *)
(* the flag is set as it was told.                                         *)
LEMMA HandleReplyInv ==
  ASSUME Inv, phase = "transfer", NEW r, NEW c \in BOOLEAN, NEW e, NEW resp,
         r \in [received: Nat, total: Totals \cup {0}, too_large: BOOLEAN],
         r.received <= MaxSize + Chunk,
         HandleReply(r, c, e, resp), cancel_requested' = c,
         UNCHANGED <<build, attempt, waited>>
  PROVE  Inv'
<1> DEFINE v == Verdict(r, c, e, resp)
<1>1. /\ v \in Reasons \cup {"tile"} /\ v # None /\ (v = "canceled" <=> c)
      /\ r.too_large = TRUE /\ ~c => v = "invalid"
  BY Verdicts
<1>2. /\ reply' = r /\ quiet' = quiet
      /\ \/ /\ v = "timeout" /\ attempt < build.retries
            /\ phase' = "delay" /\ age' = 0 /\ report' = report
         \/ phase' = "done" /\ report' = v /\ age' = age
  BY DEF HandleReply, MayRetry
<1> HIDE DEF v
<1>3. age \in Nat /\ waited \in Nat /\ age <= build.overall /\ waited <= Spent(attempt) + age
  BY DEF Inv, TypeOK, Transfer
<1>4. report = None
  BY DEF Inv, Reported
<1>5. /\ Spent(attempt) \in Nat /\ build.overall \in Nat /\ build.delay \in Nat
      /\ Spent(attempt)' = Spent(attempt)
  BY LimitLeavesOneAttempt DEF Inv, Spent
<1>6. TypeOK'
  BY <1>1, <1>2 DEF Inv, TypeOK
<1>7. BufferIsBounded' /\ TooLargeIsFinal'
  BY <1>1, <1>2 DEF BufferIsBounded, TooLargeIsFinal
<1>8. WaitIsBounded'
  BY DEF Inv, WaitIsBounded
<1>9. Transfer' /\ Start'
  BY <1>2 DEF Transfer, Start
<1>10. Delay'
  <2>1. CASE phase' = "delay"
    <3>1. v = "timeout" /\ attempt < build.retries /\ age' = 0
      BY <1>2, <2>1
    <3>2. ~ r.too_large
      BY <1>1, <3>1
    <3>. QED  BY <1>2, <1>3, <1>5, <3>1, <3>2 DEF Delay
  <2>2. CASE phase' # "delay"
    BY <2>2 DEF Delay
  <2>. QED  BY <2>1, <2>2
<1>11. Reported'
  BY <1>1, <1>2, <1>4, NoneAssumption DEF Reported
<1>. QED  BY <1>6, <1>7, <1>8, <1>9, <1>10, <1>11 DEF Inv

------------------------------------------------------------------------------
(* A new attempt is in order.                                              *)
LEMMA StartAttemptInv ==
  ASSUME Inv, StartAttempt, cancel_requested' = FALSE, UNCHANGED <<build, report>>,
         attempt' \in Nat, attempt' <= build.retries, waited' = waited,
         waited <= Spent(attempt'), report = None
  PROVE  Inv'
<1>1. /\ phase' = "transfer" /\ reply' = [received |-> 0, total |-> 0, too_large |-> FALSE]
      /\ age' = 0 /\ quiet' = 0
  BY DEF StartAttempt, NoReply
<1>2. build.overall \in Nat /\ build.retries \in Nat /\ waited \in Nat
  BY BuildsAssumption DEF Inv, TypeOK
<1>3. TypeOK'
  <2>1. reply' \in [received: Nat, total: Totals \cup {0}, too_large: BOOLEAN]
    BY <1>1
  <2>2. build' = build /\ report' = report /\ attempt' \in 0 .. build'.retries
    BY <1>2
  <2>3. build' \in Builds /\ report' \in Reasons \cup {"tile", None}
    BY <2>2 DEF Inv, TypeOK
  <2>. QED  BY <1>1, <1>2, <2>1, <2>2, <2>3 DEF TypeOK
<1>4. BufferIsBounded' /\ TooLargeIsFinal'
  BY <1>1, SizesAssumption DEF BufferIsBounded, TooLargeIsFinal
<1>5. WaitIsBounded'
  BY DEF Inv, WaitIsBounded
<1>6. Spent(attempt)' = Spent(attempt')
  BY DEF Spent
<1>7. Transfer'
  <2>1. Spent(attempt') \in Nat
    BY Product, <1>2, BuildsAssumption DEF Spent, Inv, TypeOK
  <2>. QED  BY <1>1, <1>2, <1>6, <2>1, SizesAssumption DEF Transfer
<1>8. Delay' /\ Start'
  BY <1>1 DEF Delay, Start
<1>9. Reported'
  BY <1>1, NoneAssumption DEF Reported
<1>. QED  BY <1>3, <1>4, <1>5, <1>7, <1>8, <1>9 DEF Inv

(* The initial states are in order.                                        *)
LEMMA InitInv == Init => Inv
<1> SUFFICES ASSUME Init PROVE Inv
  OBVIOUS
<1>1. build.retries \in Nat /\ build.overall \in Nat /\ build.delay \in Nat
  BY BuildsAssumption DEF Init
<1>2. TypeOK
  <2>1. reply \in [received: Nat, total: Totals \cup {0}, too_large: BOOLEAN]
    BY DEF Init, NoReply
  <2>2. attempt \in 0 .. build.retries
    BY <1>1 DEF Init
  <2>. QED  BY <2>1, <2>2 DEF Init, TypeOK
<1>3. BufferIsBounded /\ TooLargeIsFinal
  BY SizesAssumption DEF Init, NoReply, BufferIsBounded, TooLargeIsFinal
<1>4. WaitIsBounded
  BY <1>1, <1>2, LimitLeavesOneAttempt DEF Init, WaitIsBounded
<1>5. Transfer /\ Delay /\ Start /\ Reported
  BY NoneAssumption DEF Init, Transfer, Delay, Start, Reported
<1>. QED  BY <1>2, <1>3, <1>4, <1>5 DEF Inv

(* Every step keeps them so.                                               *)
LEMMA NextInv == Inv /\ [Next]_vars => Inv'
<1> SUFFICES ASSUME Inv, [Next]_vars PROVE Inv'
  OBVIOUS
<1>0. TypeOK /\ Transfer /\ Delay /\ Start /\ Reported
  BY DEF Inv
<1>1. /\ build.retries \in Nat /\ build.overall \in Nat /\ build.delay \in Nat
      /\ age \in Nat /\ waited \in Nat /\ attempt \in Nat /\ attempt <= build.retries
  BY <1>0, BuildsAssumption DEF TypeOK
<1>2. CASE Get
  <2>1. attempt = 0 /\ waited = 0 /\ report = None
    BY <1>0, <1>2 DEF Get, Start, Reported
  <2>2. Spent(attempt) \in Nat
    BY <1>0, LimitLeavesOneAttempt
  <2>3. /\ StartAttempt /\ cancel_requested' = FALSE
        /\ build' = build /\ attempt' = attempt /\ report' = report /\ waited' = waited
    BY <1>2 DEF Get
  <2>4. attempt' \in Nat /\ attempt' <= build.retries /\ waited <= Spent(attempt')
    BY <1>1, <2>1, <2>2, <2>3
  <2>. QED  BY <2>1, <2>3, <2>4, StartAttemptInv
<1>3. CASE GetAgain
  <2>1. /\ phase = "delay" /\ age = build.delay /\ attempt' = attempt + 1
        /\ UNCHANGED <<build, cancel_requested, waited>>
    BY <1>3 DEF GetAgain
  <2>2. /\ attempt < build.retries /\ ~ reply.too_large /\ report = None
        /\ waited <= Spent(attempt) + build.overall + build.delay
    BY <1>0, <2>1 DEF Delay, Reported
  <2>3. waited <= Spent(attempt')
    BY <1>0, <2>1, <2>2, LimitLeavesOneAttempt
  <2>4. CASE cancel_requested
    <3>1. phase' = "done" /\ report' = "canceled" /\ UNCHANGED <<reply, age, quiet>>
      BY <1>3, <2>4 DEF GetAgain
    <3>2. TypeOK'
      BY <1>0, <1>1, <2>1, <2>2, <3>1 DEF TypeOK, Reasons
    <3>3. BufferIsBounded' /\ TooLargeIsFinal' /\ WaitIsBounded'
      BY <2>1, <3>1 DEF Inv, BufferIsBounded, TooLargeIsFinal, WaitIsBounded
    <3>4. Transfer' /\ Delay' /\ Start'
      BY <3>1 DEF Transfer, Delay, Start
    <3>5. Reported'
      BY <2>1, <2>4, <3>1, NoneAssumption DEF Reported
    <3>. QED  BY <3>2, <3>3, <3>4, <3>5 DEF Inv
  <2>5. CASE ~ cancel_requested
    <3>1. StartAttempt /\ report' = report /\ build' = build /\ waited' = waited
      BY <1>3, <2>5 DEF GetAgain
    <3>2. cancel_requested' = FALSE
      BY <1>0, <2>1, <2>5 DEF TypeOK
    <3>3. attempt' \in Nat /\ attempt' <= build.retries
      BY <1>1, <2>1, <2>2
    <3>. QED  BY <2>2, <2>3, <3>1, <3>2, <3>3, StartAttemptInv
  <2>. QED  BY <2>4, <2>5
<1>4. CASE TransferEnds
  <2>1. /\ phase = "transfer" /\ UNCHANGED <<build, attempt, cancel_requested, waited>>
        /\ \/ HandleReply(reply, cancel_requested, "overall", None)
           \/ HandleReply(reply, cancel_requested, "aborted", None)
    BY <1>4 DEF TransferEnds
  <2>. QED  BY <1>0, <2>1, HandleReplyInv DEF TypeOK, Inv, BufferIsBounded
<1>5. CASE Tick
  <2>1. /\ \/ phase = "transfer" /\ age < build.overall
           \/ phase = "delay" /\ age < build.delay
        /\ age' = age + 1 /\ quiet' = quiet + 1 /\ waited' = waited + 1
        /\ UNCHANGED <<build, phase, attempt, reply, cancel_requested, report>>
    BY <1>5 DEF Tick
  <2>2. TypeOK'
    BY <1>0, <1>1, <2>1 DEF TypeOK
  <2>3. BufferIsBounded' /\ TooLargeIsFinal'
    BY <2>1 DEF Inv, BufferIsBounded, TooLargeIsFinal
  <2>4. Spent(attempt)' = Spent(attempt) /\ Spent(attempt) \in Nat
    BY <1>0, <2>1, LimitLeavesOneAttempt DEF Spent
  <2>5. Transfer'
    BY <1>0, <1>1, <2>1, <2>4 DEF Transfer
  <2>6. Delay'
    BY <1>0, <1>1, <2>1, <2>4 DEF Delay
  <2>7. Start' /\ Reported'
    BY <1>0, <2>1 DEF Start, Reported
  <2>8. WaitIsBounded'
    <3>1. waited' <= Spent(attempt) + build.overall
             \/ (attempt < build.retries
                 /\ waited' <= Spent(attempt) + build.overall + build.delay)
      BY <1>0, <1>1, <2>1, <2>4 DEF Transfer, Delay
    <3>2. waited' <= (build.retries + 1) * build.overall + build.retries * build.delay
      <4>1. /\ (build.retries + 1) * build.overall \in Nat
            /\ build.retries * build.delay \in Nat
        BY <1>1, Product
      <4> HIDE DEF Spent
      <4>. QED  BY <1>0, <1>1, <2>1, <2>4, <3>1, <4>1, LimitLeavesOneAttempt
    <3>. QED  BY <2>1, <3>2 DEF WaitIsBounded
  <2>. QED  BY <2>2, <2>3, <2>5, <2>6, <2>7, <2>8 DEF Inv
<1>6. CASE Cancel
  <2>1. /\ phase \in {"transfer", "delay"} /\ cancel_requested' = TRUE
        /\ UNCHANGED <<build, attempt, waited>>
    BY <1>6 DEF Cancel
  <2>2. CASE phase = "transfer"
    <3>1. HandleReply(reply, TRUE, "aborted", None)
      BY <1>6, <2>2 DEF Cancel
    <3>. QED  BY <1>0, <2>1, <2>2, <3>1, HandleReplyInv DEF TypeOK, Inv, BufferIsBounded
  <2>3. CASE phase = "delay"
    <3>1. UNCHANGED <<phase, reply, age, quiet, report>>
      BY <1>6, <2>3 DEF Cancel
    <3>2. TypeOK' /\ BufferIsBounded' /\ TooLargeIsFinal' /\ WaitIsBounded'
      BY <2>1, <3>1 DEF Inv, TypeOK, BufferIsBounded, TooLargeIsFinal, WaitIsBounded
    <3>3. Transfer' /\ Start'
      BY <2>3, <3>1 DEF Transfer, Start
    <3>4. Delay'
      BY <1>0, <2>1, <3>1 DEF Delay, Spent
    <3>5. Reported'
      BY <1>0, <2>1, <2>3, <3>1, NoneAssumption DEF Reported
    <3>. QED  BY <3>2, <3>3, <3>4, <3>5 DEF Inv
  <2>. QED  BY <2>1, <2>2, <2>3
<1>7. ASSUME NEW n \in 1 .. Chunk, NEW total \in Totals, Receive(n, total) PROVE Inv'
  <2> DEFINE r == [received |-> reply.received + n, total |-> total,
                   too_large |-> TooLarge(reply.received + n, total)]
  <2>1. phase = "transfer" /\ UNCHANGED <<build, attempt, cancel_requested, waited>>
    BY <1>7 DEF Receive
  <2>2. reply.received \in Nat /\ reply.received <= MaxSize /\ n \in Nat /\ n <= Chunk
    BY <1>0, <2>1, SizesAssumption DEF TypeOK, Transfer
  <2>3. /\ r \in [received: Nat, total: Totals \cup {0}, too_large: BOOLEAN]
        /\ r.received <= MaxSize + Chunk
    BY <2>2, SizesAssumption DEF TooLarge
  <2>4. CASE r.too_large
    <3>1. HandleReply(r, cancel_requested, "aborted", None)
      BY <1>7, <2>4 DEF Receive
    <3>. QED  BY <1>0, <2>1, <2>3, <3>1, HandleReplyInv DEF TypeOK
  <2>5. CASE ~ r.too_large
    <3>1. reply' = r /\ quiet' = 0 /\ UNCHANGED <<phase, age, report>>
      BY <1>7, <2>5 DEF Receive
    <3>2. r.received <= MaxSize
      <4>1. ~ TooLarge(reply.received + n, total)
        BY <2>5
      <4>. QED  BY <2>2, <4>1, SizesAssumption DEF TooLarge
    <3>3. TypeOK'
      BY <1>0, <2>1, <2>3, <3>1 DEF TypeOK
    <3>4. BufferIsBounded' /\ TooLargeIsFinal' /\ WaitIsBounded'
      BY <2>1, <2>3, <2>5, <3>1 DEF Inv, BufferIsBounded, TooLargeIsFinal, WaitIsBounded
    <3>5. Transfer'
      BY <1>0, <2>1, <2>5, <3>1, <3>2 DEF Transfer, Spent
    <3>6. Delay' /\ Start' /\ Reported'
      BY <1>0, <2>1, <3>1 DEF Delay, Start, Reported
    <3>. QED  BY <3>3, <3>4, <3>5, <3>6 DEF Inv
  <2>. QED  BY <2>4, <2>5
<1>8. ASSUME NEW response \in Responses, Finish(response) PROVE Inv'
  <2>1. /\ phase = "transfer" /\ UNCHANGED <<build, attempt, cancel_requested, waited>>
        /\ HandleReply(reply, cancel_requested, "none", response)
    BY <1>8 DEF Finish
  <2>. QED  BY <1>0, <2>1, HandleReplyInv DEF TypeOK, Inv, BufferIsBounded
<1>9. ASSUME NEW error \in {"network", "timeout"}, Break(error) PROVE Inv'
  <2>1. /\ phase = "transfer" /\ UNCHANGED <<build, attempt, cancel_requested, waited>>
        /\ HandleReply(reply, cancel_requested, error, None)
    BY <1>9 DEF Break
  <2>. QED  BY <1>0, <2>1, HandleReplyInv DEF TypeOK, Inv, BufferIsBounded
<1>10. CASE UNCHANGED vars
  BY <1>10 DEF vars, Inv, TypeOK, BufferIsBounded, TooLargeIsFinal, WaitIsBounded,
     Transfer, Delay, Start, Reported, Spent
<1>. QED  BY <1>2, <1>3, <1>4, <1>5, <1>6, <1>7, <1>8, <1>9, <1>10 DEF Next

------------------------------------------------------------------------------
(* Theorems.                                                               *)

(* Every state that is reached is in order.                                *)
THEOREM Invariance == Spec => []Inv
BY InitInv, NextInv, PTL DEF Spec

(* The types of the variables hold, and no build retries more often than   *)
(* it may (get, getAttempt).                                               *)
THEOREM TypeCorrect == Spec => []TypeOK
<1>1. Inv => TypeOK
  BY DEF Inv
<1>. QED  BY <1>1, Invariance, PTL

(* Whatever the upstream sends, a client holds no more than one look at    *)
(* the socket beyond the largest tile (limitTileReplySize).                *)
THEOREM BufferBound == Spec => []BufferIsBounded
<1>1. Inv => BufferIsBounded
  BY DEF Inv
<1>. QED  BY <1>1, Invariance, PTL

(* A tile that is too large is never retried and never called a timeout    *)
(* (handleReply).                                                          *)
THEOREM TooLargeEnds == Spec => []TooLargeIsFinal
<1>1. Inv => TooLargeIsFinal
  BY DEF Inv
<1>. QED  BY <1>1, Invariance, PTL

(* After cancel no transfer is active (cancel, getAttempt).                *)
THEOREM CancelEnds == Spec => []CancelIsPrompt
<1>1. Inv => CancelIsPrompt
  BY DEF Inv, Transfer, CancelIsPrompt
<1>. QED  BY <1>1, Invariance, PTL

(* A request lasts no longer than its attempts and the delays between them *)
(* may (overall_timeout_ms, timeout_retry_delay_ms).                       *)
THEOREM WaitBound == Spec => []WaitIsBounded
<1>1. Inv => WaitIsBounded
  BY DEF Inv
<1>. QED  BY <1>1, Invariance, PTL

(* What handleReply does is the one report of the abstract request, or     *)
(* nothing yet.                                                            *)
LEMMA HandleReplyRefines ==
  ASSUME Inv, phase = "transfer", NEW r, NEW c \in BOOLEAN, NEW e, NEW resp,
         HandleReply(r, c, e, resp), cancel_requested' = c,
         cancel_requested => c
  PROVE  Request!Next \/ (~c /\ UNCHANGED Request!rvars)
<1> DEFINE v == Verdict(r, c, e, resp)
<1>1. v \in Reasons \cup {"tile"} /\ v # None /\ (v = "canceled" <=> c)
  BY Verdicts
<1>2. \/ v = "timeout" /\ phase' = "delay" /\ report' = report
      \/ phase' = "done" /\ report' = v
  BY DEF HandleReply, MayRetry
<1> HIDE DEF v
<1>3. report = None /\ cancel_requested = FALSE
  BY DEF Inv, TypeOK, Transfer, Reported
<1>4. CASE v = "timeout" /\ phase' = "delay" /\ report' = report
  BY <1>1, <1>3, <1>4 DEF Request!rvars
<1>5. CASE phase' = "done" /\ report' = v /\ v = "tile"
  <2>1. Request!Deliver
    BY <1>1, <1>3, <1>5 DEF Request!Deliver
  <2>. QED  BY <2>1 DEF Request!Next
<1>6. CASE phase' = "done" /\ report' = v /\ v \in Reasons
  <2>1. cancel_requested' = (v = "canceled")
    BY <1>1
  <2>2. Request!Fail(v)
    BY <1>3, <1>6, <2>1 DEF Request!Fail
  <2>. QED  BY <1>6, <2>2 DEF Request!Next
<1>. QED  BY <1>1, <1>2, <1>4, <1>5, <1>6

(* Every step of the client is one of the abstract request or none.        *)
LEMMA StepRefines == Inv /\ [Next]_vars => [Request!Next]_(Request!rvars)
<1> SUFFICES ASSUME Inv, [Next]_vars PROVE Request!Next \/ UNCHANGED Request!rvars
  OBVIOUS
<1>0. TypeOK /\ Transfer /\ Delay /\ Start /\ Reported
  BY DEF Inv
<1>1. cancel_requested \in BOOLEAN
  BY <1>0 DEF TypeOK
<1>2. CASE Get
  <2>1. phase = "idle" /\ phase' = "transfer" /\ cancel_requested' = FALSE /\ report' = report
    BY <1>2 DEF Get, StartAttempt
  <2>2. Request!Ask
    BY <2>1 DEF Request!Ask
  <2>. QED  BY <2>2 DEF Request!Next
<1>3. CASE GetAgain
  <2>1. /\ phase = "delay" /\ cancel_requested' = cancel_requested
        /\ report = None
    BY <1>0, <1>3 DEF GetAgain, Reported
  <2>2. CASE cancel_requested
    <3>1. phase' = "done" /\ report' = "canceled"
      BY <1>3, <2>2 DEF GetAgain
    <3>2. Request!Fail("canceled")
      BY <2>1, <2>2, <3>1, <1>1 DEF Request!Fail
    <3>. QED  BY <3>2 DEF Request!Next, Reasons
  <2>3. CASE ~ cancel_requested
    <3>1. phase' = "transfer" /\ report' = report
      BY <1>3, <2>3 DEF GetAgain, StartAttempt
    <3>. QED  BY <2>1, <3>1 DEF Request!rvars
  <2>. QED  BY <2>2, <2>3
<1>4. CASE TransferEnds
  <2>1. /\ phase = "transfer" /\ cancel_requested' = cancel_requested
        /\ \/ HandleReply(reply, cancel_requested, "overall", None)
           \/ HandleReply(reply, cancel_requested, "aborted", None)
    BY <1>4 DEF TransferEnds
  <2>. QED  BY <1>1, <2>1, HandleReplyRefines
<1>5. CASE Tick
  BY <1>5 DEF Tick, Request!rvars
<1>6. CASE Cancel
  <2>1. phase \in {"transfer", "delay"} /\ cancel_requested' = TRUE
    BY <1>6 DEF Cancel
  <2>2. CASE phase = "transfer"
    <3>1. HandleReply(reply, TRUE, "aborted", None)
      BY <1>6, <2>2 DEF Cancel
    <3>. QED  BY <2>1, <2>2, <3>1, HandleReplyRefines
  <2>3. CASE phase = "delay"
    <3>1. phase' = phase /\ report' = report
      BY <1>6, <2>3 DEF Cancel
    <3>2. Request!Cancel
      BY <2>1, <3>1 DEF Request!Cancel
    <3>. QED  BY <3>2 DEF Request!Next
  <2>. QED  BY <2>1, <2>2, <2>3
<1>7. ASSUME NEW n \in 1 .. Chunk, NEW total \in Totals, Receive(n, total)
      PROVE Request!Next \/ UNCHANGED Request!rvars
  <2>1. phase = "transfer" /\ cancel_requested' = cancel_requested
    BY <1>7 DEF Receive
  <2>2. PICK r : HandleReply(r, cancel_requested, "aborted", None)
                 \/ UNCHANGED <<phase, report>>
    BY <1>7 DEF Receive
  <2>3. CASE UNCHANGED <<phase, report>>
    BY <2>1, <2>3 DEF Request!rvars
  <2>. QED  BY <1>1, <2>1, <2>2, <2>3, HandleReplyRefines
<1>8. ASSUME NEW response \in Responses, Finish(response)
      PROVE Request!Next \/ UNCHANGED Request!rvars
  BY <1>1, <1>8, HandleReplyRefines DEF Finish
<1>9. ASSUME NEW error \in {"network", "timeout"}, Break(error)
      PROVE Request!Next \/ UNCHANGED Request!rvars
  BY <1>1, <1>9, HandleReplyRefines DEF Break
<1>10. CASE UNCHANGED vars
  BY <1>10 DEF vars, Request!rvars
<1>. QED  BY <1>2, <1>3, <1>4, <1>5, <1>6, <1>7, <1>8, <1>9, <1>10 DEF Next

(* The client is a tile request as MapTiles sees it: at most one report    *)
(* for a get, and none with a tile after a cancellation (requestFinished,  *)
(* requestError).  That the report comes is left to the model checker.     *)
THEOREM Refinement == Spec => Request!Safety
<1>1. Init => Request!Init
  BY DEF Init, Request!Init
<1>. QED  BY <1>1, StepRefines, Invariance, PTL DEF Spec, Request!Safety
=============================================================================
