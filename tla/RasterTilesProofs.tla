------------------------- MODULE RasterTilesProofs -------------------------
(***************************************************************************)
(* Proofs about RasterTiles, for every set of requests, tiles, spellings   *)
(* and URLs and every limit: the queue is only as long as the limits make  *)
(* it, marks have owners, nobody is forgotten, RAM is of the current URL,  *)
(* and for a tile of which no request overtook a pending write, what was   *)
(* deleted stays deleted and what is answered is current.                  *)
(*                                                                         *)
(* The inductive invariant follows a tile through download, write and read *)
(* and says of each whom it will answer, which URL it is of and, of an     *)
(* orderly tile, that at most one of download and write is under way and   *)
(* that what they would store has not been deleted since.                  *)
(***************************************************************************)
EXTENDS RasterTiles, TLAPS, FiniteSetTheorems, SequenceTheorems

(* What TypeOK says of each variable, without the limits.                  *)
StoreTyped ==
  /\ phase \in {"running", "stopped"} /\ url \in Urls /\ generation \in 0 .. MaxGeneration
  /\ memory \in [Keys -> Tiles \union {None}]
  /\ files \in [Urls -> [Keys -> Tiles \union {None}]]
  /\ deletions \in [Urls -> [Keys -> 0 .. MaxGeneration]]
  /\ \A u \in Urls : \A k \in Keys : deletions[u][k] <= generation

DownloadsTyped ==
  /\ active \in [Keys -> DownloadType \union {None}]
  /\ queue \in Seq(DownloadType)
  /\ responders \in [Keys -> SUBSET ResponseKeys]
  /\ marks \subseteq Keys

WorkTyped == writes \in Seq(WriteType) /\ reads \subseteq ReadType

RequestsTyped ==
  /\ asked \in [Requests -> ResponseKeys \union {None}]
  /\ urls_since \in [Requests -> SUBSET Urls]
  /\ waiting \subseteq Requests
  /\ answer \in [Requests -> {"none", "ready", "accepted", "busy", "invalid", "failed",
                              "cancelled", "shutdown"}]
  /\ served \in [Requests -> Tiles \union {None}]
  /\ overtaken \subseteq Keys
  /\ \A r \in Requests : asked[r] = None => r \notin waiting /\ served[r] = None

(* Downloads are of the configured URL and one per key.                    *)
DownloadsCurrent ==
  /\ \A k \in Keys : active[k] # None => active[k].key = k /\ active[k].url = url
  /\ \A i \in DOMAIN queue : queue[i].url = url

DownloadsOnce ==
  /\ \A i, j \in DOMAIN queue : queue[i].key = queue[j].key => i = j
  /\ \A i \in DOMAIN queue : active[queue[i].key] = None

MarksOwned == \A k \in marks : InProgress(k) \/ Writing(k)

(* A list of response keys belongs to their canonical key.                 *)
Addressed ==
  /\ \A k \in Keys : \A rk \in responders[k] : Canonical[rk] = k
  /\ \A i \in DOMAIN writes : \A rk \in writes[i].to : Canonical[rk] = writes[i].key
  /\ \A rd \in reads : \A rk \in rd.to : Canonical[rk] = rd.key

(* Files are of the URL of their variant, a read of this generation is of  *)
(* the configured URL.                                                     *)
FilesCurrent == \A u \in Urls : \A k \in Keys : files[u][k] # None => files[u][k].url = u

ReadsCurrent ==
  \A rd \in reads :
    /\ rd.generation <= generation
    /\ rd.generation = generation => rd.url = url
    /\ rd.tile # None => rd.tile.url = rd.url

(* The configured URL is one a waiting request may be answered from, and   *)
(* so is that of a write which will answer it, unless it came after a miss *)
(* of RAM during the write.                                                *)
WaitersCurrent ==
  /\ \A r \in waiting : url \in urls_since[r]
  /\ \A r \in waiting : \A i \in DOMAIN writes :
       asked[r] \in writes[i].to /\ Orderly(writes[i].key)
         => writes[i].tile.url \in urls_since[r]

(* An orderly tile has one download or one write, and the write is the     *)
(* registered one.                                                         *)
OneSource ==
  /\ \A k \in Keys : Orderly(k) /\ Writing(k) => ~InProgress(k)
  /\ \A i \in DOMAIN writes :
       Orderly(writes[i].key) =>
         /\ writes[i].registered
         /\ \A j \in DOMAIN writes : writes[j].key = writes[i].key => j = i

(* What will be stored of an orderly tile was not deleted.                 *)
DownloadsFresh ==
  /\ \A k \in Keys :
       active[k] # None /\ Orderly(k) /\ k \notin marks => Fresh(Tile(active[k]), k)
  /\ \A i \in DOMAIN queue :
       Orderly(queue[i].key) /\ queue[i].key \notin marks
         => Fresh(Tile(queue[i]), queue[i].key)

WritesFresh ==
  \A i \in DOMAIN writes :
    /\ Orderly(writes[i].key)
    /\ writes[i].stage # "done"
    /\ writes[i].stage = "queued" => ~writes[i].invalidated
    => Fresh(writes[i].tile, writes[i].key)

ReadsFresh ==
  \A rd \in reads : rd.generation = generation /\ Orderly(rd.key) => Fresh(rd.tile, rd.key)

Downloads ==
  /\ DownloadsTyped /\ DownloadsCurrent /\ DownloadsOnce
  /\ QueueIsBlocked

Waiters == NobodyIsForgotten /\ WaitersCurrent /\ AnsweredFromCurrentUrl

Current == MemoryIsCurrent /\ FilesCurrent /\ ReadsCurrent

Undeleted == DownloadsFresh /\ WritesFresh /\ ReadsFresh /\ DeletedStaysDeleted

IInv ==
  /\ StoreTyped /\ WorkTyped /\ RequestsTyped
  /\ Downloads /\ MarksOwned /\ Addressed
  /\ Waiters /\ Current /\ OneSource /\ Undeleted
-----------------------------------------------------------------------------
(* Sequences.                                                              *)

(* What is left when one element is removed.                               *)
LEMMA RemoveAtElements ==
  ASSUME NEW S, NEW s \in Seq(S), NEW n \in DOMAIN s
  PROVE  /\ RemoveAt(s, n) \in Seq(S)
         /\ Len(RemoveAt(s, n)) = Len(s) - 1
         /\ \A i \in DOMAIN RemoveAt(s, n) :
              RemoveAt(s, n)[i] = IF i < n THEN s[i] ELSE s[i + 1]
<1>1. Len(s) \in Nat /\ n \in 1 .. Len(s)
  BY LenProperties
<1>2. /\ SubSeq(s, 1, n - 1) \in Seq(S)
      /\ Len(SubSeq(s, 1, n - 1)) = n - 1
      /\ \A i \in 1 .. n - 1 : SubSeq(s, 1, n - 1)[i] = s[i]
  BY <1>1, SubSeqProperties
<1>3. /\ SubSeq(s, n + 1, Len(s)) \in Seq(S)
      /\ Len(SubSeq(s, n + 1, Len(s))) = Len(s) - n
      /\ \A i \in 1 .. Len(s) - n : SubSeq(s, n + 1, Len(s))[i] = s[n + i]
  <2>1. n + 1 \in 1 .. Len(s) + 1 /\ Len(s) \in n + 1 - 1 .. Len(s)
    BY <1>1
  <2>2. /\ SubSeq(s, n + 1, Len(s)) \in Seq(S)
        /\ Len(SubSeq(s, n + 1, Len(s))) = IF n + 1 <= Len(s) THEN Len(s) - (n + 1) + 1 ELSE 0
        /\ \A i \in 1 .. Len(s) - (n + 1) + 1 : SubSeq(s, n + 1, Len(s))[i] = s[n + 1 + i - 1]
    BY <1>1, <2>1, SubSeqProperties
  <2> QED
    BY <1>1, <2>2
<1> DEFINE a == SubSeq(s, 1, n - 1)
           b == SubSeq(s, n + 1, Len(s))
<1>4. /\ a \o b \in Seq(S)
      /\ Len(a \o b) = Len(a) + Len(b)
      /\ \A i \in 1 .. Len(a) + Len(b) :
           (a \o b)[i] = IF i <= Len(a) THEN a[i] ELSE b[i - Len(a)]
  BY <1>2, <1>3, ConcatProperties
<1>5. RemoveAt(s, n) = a \o b
  BY DEF RemoveAt
<1>6. Len(a \o b) = Len(s) - 1 /\ DOMAIN (a \o b) = 1 .. Len(s) - 1
  BY <1>1, <1>2, <1>3, <1>4, LenProperties
<1> HIDE DEF a, b
<1>7. ASSUME NEW i \in 1 .. Len(s) - 1 PROVE (a \o b)[i] = IF i < n THEN s[i] ELSE s[i + 1]
  <2>1. CASE i < n
    BY <1>1, <1>2, <1>3, <1>4, <2>1 DEF a, b
  <2>2. CASE ~(i < n)
    <3>1. i - (n - 1) \in 1 .. Len(s) - n /\ n + (i - (n - 1)) = i + 1
      BY <1>1, <2>2
    <3>2. b[i - (n - 1)] = s[i + 1]
      BY <1>3, <3>1 DEF b
    <3>3. (a \o b)[i] = b[i - Len(a)] /\ Len(a) = n - 1
      <4>1. Len(a) = n - 1 /\ Len(b) = Len(s) - n
        BY <1>2, <1>3 DEF a, b
      <4>2. i \in 1 .. Len(a) + Len(b) /\ ~(i <= Len(a))
        BY <1>1, <2>2, <4>1
      <4> QED
        BY <1>4, <4>1, <4>2
    <3> QED
      BY <2>2, <3>2, <3>3
  <2> QED
    BY <2>1, <2>2
<1> QED
  BY <1>4, <1>5, <1>6, <1>7

(* The same, element by element: nothing else appears, nothing else goes,  *)
(* and elements stay apart.                                                *)
LEMMA RemoveAtKeeps ==
  ASSUME NEW S, NEW s \in Seq(S), NEW n \in DOMAIN s
  PROVE  /\ \A i \in DOMAIN RemoveAt(s, n) :
              \E j \in DOMAIN s : j # n /\ RemoveAt(s, n)[i] = s[j]
         /\ \A j \in DOMAIN s : j # n =>
              \E i \in DOMAIN RemoveAt(s, n) : RemoveAt(s, n)[i] = s[j]
         /\ \A i1, i2 \in DOMAIN RemoveAt(s, n) : i1 # i2 =>
              \E j1, j2 \in DOMAIN s :
                j1 # j2 /\ RemoveAt(s, n)[i1] = s[j1] /\ RemoveAt(s, n)[i2] = s[j2]
<1> DEFINE t == RemoveAt(s, n)
           At(i) == IF i < n THEN i ELSE i + 1
<1>1. /\ Len(s) \in Nat /\ n \in 1 .. Len(s) /\ DOMAIN s = 1 .. Len(s)
      /\ DOMAIN t = 1 .. Len(s) - 1
  BY RemoveAtElements, LenProperties
<1>2. \A i \in DOMAIN t : t[i] = s[At(i)]
  BY RemoveAtElements
<1>3. \A i \in DOMAIN t : At(i) \in DOMAIN s /\ At(i) # n
  BY <1>1
<1>4. \A i1, i2 \in DOMAIN t : i1 # i2 => At(i1) # At(i2)
  BY <1>1
<1>5. \A j \in DOMAIN s : j # n => \E i \in DOMAIN t : At(i) = j
  <2> SUFFICES ASSUME NEW j \in DOMAIN s, j # n PROVE \E i \in DOMAIN t : At(i) = j
    OBVIOUS
  <2>1. CASE j < n
    <3>1. j \in DOMAIN t /\ At(j) = j
      BY <1>1, <2>1
    <3> QED
      BY <3>1
  <2>2. CASE ~(j < n)
    <3>1. j - 1 \in DOMAIN t /\ At(j - 1) = j
      BY <1>1, <2>2
    <3> QED
      BY <3>1
  <2> QED
    BY <2>1, <2>2
<1> HIDE DEF t, At
<1>6. /\ \A i \in DOMAIN t : \E j \in DOMAIN s : j # n /\ t[i] = s[j]
      /\ \A j \in DOMAIN s : j # n => \E i \in DOMAIN t : t[i] = s[j]
      /\ \A i1, i2 \in DOMAIN t : i1 # i2 =>
           \E j1, j2 \in DOMAIN s : j1 # j2 /\ t[i1] = s[j1] /\ t[i2] = s[j2]
  BY <1>2, <1>3, <1>4, <1>5
<1> QED
  BY <1>6 DEF t

(* A longer sequence.                                                      *)
LEMMA AppendElements ==
  ASSUME NEW S, NEW s \in Seq(S), NEW e \in S
  PROVE  /\ Append(s, e) \in Seq(S)
         /\ DOMAIN Append(s, e) = DOMAIN s \union {Len(s) + 1}
         /\ Len(s) + 1 \notin DOMAIN s
         /\ Append(s, e)[Len(s) + 1] = e
         /\ \A i \in DOMAIN s : Append(s, e)[i] = s[i]
<1>1. Len(s) \in Nat /\ DOMAIN s = 1 .. Len(s)
  BY LenProperties
<1>2. /\ Append(s, e) \in Seq(S) /\ Len(Append(s, e)) = Len(s) + 1
      /\ Append(s, e)[Len(s) + 1] = e
      /\ \A i \in 1 .. Len(s) : Append(s, e)[i] = s[i]
  BY AppendProperties
<1>3. DOMAIN Append(s, e) = 1 .. Len(s) + 1
  BY <1>2, LenProperties
<1> QED
  BY <1>1, <1>2, <1>3

(* Elements are typed.                                                     *)
LEMMA ElementTyped ==
  ASSUME NEW S, NEW s \in Seq(S), NEW i \in DOMAIN s
  PROVE  s[i] \in S
BY ElementOfSeq, LenProperties

-----------------------------------------------------------------------------
(* Counting downloads.                                                     *)

ByOrigin(act, o) == {k \in Downloading(act) : act[k].origin = o}

(* What the start of one download does to the counts of canStartDownload.  *)
LEMMA Started ==
  ASSUME NEW act \in [Keys -> DownloadType \union {None}],
         NEW new \in [Keys -> DownloadType \union {None}],
         NEW k \in Keys, NEW d \in DownloadType,
         act[k] = None, new[k] = d, \A x \in Keys \ {k} : new[x] = act[x]
  PROVE  /\ Downloading(new) = Downloading(act) \union {k}
         /\ Cardinality(Downloading(act)) \in Nat
         /\ Cardinality(Downloading(new)) = Cardinality(Downloading(act)) + 1
         /\ \A o \in Origins :
              /\ Cardinality(ByOrigin(act, o)) \in Nat
              /\ Cardinality(ByOrigin(new, o)) =
                   Cardinality(ByOrigin(act, o)) + IF d.origin = o THEN 1 ELSE 0
<1>1. d # None
  BY RasterAssumption
<1>2. new[k] = d /\ \A x \in Keys : x # k => new[x] = act[x]
  OBVIOUS
<1>3. Downloading(new) = Downloading(act) \union {k} /\ k \notin Downloading(act)
  BY <1>1, <1>2 DEF Downloading
<1>4. IsFiniteSet(Downloading(act))
  BY FS_Subset, RasterAssumption DEF Downloading
<1>5. /\ Cardinality(Downloading(act)) \in Nat
      /\ Cardinality(Downloading(new)) = Cardinality(Downloading(act)) + 1
  BY <1>3, <1>4, FS_AddElement, FS_CardinalityType
<1>6. ASSUME NEW o \in Origins
      PROVE  /\ Cardinality(ByOrigin(act, o)) \in Nat
             /\ Cardinality(ByOrigin(new, o)) =
                  Cardinality(ByOrigin(act, o)) + IF d.origin = o THEN 1 ELSE 0
  <2>1. IsFiniteSet(ByOrigin(act, o)) /\ k \notin ByOrigin(act, o)
    BY <1>3, <1>4, FS_Subset DEF ByOrigin
  <2>2. Cardinality(ByOrigin(act, o)) \in Nat
    BY <2>1, FS_CardinalityType
  <2>3. CASE d.origin = o
    <3>1. ByOrigin(new, o) = ByOrigin(act, o) \union {k}
      BY <1>2, <1>3, <2>3 DEF ByOrigin, Downloading
    <3>2. Cardinality(ByOrigin(new, o)) = Cardinality(ByOrigin(act, o)) + 1
      BY <2>1, <3>1, FS_AddElement
    <3> QED
      BY <2>2, <2>3, <3>2
  <2>4. CASE d.origin # o
    <3>1. ByOrigin(new, o) = ByOrigin(act, o)
      BY <1>2, <1>3, <2>4 DEF ByOrigin, Downloading
    <3> QED
      BY <2>2, <2>4, <3>1
  <2> QED
    BY <2>3, <2>4
<1> QED
  BY <1>2, <1>3, <1>5, <1>6

(* The limits and the queue in these counts.                               *)
LEMMA BlockedMeans ==
  ASSUME NEW act \in [Keys -> DownloadType \union {None}], NEW q \in Seq(DownloadType)
  PROVE  /\ \A o \in Origins :
              CanStart(o, act) <=>
                /\ Cardinality(Downloading(act)) < MaxActive
                /\ Cardinality(ByOrigin(act, o)) < MaxPerOrigin
         /\ \A i \in DOMAIN q : q[i].origin \in Origins
BY ElementTyped DEF CanStart, ByOrigin, DownloadType
-----------------------------------------------------------------------------
(* Answers and RAM.                                                        *)

(* Whom an answer reaches.                                                 *)
LEMMA ToldAny ==
  ASSUME NEW R, NEW how \in {"ready", "failed", "cancelled", "shutdown"},
         NEW tile \in Tiles \union {None},
         RequestsTyped, Tell(R, how, tile),
         asked' = asked, overtaken' = overtaken, urls_since' \in [Requests -> SUBSET Urls]
  PROVE  /\ RequestsTyped'
         /\ waiting' \subseteq waiting
         /\ \A r \in waiting' : asked[r] \notin R
         /\ \A r \in Requests :
              served'[r] = served[r] \/ (r \in waiting /\ asked[r] \in R /\ served'[r] = tile)
<1> DEFINE told == {r \in waiting : asked[r] \in R}
<1>1. /\ waiting' = waiting \ told
      /\ answer' = [r \in Requests |-> IF r \in told THEN how ELSE answer[r]]
      /\ served' = [r \in Requests |-> IF r \in told THEN tile ELSE served[r]]
  BY DEF Tell
<1>2. asked' = asked /\ urls_since' \in [Requests -> SUBSET Urls] /\ overtaken' = overtaken
  OBVIOUS
<1>3. \A r \in Requests : served'[r] = served[r] \/ (r \in told /\ served'[r] = tile)
  BY <1>1
<1>4. /\ answer' \in [Requests -> {"none", "ready", "accepted", "busy", "invalid", "failed",
                                  "cancelled", "shutdown"}]
      /\ served' \in [Requests -> Tiles \union {None}]
  <2>1. /\ answer \in [Requests -> {"none", "ready", "accepted", "busy", "invalid", "failed",
                                   "cancelled", "shutdown"}]
        /\ served \in [Requests -> Tiles \union {None}]
    BY DEF RequestsTyped
  <2> HIDE DEF told
  <2> QED
    BY <1>1, <2>1
<1>5. waiting' \subseteq waiting
  BY <1>1
<1>6. RequestsTyped'
  BY <1>2, <1>3, <1>4, <1>5 DEF RequestsTyped
<1> QED
  BY <1>1, <1>3, <1>5, <1>6

(* The usual case: no URL is configured meanwhile.                         *)
LEMMA Told ==
  ASSUME NEW R, NEW how \in {"ready", "failed", "cancelled", "shutdown"},
         NEW tile \in Tiles \union {None},
         RequestsTyped, Tell(R, how, tile),
         asked' = asked, urls_since' = urls_since, overtaken' = overtaken
  PROVE  /\ RequestsTyped'
         /\ waiting' \subseteq waiting
         /\ \A r \in waiting' : asked[r] \notin R
         /\ \A r \in Requests :
              served'[r] = served[r] \/ (r \in waiting /\ asked[r] \in R /\ served'[r] = tile)
<1>1. urls_since' \in [Requests -> SUBSET Urls]
  BY DEF RequestsTyped
<1>2. CASE how = "ready"
  BY <1>1, <1>2, ToldAny
<1>3. CASE how = "failed"
  BY <1>1, <1>3, ToldAny
<1>4. CASE how = "cancelled"
  BY <1>1, <1>4, ToldAny
<1>5. CASE how = "shutdown"
  BY <1>1, <1>5, ToldAny
<1> QED
  BY <1>2, <1>3, <1>4, <1>5

(* What a read may answer.                                                 *)
LEMMA ToldOfRead ==
  ASSUME NEW R, NEW tile \in Tiles \union {None}, RequestsTyped,
         Tell(R, "ready", tile) \/ Tell(R, "failed", tile) \/ Tell(R, "cancelled", tile),
         asked' = asked, urls_since' = urls_since, overtaken' = overtaken
  PROVE  /\ RequestsTyped'
         /\ waiting' \subseteq waiting
         /\ \A r \in waiting' : asked[r] \notin R
         /\ \A r \in Requests :
              served'[r] = served[r] \/ (r \in waiting /\ asked[r] \in R /\ served'[r] = tile)
<1>1. CASE Tell(R, "ready", tile)
  BY <1>1, Told
<1>2. CASE Tell(R, "failed", tile)
  BY <1>2, Told
<1>3. CASE Tell(R, "cancelled", tile)
  BY <1>3, Told
<1> QED
  BY <1>1, <1>2, <1>3

(* An answer from the right URL.                                           *)
LEMMA ToldCurrent ==
  ASSUME NEW R, NEW tile,
         \A r \in Requests :
           served'[r] = served[r] \/ (r \in waiting /\ asked[r] \in R /\ served'[r] = tile),
         asked' = asked, urls_since' = urls_since, overtaken' = overtaken,
         AnsweredFromCurrentUrl,
         \A r \in waiting : asked[r] \in R /\ tile # None /\ Orderly(Canonical[asked[r]])
           => tile.url \in urls_since[r]
  PROVE  AnsweredFromCurrentUrl'
<1> SUFFICES ASSUME NEW r \in Requests, served'[r] # None, Orderly(Canonical[asked[r]])
             PROVE  served'[r].url \in urls_since[r]
  BY DEF AnsweredFromCurrentUrl, Orderly
<1>1. CASE served'[r] = served[r]
  BY <1>1 DEF AnsweredFromCurrentUrl
<1>2. CASE r \in waiting /\ asked[r] \in R /\ served'[r] = tile
  BY <1>2
<1> QED
  BY <1>1, <1>2

(* What RAM may hold after an insertion.                                   *)
LEMMA Remembered ==
  ASSUME NEW k \in Keys, NEW tile \in Tiles,
         memory \in [Keys -> Tiles \union {None}], Remember(k, tile)
  PROVE  /\ memory' \in [Keys -> Tiles \union {None}]
         /\ \A x \in Keys :
              memory'[x] = None \/ memory'[x] = memory[x] \/ (x = k /\ memory'[x] = tile)
<1>1. PICK evicted \in SUBSET (Keys \ {k}) :
        memory' = [x \in Keys |-> IF x = k THEN tile
                                  ELSE IF x \in evicted THEN None ELSE memory[x]]
  BY DEF Remember
<1>2. \A x \in Keys :
        memory'[x] = IF x = k THEN tile ELSE IF x \in evicted THEN None ELSE memory[x]
  BY <1>1
<1>3. \A x \in Keys : memory[x] \in Tiles \union {None}
  OBVIOUS
<1> QED
  BY <1>1, <1>2, <1>3

-----------------------------------------------------------------------------
(* The downloads of one handler.                                           *)

(* Every download is in progress under its key, and conversely.            *)
LEMMA HeldInProgress ==
  ASSUME DownloadsTyped
  PROVE  /\ \A i \in DOMAIN queue : queue[i] \in DownloadType
         /\ \A k \in Keys :
              InProgress(k) <=> active[k] # None \/ \E i \in DOMAIN queue : queue[i].key = k
<1>1. \A i \in DOMAIN queue : queue[i] \in DownloadType
  BY ElementTyped DEF DownloadsTyped
<1> QED
  BY <1>1 DEF InProgress, Downloading, Queued, DownloadType

(* A new download is of the configured URL and younger than any deletion.  *)
LEMMA NewIsFresh ==
  ASSUME NEW k \in Keys, NEW origin \in Origins, StoreTyped
  PROVE  /\ NewDownload(k, origin) \in DownloadType
         /\ NewDownload(k, origin).key = k /\ NewDownload(k, origin).url = url
         /\ NewDownload(k, origin).origin = origin
         /\ Fresh(Tile(NewDownload(k, origin)), k)
<1>1. deletions[url][k] \in 0 .. MaxGeneration /\ url \in Urls
  BY DEF StoreTyped
<1> QED
  BY <1>1, RasterAssumption DEF NewDownload, DownloadType, Fresh, Tile

(* scheduleMapTileDownload: the download of k is in progress afterwards    *)
(* with the response keys R, and nothing else has changed.                 *)
Entered(k, R, origin) ==
  /\ Downloads'
  /\ marks' = marks
  /\ InProgress(k)' /\ R \subseteq responders'[k]
  /\ responders'[k] \subseteq R \union responders[k]
  /\ \A x \in Keys :
       /\ x # k => responders'[x] = responders[x] /\ (InProgress(x)' <=> InProgress(x))
       /\ InProgress(x) => InProgress(x)' /\ responders[x] \subseteq responders'[x]
  /\ \A x \in Keys :
       active'[x] = active[x] \/ (x = k /\ active'[x] = NewDownload(k, origin))
  /\ \A i \in DOMAIN queue' :
       \/ i \in DOMAIN queue /\ queue'[i] = queue[i]
       \/ queue'[i] = NewDownload(k, origin)

(* What scheduling does.                                                   *)
LEMMA Scheduled ==
  ASSUME NEW k \in Keys, NEW R \in SUBSET ResponseKeys, NEW origin \in Origins,
         Downloads, StoreTyped, Schedule(k, R, origin), url' = url
  PROVE  Entered(k, R, origin)
<1> USE DEF Entered
<1> DEFINE d == NewDownload(k, origin)
<1>d. d \in DownloadType /\ d.key = k /\ d.url = url /\ d.origin = origin /\ d # None
  BY NewIsFresh, RasterAssumption
<1>t. /\ active \in [Keys -> DownloadType \union {None}]
      /\ queue \in Seq(DownloadType)
      /\ responders \in [Keys -> SUBSET ResponseKeys]
      /\ marks \subseteq Keys
  BY DEF Downloads, DownloadsTyped
<1>m. marks' = marks
  BY DEF Schedule
<1>p. \A x \in Keys :
        InProgress(x) <=> active[x] # None \/ \E i \in DOMAIN queue : queue[i].key = x
  BY HeldInProgress DEF Downloads
<1> HIDE DEF d
<1>1. CASE Join(k, R)
  <2>1. /\ InProgress(k) /\ active' = active /\ queue' = queue
        /\ responders' = [responders EXCEPT ![k] = @ \union R]
    BY <1>1 DEF Join
  <2>2. \A x : InProgress(x)' <=> InProgress(x)
    BY <2>1 DEF InProgress, Downloading, Queued
  <2>3. DownloadsTyped' /\ DownloadsCurrent' /\ DownloadsOnce' /\ QueueIsBlocked'
    BY <1>t, <1>m, <2>1
       DEF Downloads, DownloadsTyped, DownloadsCurrent, DownloadsOnce, QueueIsBlocked,
           Downloading, CanStart
  <2> QED
    BY <1>t, <1>m, <2>1, <2>2, <2>3 DEF Downloads
<1>2. CASE StartNow(k, R, origin)
  <2>1. /\ ~InProgress(k) /\ CanStart(origin, active) /\ queue' = queue
        /\ active' = [active EXCEPT ![k] = d]
        /\ responders' = [responders EXCEPT ![k] = R]
    BY <1>2 DEF StartNow, d
  <2>2. active[k] = None /\ \A i \in DOMAIN queue : queue[i].key # k
    BY <1>p, <2>1
  <2>3. DownloadsTyped'
    BY <1>t, <1>m, <1>d, <2>1 DEF DownloadsTyped
  <2>4. \A x \in Keys :
          InProgress(x)' <=> active'[x] # None \/ \E i \in DOMAIN queue' : queue'[i].key = x
    <3>1. \A i \in DOMAIN queue' : queue'[i] \in DownloadType
      BY <2>3, ElementTyped DEF DownloadsTyped
    <3> QED
      BY <3>1 DEF InProgress, Downloading, Queued, DownloadType
  <2>5. \A x \in Keys : active'[x] = IF x = k THEN d ELSE active[x]
    BY <1>t, <2>1
  <2>6. DownloadsCurrent'
    BY <1>d, <2>1, <2>5 DEF Downloads, DownloadsCurrent
  <2>7. DownloadsOnce'
    <3>1. \A i \in DOMAIN queue : queue[i].key \in Keys
      BY HeldInProgress DEF Downloads, DownloadType
    <3> QED
      BY <2>1, <2>2, <2>5, <3>1 DEF Downloads, DownloadsOnce
  <2>8. QueueIsBlocked'
    <3> DEFINE new == [active EXCEPT ![k] = d]
    <3>0. /\ new \in [Keys -> DownloadType \union {None}]
          /\ new[k] = d /\ \A x \in Keys \ {k} : new[x] = active[x]
      BY <1>t, <1>d
    <3> HIDE DEF new
    <3>1. /\ Cardinality(Downloading(active)) \in Nat
          /\ Cardinality(Downloading(new)) = Cardinality(Downloading(active)) + 1
          /\ \A o \in Origins :
               /\ Cardinality(ByOrigin(active, o)) \in Nat
               /\ Cardinality(ByOrigin(new, o)) =
                    Cardinality(ByOrigin(active, o)) + IF d.origin = o THEN 1 ELSE 0
      <4>1. active \in [Keys -> DownloadType \union {None}] /\ active[k] = None
        BY <1>t, <2>2
      <4>2. d \in DownloadType
        BY <1>d
      <4> QED
        BY <3>0, <4>1, <4>2, Started
    <3>2. /\ \A o \in Origins :
               CanStart(o, active) <=>
                 /\ Cardinality(Downloading(active)) < MaxActive
                 /\ Cardinality(ByOrigin(active, o)) < MaxPerOrigin
          /\ \A i \in DOMAIN queue : queue[i].origin \in Origins
      BY <1>t, BlockedMeans
    <3>3. \A o \in Origins :
            CanStart(o, new) <=>
              /\ Cardinality(Downloading(new)) < MaxActive
              /\ Cardinality(ByOrigin(new, o)) < MaxPerOrigin
      BY <1>t, <3>0, BlockedMeans
    <3>4. /\ \A o \in Origins : Cardinality(ByOrigin(active, o)) <= MaxPerOrigin
          /\ \A i \in DOMAIN queue : ~CanStart(queue[i].origin, active)
      BY DEF Downloads, QueueIsBlocked, ByOrigin
    <3>5. Cardinality(Downloading(new)) <= MaxActive
      BY <2>1, <3>1, <3>2, RasterAssumption
    <3>6. \A o \in Origins : Cardinality(ByOrigin(new, o)) <= MaxPerOrigin
      BY <1>d, <2>1, <3>1, <3>2, <3>4, RasterAssumption
    <3>7. \A i \in DOMAIN queue : ~CanStart(queue[i].origin, new)
      BY <3>1, <3>2, <3>3, <3>4, RasterAssumption
    <3>8. active' = new
      BY <2>1 DEF new
    <3> QED
      BY <2>1, <3>5, <3>6, <3>7, <3>8 DEF QueueIsBlocked, ByOrigin
  <2>9. responders'[k] = R /\ \A x \in Keys : x # k => responders'[x] = responders[x]
    BY <1>t, <2>1
  <2>10. \A x \in Keys : x # k => (InProgress(x)' <=> InProgress(x))
    BY <1>p, <2>1, <2>4, <2>5
  <2>11. InProgress(k)'
    BY <1>d, <2>4, <2>5
  <2> QED
    BY <1>m, <2>1, <2>3, <2>5, <2>6, <2>7, <2>8, <2>9, <2>10, <2>11 DEF Downloads, d
<1>3. CASE Enqueue(k, R, origin)
  <2>1. /\ ~InProgress(k) /\ ~CanStart(origin, active) /\ active' = active
        /\ queue' = Append(queue, d)
        /\ responders' = [responders EXCEPT ![k] = R]
    BY <1>3 DEF Enqueue, d
  <2>2. active[k] = None /\ \A i \in DOMAIN queue : queue[i].key # k
    BY <1>p, <2>1
  <2>3. /\ queue' \in Seq(DownloadType)
        /\ DOMAIN queue' = DOMAIN queue \union {Len(queue) + 1}
        /\ Len(queue) + 1 \notin DOMAIN queue
        /\ queue'[Len(queue) + 1] = d
        /\ \A i \in DOMAIN queue : queue'[i] = queue[i]
    BY <1>t, <1>d, <2>1, AppendElements
  <2> DEFINE last == Len(queue) + 1
  <2> HIDE DEF last
  <2>3a. /\ DOMAIN queue' = DOMAIN queue \union {last} /\ queue'[last] = d
         /\ last \notin DOMAIN queue
    BY <2>3 DEF last
  <2>4. DownloadsTyped'
    BY <1>t, <1>m, <2>1, <2>3 DEF DownloadsTyped
  <2>5. \A x \in Keys :
          InProgress(x)' <=> active'[x] # None \/ \E i \in DOMAIN queue' : queue'[i].key = x
    <3>1. \A i \in DOMAIN queue' : queue'[i] \in DownloadType
      BY <2>3, ElementTyped
    <3> QED
      BY <3>1 DEF InProgress, Downloading, Queued, DownloadType
  <2>6. DownloadsCurrent'
    BY <1>d, <2>1, <2>3, <2>3a DEF Downloads, DownloadsCurrent
  <2>7. DownloadsOnce'
    BY <1>d, <2>1, <2>2, <2>3, <2>3a DEF Downloads, DownloadsOnce
  <2>8. QueueIsBlocked'
    BY <1>d, <2>1, <2>3, <2>3a DEF Downloads, QueueIsBlocked
  <2>9. responders'[k] = R /\ \A x \in Keys : x # k => responders'[x] = responders[x]
    BY <1>t, <2>1
  <2>10. \A x \in Keys : x # k => (InProgress(x)' <=> InProgress(x))
    BY <1>p, <1>d, <2>1, <2>3, <2>3a, <2>5
  <2>11. InProgress(k)'
    BY <1>d, <2>3, <2>3a, <2>5
  <2>12. \A i \in DOMAIN queue' : (i \in DOMAIN queue /\ queue'[i] = queue[i]) \/ queue'[i] = d
    BY <2>3, <2>3a
  <2> QED
    BY <1>m, <2>1, <2>4, <2>6, <2>7, <2>8, <2>9, <2>10, <2>11, <2>12 DEF Downloads, d
<1> QED
  BY <1>1, <1>2, <1>3 DEF Schedule

(* The end of the download of k, startQueuedDownloads included: at most    *)
(* one queued download becomes active.                                     *)
LEMMA Ended ==
  ASSUME NEW k \in Keys, active[k] # None, Downloads, DownloadEnds(k), url' = url
  PROVE  /\ Downloads'
         /\ marks' = marks \ {k}
         /\ ~InProgress(k)' /\ responders'[k] = {}
         /\ \A x \in Keys :
              x # k => responders'[x] = responders[x] /\ (InProgress(x)' <=> InProgress(x))
         /\ \A x \in Keys :
              active'[x] # None =>
                \/ active'[x] = active[x]
                \/ \E i \in DOMAIN queue : queue[i] = active'[x] /\ queue[i].key = x
         /\ \A i \in DOMAIN queue' : \E j \in DOMAIN queue : queue'[i] = queue[j]
<1> DEFINE rest == [active EXCEPT ![k] = None]
           eligible == {i \in DOMAIN queue : CanStart(queue[i].origin, rest)}
<1>t. /\ active \in [Keys -> DownloadType \union {None}]
      /\ queue \in Seq(DownloadType)
      /\ responders \in [Keys -> SUBSET ResponseKeys]
      /\ marks \subseteq Keys
  BY DEF Downloads, DownloadsTyped
<1>e. \A i \in DOMAIN queue : queue[i] \in DownloadType /\ queue[i] # None /\ queue[i].key \in Keys
  BY HeldInProgress, RasterAssumption DEF Downloads, DownloadType
<1>p. \A x \in Keys :
        InProgress(x) <=> active[x] # None \/ \E i \in DOMAIN queue : queue[i].key = x
  BY HeldInProgress DEF Downloads
<1>o. /\ \A i, j \in DOMAIN queue : queue[i].key = queue[j].key => i = j
      /\ \A i \in DOMAIN queue : active[queue[i].key] = None
      /\ \A i \in DOMAIN queue : queue[i].key # k
  BY DEF Downloads, DownloadsOnce
<1>c. /\ \A x \in Keys : active[x] # None => active[x].key = x /\ active[x].url = url
      /\ \A i \in DOMAIN queue : queue[i].url = url
  BY DEF Downloads, DownloadsCurrent
<1>1. /\ responders' = [responders EXCEPT ![k] = {}]
      /\ marks' = marks \ {k}
      /\ \/ eligible = {} /\ active' = rest /\ queue' = queue
         \/ \E first \in eligible :
              /\ active' = [rest EXCEPT ![queue[first].key] = queue[first]]
              /\ queue' = RemoveAt(queue, first)
  BY DEF DownloadEnds
<1>2. responders'[k] = {} /\ \A x \in Keys : x # k => responders'[x] = responders[x]
  BY <1>t, <1>1
<1>3. /\ rest \in [Keys -> DownloadType \union {None}]
      /\ rest[k] = None /\ \A x \in Keys \ {k} : rest[x] = active[x]
  BY <1>t
<1> HIDE DEF rest
<1>4. /\ Cardinality(Downloading(rest)) \in Nat
      /\ Cardinality(Downloading(active)) = Cardinality(Downloading(rest)) + 1
      /\ \A o \in Origins :
           /\ Cardinality(ByOrigin(rest, o)) \in Nat
           /\ Cardinality(ByOrigin(active, o)) =
                Cardinality(ByOrigin(rest, o)) + IF active[k].origin = o THEN 1 ELSE 0
  <2>1. active[k] \in DownloadType /\ \A x \in Keys \ {k} : active[x] = rest[x]
    BY <1>t, <1>3
  <2> QED
    BY <1>t, <1>3, <2>1, Started
<1>5. /\ \A o \in Origins :
           /\ CanStart(o, active) <=>
                /\ Cardinality(Downloading(active)) < MaxActive
                /\ Cardinality(ByOrigin(active, o)) < MaxPerOrigin
           /\ CanStart(o, rest) <=>
                /\ Cardinality(Downloading(rest)) < MaxActive
                /\ Cardinality(ByOrigin(rest, o)) < MaxPerOrigin
      /\ \A i \in DOMAIN queue : queue[i].origin \in Origins
  <2>1. \A o \in Origins :
          CanStart(o, rest) <=>
            /\ Cardinality(Downloading(rest)) < MaxActive
            /\ Cardinality(ByOrigin(rest, o)) < MaxPerOrigin
    BY <1>t, <1>3, BlockedMeans
  <2>2. /\ \A o \in Origins :
             CanStart(o, active) <=>
               /\ Cardinality(Downloading(active)) < MaxActive
               /\ Cardinality(ByOrigin(active, o)) < MaxPerOrigin
        /\ \A i \in DOMAIN queue : queue[i].origin \in Origins
    BY <1>t, BlockedMeans
  <2> QED
    BY <2>1, <2>2
<1>6. /\ Cardinality(Downloading(active)) <= MaxActive
      /\ \A o \in Origins : Cardinality(ByOrigin(active, o)) <= MaxPerOrigin
      /\ \A i \in DOMAIN queue : ~CanStart(queue[i].origin, active)
  BY DEF Downloads, QueueIsBlocked, ByOrigin
<1>7. CASE eligible = {} /\ active' = rest /\ queue' = queue
  <2>1. DownloadsTyped'
    BY <1>t, <1>1, <1>3, <1>7 DEF DownloadsTyped
  <2>2. DownloadsCurrent' /\ DownloadsOnce'
    BY <1>c, <1>o, <1>e, <1>3, <1>7 DEF DownloadsCurrent, DownloadsOnce
  <2>3. QueueIsBlocked'
    <3>1. Cardinality(Downloading(rest)) <= MaxActive
      BY <1>4, <1>6, RasterAssumption
    <3>2. \A o \in Origins : Cardinality(ByOrigin(rest, o)) <= MaxPerOrigin
      BY <1>4, <1>6, RasterAssumption
    <3>3. \A i \in DOMAIN queue : ~CanStart(queue[i].origin, rest)
      BY <1>7
    <3> HIDE DEF eligible
    <3> QED
      BY <1>7, <3>1, <3>2, <3>3 DEF QueueIsBlocked, ByOrigin
  <2>4. \A x \in Keys :
          InProgress(x)' <=> active'[x] # None \/ \E i \in DOMAIN queue' : queue'[i].key = x
    BY <1>e, <1>7 DEF InProgress, Downloading, Queued
  <2>5. /\ ~InProgress(k)'
        /\ \A x \in Keys : x # k => (InProgress(x)' <=> InProgress(x))
    BY <1>p, <1>o, <1>3, <1>7, <2>4
  <2>6. \A x \in Keys : active'[x] # None => active'[x] = active[x]
    BY <1>3, <1>7
  <2> HIDE DEF eligible
  <2> QED
    BY <1>1, <1>2, <1>7, <2>1, <2>2, <2>3, <2>5, <2>6 DEF Downloads
<1>8. ASSUME NEW first \in eligible,
             active' = [rest EXCEPT ![queue[first].key] = queue[first]],
             queue' = RemoveAt(queue, first)
      PROVE  /\ Downloads' /\ ~InProgress(k)'
             /\ \A x \in Keys : x # k => (InProgress(x)' <=> InProgress(x))
             /\ \A x \in Keys :
                  active'[x] # None =>
                    \/ active'[x] = active[x]
                    \/ \E i \in DOMAIN queue : queue[i] = active'[x] /\ queue[i].key = x
             /\ \A i \in DOMAIN queue' : \E j \in DOMAIN queue : queue'[i] = queue[j]
  <2> DEFINE d == queue[first]
             c == queue[first].key
  <2>1. /\ first \in DOMAIN queue /\ CanStart(d.origin, rest)
        /\ d \in DownloadType /\ d # None /\ d.key = c /\ c \in Keys /\ c # k /\ d.url = url
    BY <1>e, <1>o, <1>c
  <2>2. rest[c] = None
    BY <1>3, <1>o, <2>1
  <2>3. /\ active' \in [Keys -> DownloadType \union {None}]
        /\ active'[c] = d /\ \A x \in Keys \ {c} : active'[x] = rest[x]
    BY <1>3, <1>8, <2>1
  <2>4. /\ queue' \in Seq(DownloadType)
        /\ \A i \in DOMAIN queue' : \E j \in DOMAIN queue : j # first /\ queue'[i] = queue[j]
        /\ \A j \in DOMAIN queue : j # first => \E i \in DOMAIN queue' : queue'[i] = queue[j]
        /\ \A i1, i2 \in DOMAIN queue' : i1 # i2 =>
             \E j1, j2 \in DOMAIN queue :
               j1 # j2 /\ queue'[i1] = queue[j1] /\ queue'[i2] = queue[j2]
    BY <1>t, <1>8, <2>1, RemoveAtKeeps, RemoveAtElements
  <2>k. \A j \in DOMAIN queue : j # first => queue[j].key # c
    BY <1>o, <2>1
  <2>d. queue[first] = d
    OBVIOUS
  <2> HIDE DEF d, c
  <2>5. DownloadsTyped'
    BY <1>t, <1>1, <2>3, <2>4 DEF DownloadsTyped
  <2>6. DownloadsCurrent'
    <3>1. ASSUME NEW x \in Keys, active'[x] # None
          PROVE  active'[x].key = x /\ active'[x].url = url
      <4>1. CASE x = c
        BY <2>1, <2>3, <4>1
      <4>2. CASE x # c
        BY <1>c, <1>3, <2>3, <3>1, <4>2
      <4> QED
        BY <4>1, <4>2
    <3>2. \A i \in DOMAIN queue' : queue'[i].url = url
      BY <1>c, <2>4
    <3> QED
      BY <3>1, <3>2 DEF DownloadsCurrent
  <2>7. DownloadsOnce'
    <3>1. ASSUME NEW i1 \in DOMAIN queue', NEW i2 \in DOMAIN queue', i1 # i2
          PROVE  queue'[i1].key # queue'[i2].key
      BY <1>o, <2>4, <3>1
    <3>2. ASSUME NEW i \in DOMAIN queue' PROVE active'[queue'[i].key] = None
      <4>1. PICK j \in DOMAIN queue : j # first /\ queue'[i] = queue[j]
        BY <2>4
      <4>2. queue[j].key \in Keys \ {c} /\ queue[j].key # k
        BY <1>e, <1>o, <2>k, <4>1
      <4> QED
        BY <1>3, <1>o, <2>3, <4>1, <4>2
    <3> QED
      BY <3>1, <3>2 DEF DownloadsOnce
  <2>8. QueueIsBlocked'
    <3>1. /\ Cardinality(Downloading(active')) = Cardinality(Downloading(rest)) + 1
          /\ \A o \in Origins :
               Cardinality(ByOrigin(active', o)) =
                 Cardinality(ByOrigin(rest, o)) + IF d.origin = o THEN 1 ELSE 0
      BY <1>3, <2>1, <2>2, <2>3, Started
    <3>2. \A o \in Origins :
            CanStart(o, active') <=>
              /\ Cardinality(Downloading(active')) < MaxActive
              /\ Cardinality(ByOrigin(active', o)) < MaxPerOrigin
      BY <1>t, <2>3, BlockedMeans
    <3>3. d.origin \in Origins
      BY <2>1 DEF DownloadType
    <3>4. active[k].origin \in Origins
      BY <1>t DEF DownloadType
    <3>5. Cardinality(Downloading(active')) <= MaxActive
      BY <1>4, <1>6, <3>1
    <3>6. /\ Cardinality(Downloading(rest)) < MaxActive
          /\ Cardinality(ByOrigin(rest, d.origin)) < MaxPerOrigin
      BY <1>5, <2>1, <3>3
    <3>7. \A o \in Origins : Cardinality(ByOrigin(active', o)) <= MaxPerOrigin
      BY <1>4, <1>6, <3>1, <3>3, <3>6, RasterAssumption
    <3>8. ASSUME NEW i \in DOMAIN queue PROVE ~CanStart(queue[i].origin, active')
      <4> DEFINE o == queue[i].origin
      <4> SUFFICES ~CanStart(o, active')
        OBVIOUS
      <4>1. o \in Origins
        BY <1>5
      <4>2. ~CanStart(o, active) /\ ~CanStart(d.origin, active)
        BY <1>6, <2>1, <2>d
      <4> HIDE DEF o
      <4>3. CASE Cardinality(Downloading(active)) >= MaxActive
        BY <1>4, <3>1, <3>2, <4>1, <4>3, RasterAssumption
      <4>4. CASE Cardinality(Downloading(active)) < MaxActive
        <5>1. /\ ~(Cardinality(ByOrigin(active, o)) < MaxPerOrigin)
              /\ ~(Cardinality(ByOrigin(active, d.origin)) < MaxPerOrigin)
          BY <1>5, <3>3, <4>1, <4>2, <4>4
        <5>2. active[k].origin = d.origin
          BY <1>4, <3>3, <3>6, <5>1
        <5>3. Cardinality(ByOrigin(active', o)) = Cardinality(ByOrigin(active, o))
          BY <1>4, <3>1, <4>1, <5>2
        <5> QED
          BY <3>2, <4>1, <5>1, <5>3
      <4>5. Cardinality(Downloading(active)) \in Nat
        BY <1>4
      <4> QED
        BY <4>3, <4>4, <4>5, RasterAssumption
    <3>9. \A i \in DOMAIN queue' : ~CanStart(queue'[i].origin, active')
      BY <2>4, <3>8
    <3> QED
      BY <3>5, <3>7, <3>9 DEF QueueIsBlocked, ByOrigin
  <2>9. \A x \in Keys :
          InProgress(x)' <=> active'[x] # None \/ \E i \in DOMAIN queue' : queue'[i].key = x
    <3>1. \A i \in DOMAIN queue' : queue'[i] # None
      BY <1>e, <2>4
    <3> QED
      BY <3>1 DEF InProgress, Downloading, Queued
  <2>10. ASSUME NEW x \in Keys, x # k PROVE InProgress(x)' <=> InProgress(x)
    <3>1. CASE x = c
      BY <1>p, <2>1, <2>3, <2>9, <2>d, <3>1
    <3>2. CASE x # c
      <4>1. active'[x] = active[x]
        BY <1>3, <2>3, <2>10, <3>2
      <4>2. (\E i \in DOMAIN queue' : queue'[i].key = x) <=> \E i \in DOMAIN queue : queue[i].key = x
        BY <2>1, <2>4, <2>d, <3>2
      <4> QED
        BY <1>p, <2>9, <4>1, <4>2
    <3> QED
      BY <3>1, <3>2
  <2>11. ~InProgress(k)'
    BY <1>3, <1>o, <2>1, <2>3, <2>4, <2>9
  <2>12. ASSUME NEW x \in Keys, active'[x] # None
         PROVE  \/ active'[x] = active[x]
                \/ \E i \in DOMAIN queue : queue[i] = active'[x] /\ queue[i].key = x
    BY <1>3, <2>1, <2>3, <2>d, <2>12
  <2> QED
    BY <2>4, <2>5, <2>6, <2>7, <2>8, <2>10, <2>11, <2>12 DEF Downloads
<1> HIDE DEF eligible
<1> QED
  BY <1>1, <1>2, <1>7, <1>8

(* cancelUpstreamDownloads: none is left, and no mark of one.              *)
LEMMA Cancelled ==
  ASSUME Downloads, CancelDownloads
  PROVE  /\ Downloads'
         /\ \A x \in Keys : active'[x] = None /\ ~InProgress(x)' /\ responders'[x] = {}
         /\ DOMAIN queue' = {}
         /\ marks' \subseteq marks /\ \A x \in marks' : ~InProgress(x)
<1>1. /\ active' = [x \in Keys |-> None] /\ queue' = << >>
      /\ responders' = [x \in Keys |-> {}]
      /\ marks' = marks \ (Downloading(active) \union Queued)
  BY DEF CancelDownloads
<1>2. marks \subseteq Keys
  BY DEF Downloads, DownloadsTyped
<1>3. queue' \in Seq(DownloadType) /\ DOMAIN queue' = {}
  BY <1>1, EmptySeq
<1>4. Downloading(active') = {}
  BY <1>1 DEF Downloading
<1>5. DownloadsTyped'
  BY <1>1, <1>2, <1>3 DEF DownloadsTyped
<1>6. DownloadsCurrent' /\ DownloadsOnce'
  BY <1>1, <1>3 DEF DownloadsCurrent, DownloadsOnce
<1>7. QueueIsBlocked'
  <2>1. \A o : {x \in Downloading(active') : active'[x].origin = o} = {}
    BY <1>4
  <2> QED
    BY <1>3, <1>4, <2>1, FS_EmptySet, RasterAssumption DEF QueueIsBlocked
<1>8. \A x \in Keys : ~InProgress(x)'
  BY <1>3, <1>4 DEF InProgress, Queued
<1> QED
  BY <1>1, <1>2, <1>3, <1>5, <1>6, <1>7, <1>8 DEF Downloads, InProgress

-----------------------------------------------------------------------------
(* Scheduled writes.                                                       *)

(* A write has the type of its fields.                                     *)
LEMMA WriteFields ==
  ASSUME WorkTyped
  PROVE  \A i \in DOMAIN writes :
           /\ writes[i] \in WriteType
           /\ writes[i].key \in Keys /\ writes[i].tile \in Tiles
           /\ writes[i].to \subseteq ResponseKeys
           /\ writes[i].tile # None /\ writes[i].tile.url \in Urls
<1>1. \A i \in DOMAIN writes : writes[i] \in WriteType
  BY ElementTyped DEF WorkTyped
<1> QED
  BY <1>1, RasterAssumption DEF WriteType, Tiles

(* A change of one write's stage.                                          *)
LEMMA StageChanged ==
  ASSUME WorkTyped, NEW n \in DOMAIN writes, NEW st \in {"queued", "publishing", "done"},
         writes' = [writes EXCEPT ![n].stage = st]
  PROVE  /\ writes' \in Seq(WriteType) /\ DOMAIN writes' = DOMAIN writes
         /\ \A i \in DOMAIN writes :
              /\ writes'[i].key = writes[i].key /\ writes'[i].tile = writes[i].tile
              /\ writes'[i].to = writes[i].to /\ writes'[i].registered = writes[i].registered
              /\ writes'[i].invalidated = writes[i].invalidated
              /\ writes'[i].stage = IF i = n THEN st ELSE writes[i].stage
<1> DEFINE w == [writes[n] EXCEPT !.stage = st]
<1>1. writes[n] \in WriteType
  BY WriteFields
<1>2. /\ w \in WriteType /\ w.key = writes[n].key /\ w.tile = writes[n].tile
      /\ w.to = writes[n].to /\ w.registered = writes[n].registered
      /\ w.invalidated = writes[n].invalidated /\ w.stage = st
  BY <1>1 DEF WriteType
<1>3. writes' = [writes EXCEPT ![n] = w]
  OBVIOUS
<1> HIDE DEF w
<1>4. writes \in Seq(WriteType) /\ n \in 1 .. Len(writes)
  BY LenProperties DEF WorkTyped
<1>5. /\ writes' \in Seq(WriteType) /\ DOMAIN writes' = DOMAIN writes
      /\ \A i \in DOMAIN writes : writes'[i] = IF i = n THEN w ELSE writes[i]
  BY <1>2, <1>3, <1>4, ExceptSeq, LenProperties
<1> QED
  BY <1>2, <1>5

(* Writes that keep what others see of them.                               *)
LEMMA SameWrites ==
  ASSUME DOMAIN writes' = DOMAIN writes,
         \A i \in DOMAIN writes :
           /\ writes'[i].key = writes[i].key /\ writes'[i].tile = writes[i].tile
           /\ writes'[i].to = writes[i].to /\ writes'[i].registered = writes[i].registered,
         url' = url, active' = active, queue' = queue, responders' = responders,
         reads' = reads, asked' = asked, urls_since' = urls_since,
         waiting' = waiting, served' = served, overtaken' = overtaken,
         Addressed, Waiters, OneSource
  PROVE  /\ Addressed' /\ Waiters' /\ OneSource'
         /\ \A k : Writing(k)' <=> Writing(k)
         /\ \A k : InProgress(k)' <=> InProgress(k)
<1>1. \A k : Writing(k)' <=> Writing(k)
  BY DEF Writing
<1>2. \A k : InProgress(k)' <=> InProgress(k)
  BY DEF InProgress, Downloading, Queued
<1>3. Addressed'
  BY DEF Addressed
<1>4. NobodyIsForgotten'
  BY <1>2 DEF Waiters, NobodyIsForgotten
<1>5. WaitersCurrent'
  BY DEF Waiters, WaitersCurrent, Orderly
<1>6. AnsweredFromCurrentUrl'
  BY DEF Waiters, AnsweredFromCurrentUrl, Orderly
<1>7. OneSource'
  BY <1>1, <1>2 DEF OneSource, Orderly
<1> QED
  BY <1>1, <1>2, <1>3, <1>4, <1>5, <1>6, <1>7 DEF Waiters

(* Downloads, marks and what is fresh about them, when nothing changes.    *)
LEMMA SameDownloads ==
  ASSUME url' = url, active' = active, queue' = queue, responders' = responders, marks' = marks,
         Downloads
  PROVE  Downloads'
<1>1. DownloadsTyped' /\ DownloadsCurrent' /\ DownloadsOnce'
  BY DEF Downloads, DownloadsTyped, DownloadsCurrent, DownloadsOnce
<1>2. QueueIsBlocked'
  BY DEF Downloads, QueueIsBlocked, Downloading, CanStart
<1> QED
  BY <1>1, <1>2 DEF Downloads

(* The worker takes a write up: it publishes one that is not invalidated.  *)
LEMMA WriteStartKeeps ==
  ASSUME IInv, NEW n \in DOMAIN writes, WriteStart(n)
  PROVE  IInv'
<1> DEFINE st == IF writes[n].invalidated THEN "done" ELSE "publishing"
<1>1. /\ writes' = [writes EXCEPT ![n].stage = st] /\ writes[n].stage = "queued"
      /\ phase' = phase /\ url' = url /\ generation' = generation /\ memory' = memory
      /\ files' = files /\ reads' = reads /\ deletions' = deletions
      /\ active' = active /\ queue' = queue /\ responders' = responders /\ marks' = marks
      /\ asked' = asked /\ urls_since' = urls_since
      /\ waiting' = waiting /\ answer' = answer /\ served' = served /\ overtaken' = overtaken
  BY DEF WriteStart, downloads, clients, replies
<1>2. /\ st \in {"queued", "publishing", "done"}
      /\ st = "publishing" => ~writes[n].invalidated
      /\ st # "queued"
  OBVIOUS
<1> HIDE DEF st
<1>3. /\ writes' \in Seq(WriteType) /\ DOMAIN writes' = DOMAIN writes
      /\ \A i \in DOMAIN writes :
           /\ writes'[i].key = writes[i].key /\ writes'[i].tile = writes[i].tile
           /\ writes'[i].to = writes[i].to /\ writes'[i].registered = writes[i].registered
           /\ writes'[i].invalidated = writes[i].invalidated
           /\ writes'[i].stage = IF i = n THEN st ELSE writes[i].stage
  <2>1. WorkTyped
    BY DEF IInv
  <2> QED
    BY <1>1, <1>2, <2>1, StageChanged
<1>4. /\ Addressed' /\ Waiters' /\ OneSource'
      /\ \A k : Writing(k)' <=> Writing(k)
      /\ \A k : InProgress(k)' <=> InProgress(k)
  BY <1>1, <1>3, SameWrites DEF IInv
<1>5. Downloads'
  BY <1>1, SameDownloads DEF IInv
<1>6. MarksOwned'
  BY <1>1, <1>4 DEF IInv, MarksOwned
<1>7. StoreTyped' /\ WorkTyped' /\ RequestsTyped'
  BY <1>1, <1>3 DEF IInv, StoreTyped, WorkTyped, RequestsTyped
<1>8. Current'
  BY <1>1 DEF IInv, Current, MemoryIsCurrent, FilesCurrent, ReadsCurrent
<1>9. WritesFresh'
  BY <1>1, <1>2, <1>3 DEF IInv, Undeleted, WritesFresh, Orderly, Fresh
<1>10. DownloadsFresh' /\ ReadsFresh' /\ DeletedStaysDeleted'
  BY <1>1 DEF IInv, Undeleted, DownloadsFresh, ReadsFresh, DeletedStaysDeleted, Orderly, Fresh
<1> QED
  BY <1>4, <1>5, <1>6, <1>7, <1>8, <1>9, <1>10 DEF IInv, Undeleted

(* The worker stores the tile: of an orderly key, it was not deleted.      *)
LEMMA WritePublishKeeps ==
  ASSUME IInv, NEW n \in DOMAIN writes, WritePublish(n)
  PROVE  IInv'
<1> DEFINE t == writes[n].tile
           x == writes[n].key
<1>1. /\ writes' = [writes EXCEPT ![n].stage = "done"] /\ writes[n].stage = "publishing"
      /\ files' = [files EXCEPT ![t.url][x] = t] \/ files' = files
      /\ phase' = phase /\ url' = url /\ generation' = generation /\ memory' = memory
      /\ reads' = reads /\ deletions' = deletions
      /\ active' = active /\ queue' = queue /\ responders' = responders /\ marks' = marks
      /\ asked' = asked /\ urls_since' = urls_since
      /\ waiting' = waiting /\ answer' = answer /\ served' = served /\ overtaken' = overtaken
  BY DEF WritePublish, downloads, clients, replies
<1>3. /\ writes' \in Seq(WriteType) /\ DOMAIN writes' = DOMAIN writes
      /\ \A i \in DOMAIN writes :
           /\ writes'[i].key = writes[i].key /\ writes'[i].tile = writes[i].tile
           /\ writes'[i].to = writes[i].to /\ writes'[i].registered = writes[i].registered
           /\ writes'[i].invalidated = writes[i].invalidated
           /\ writes'[i].stage = IF i = n THEN "done" ELSE writes[i].stage
  BY <1>1, StageChanged DEF IInv
<1>4. /\ Addressed' /\ Waiters' /\ OneSource'
      /\ \A k : Writing(k)' <=> Writing(k)
      /\ \A k : InProgress(k)' <=> InProgress(k)
  BY <1>1, <1>3, SameWrites DEF IInv
<1>5. Downloads'
  BY <1>1, SameDownloads DEF IInv
<1>6. MarksOwned'
  BY <1>1, <1>4 DEF IInv, MarksOwned
<1>f. t \in Tiles /\ t.url \in Urls /\ x \in Keys /\ (Orderly(x) => Fresh(t, x))
  BY <1>1, WriteFields DEF IInv, Undeleted, WritesFresh
<1> HIDE DEF t, x
<1>g. files \in [Urls -> [Keys -> Tiles \union {None}]]
  BY DEF IInv, StoreTyped
<1>2. /\ files' \in [Urls -> [Keys -> Tiles \union {None}]]
      /\ \A u \in Urls : \A k \in Keys :
           files'[u][k] = files[u][k] \/ (u = t.url /\ k = x /\ files'[u][k] = t)
  <2>1. CASE files' = files
    BY <1>g, <2>1
  <2>2. CASE files' = [files EXCEPT ![t.url][x] = t]
    BY <1>f, <1>g, <2>2
  <2> QED
    BY <1>1, <2>1, <2>2
<1>7. StoreTyped' /\ WorkTyped' /\ RequestsTyped'
  BY <1>1, <1>2, <1>3 DEF IInv, StoreTyped, WorkTyped, RequestsTyped
<1>8. Current'
  <2>1. MemoryIsCurrent' /\ ReadsCurrent'
    BY <1>1 DEF IInv, Current, MemoryIsCurrent, ReadsCurrent
  <2>2. FilesCurrent'
    BY <1>2 DEF IInv, Current, FilesCurrent
  <2> QED
    BY <2>1, <2>2 DEF Current
<1>9. WritesFresh'
  BY <1>1, <1>3 DEF IInv, Undeleted, WritesFresh, Orderly, Fresh
<1>10. DownloadsFresh' /\ ReadsFresh'
  BY <1>1 DEF IInv, Undeleted, DownloadsFresh, ReadsFresh, Orderly, Fresh
<1>11. DeletedStaysDeleted'
  BY <1>1, <1>2, <1>f DEF IInv, Undeleted, DeletedStaysDeleted, Orderly, Fresh
<1> QED
  BY <1>4, <1>5, <1>6, <1>7, <1>8, <1>9, <1>10, <1>11 DEF IInv, Undeleted

(* Unregister takes the registration of the writes of a key, no more.      *)
LEMMA Unregistered ==
  ASSUME WorkTyped, NEW k
  PROVE  /\ Unregister(k) \in Seq(WriteType) /\ DOMAIN Unregister(k) = DOMAIN writes
         /\ Len(Unregister(k)) = Len(writes)
         /\ \A i \in DOMAIN writes :
              /\ Unregister(k)[i].key = writes[i].key
              /\ Unregister(k)[i].tile = writes[i].tile
              /\ Unregister(k)[i].to = writes[i].to
              /\ Unregister(k)[i].stage = writes[i].stage
              /\ Unregister(k)[i].invalidated = writes[i].invalidated
              /\ writes[i].key # k => Unregister(k)[i].registered = writes[i].registered
<1> DEFINE U == [i \in DOMAIN writes |->
                   IF writes[i].key = k THEN [writes[i] EXCEPT !.registered = FALSE]
                   ELSE writes[i]]
<1>1. \A i \in DOMAIN writes : writes[i] \in WriteType
  BY WriteFields
<1>2. \A i \in DOMAIN writes :
        /\ U[i] \in WriteType
        /\ U[i].key = writes[i].key /\ U[i].tile = writes[i].tile /\ U[i].to = writes[i].to
        /\ U[i].stage = writes[i].stage /\ U[i].invalidated = writes[i].invalidated
        /\ writes[i].key # k => U[i].registered = writes[i].registered
  BY <1>1 DEF WriteType
<1>3. writes \in Seq(WriteType) /\ Len(writes) \in Nat /\ DOMAIN writes = 1 .. Len(writes)
  BY LenProperties DEF WorkTyped
<1>4. DOMAIN U = DOMAIN writes /\ U = [i \in DOMAIN writes |-> U[i]]
  OBVIOUS
<1>5. Unregister(k) = U
  BY DEF Unregister
<1> HIDE DEF U
<1>6. U \in [1 .. Len(writes) -> WriteType]
  BY <1>2, <1>3, <1>4
<1>7. U \in Seq(WriteType)
  BY <1>3, <1>6, SeqDef
<1>8. Len(U) = Len(writes)
  <2>1. Len(U) \in Nat /\ DOMAIN U = 1 .. Len(U)
    BY <1>7, LenProperties
  <2>2. 1 .. Len(U) = 1 .. Len(writes)
    BY <1>3, <1>4, <2>1
  <2> DEFINE a == Len(U)
             b == Len(writes)
  <2>3. a \in Nat /\ b \in Nat /\ 1 .. a = 1 .. b
    BY <1>3, <2>1, <2>2
  <2> HIDE DEF a, b
  <2>4. ~(a < b)
    <3>1. a < b => b \in 1 .. b /\ b \notin 1 .. a
      BY <2>3
    <3> QED
      BY <2>3, <3>1
  <2>5. ~(b < a)
    <3>1. b < a => a \in 1 .. a /\ a \notin 1 .. b
      BY <2>3
    <3> QED
      BY <2>3, <3>1
  <2>6. a = b
    BY <2>3, <2>4, <2>5
  <2> QED
    BY <2>6 DEF a, b
<1> QED
  BY <1>2, <1>4, <1>5, <1>7, <1>8

(* A write and its watcher are gone.                                       *)
LEMMA WriteGone ==
  ASSUME WorkTyped, NEW n \in DOMAIN writes, NEW k,
         writes' = RemoveAt(Unregister(k), n)
  PROVE  /\ writes' \in Seq(WriteType)
         /\ \A i \in DOMAIN writes' : \E j \in DOMAIN writes :
              /\ j # n
              /\ writes'[i].key = writes[j].key /\ writes'[i].tile = writes[j].tile
              /\ writes'[i].to = writes[j].to /\ writes'[i].stage = writes[j].stage
              /\ writes'[i].invalidated = writes[j].invalidated
              /\ writes[j].key # k => writes'[i].registered = writes[j].registered
         /\ \A j \in DOMAIN writes : j # n => \E i \in DOMAIN writes' :
              writes'[i].key = writes[j].key /\ writes'[i].to = writes[j].to
         /\ \A i1, i2 \in DOMAIN writes' : i1 # i2 => \E j1, j2 \in DOMAIN writes :
              /\ j1 # j2
              /\ writes'[i1].key = writes[j1].key /\ writes'[i2].key = writes[j2].key
<1> DEFINE U == Unregister(k)
<1>1. /\ U \in Seq(WriteType) /\ DOMAIN U = DOMAIN writes
      /\ \A i \in DOMAIN writes :
           /\ U[i].key = writes[i].key /\ U[i].tile = writes[i].tile
           /\ U[i].to = writes[i].to /\ U[i].stage = writes[i].stage
           /\ U[i].invalidated = writes[i].invalidated
           /\ writes[i].key # k => U[i].registered = writes[i].registered
  BY Unregistered
<1>2. writes' = RemoveAt(U, n) /\ n \in DOMAIN U
  BY <1>1
<1> HIDE DEF U
<1>3. /\ writes' \in Seq(WriteType)
      /\ \A i \in DOMAIN writes' : \E j \in DOMAIN U : j # n /\ writes'[i] = U[j]
      /\ \A j \in DOMAIN U : j # n => \E i \in DOMAIN writes' : writes'[i] = U[j]
      /\ \A i1, i2 \in DOMAIN writes' : i1 # i2 =>
           \E j1, j2 \in DOMAIN U : j1 # j2 /\ writes'[i1] = U[j1] /\ writes'[i2] = U[j2]
  BY <1>1, <1>2, RemoveAtKeeps, RemoveAtElements
<1>4. ASSUME NEW i \in DOMAIN writes'
      PROVE  \E j \in DOMAIN writes :
               /\ j # n
               /\ writes'[i].key = writes[j].key /\ writes'[i].tile = writes[j].tile
               /\ writes'[i].to = writes[j].to /\ writes'[i].stage = writes[j].stage
               /\ writes'[i].invalidated = writes[j].invalidated
               /\ writes[j].key # k => writes'[i].registered = writes[j].registered
  <2>1. PICK j \in DOMAIN U : j # n /\ writes'[i] = U[j]
    BY <1>3
  <2>2. /\ writes'[i].key = writes[j].key /\ writes'[i].tile = writes[j].tile
        /\ writes'[i].to = writes[j].to /\ writes'[i].stage = writes[j].stage
        /\ writes'[i].invalidated = writes[j].invalidated
        /\ writes[j].key # k => writes'[i].registered = writes[j].registered
    BY <1>1, <2>1
  <2> QED
    BY <1>1, <2>1, <2>2
<1>5. ASSUME NEW j \in DOMAIN writes, j # n
      PROVE  \E i \in DOMAIN writes' :
               writes'[i].key = writes[j].key /\ writes'[i].to = writes[j].to
  <2>1. PICK i \in DOMAIN writes' : writes'[i] = U[j]
    BY <1>1, <1>3, <1>5
  <2> QED
    BY <1>1, <2>1
<1>6. ASSUME NEW i1 \in DOMAIN writes', NEW i2 \in DOMAIN writes', i1 # i2
      PROVE  \E j1, j2 \in DOMAIN writes :
               /\ j1 # j2
               /\ writes'[i1].key = writes[j1].key /\ writes'[i2].key = writes[j2].key
  <2>1. PICK j1 \in DOMAIN U, j2 \in DOMAIN U :
          j1 # j2 /\ writes'[i1] = U[j1] /\ writes'[i2] = U[j2]
    BY <1>3, <1>6
  <2> QED
    BY <1>1, <2>1
<1> QED
  BY <1>3, <1>4, <1>5, <1>6

(* The watcher of a write answers its requests; for an orderly key there   *)
(* is no download whose mark it could take.                                *)
LEMMA WriteDoneKeeps ==
  ASSUME IInv, NEW n \in DOMAIN writes, WriteDone(n)
  PROVE  IInv'
<1> DEFINE t == writes[n].tile
           k == writes[n].key
           R == writes[n].to
<1>1. /\ writes' = RemoveAt(Unregister(k), n)
      /\ marks' = marks \ {k}
      /\ Tell(R, "ready", t)
      /\ phase' = phase /\ url' = url /\ generation' = generation /\ memory' = memory
      /\ files' = files /\ reads' = reads /\ deletions' = deletions
      /\ active' = active /\ queue' = queue /\ responders' = responders
      /\ asked' = asked /\ urls_since' = urls_since /\ overtaken' = overtaken
  BY DEF WriteDone, TileReady, clients
<1>t. t \in Tiles /\ k \in Keys /\ R \subseteq ResponseKeys
  BY WriteFields DEF IInv
<1>a. \A rk \in R : Canonical[rk] = k
  BY DEF IInv, Addressed
<1>b. /\ writes[n].tile = t /\ writes[n].key = k /\ writes[n].to = R
  OBVIOUS
<1> HIDE DEF t, k, R
<1>2. /\ writes' \in Seq(WriteType)
      /\ \A i \in DOMAIN writes' : \E j \in DOMAIN writes :
           /\ j # n
           /\ writes'[i].key = writes[j].key /\ writes'[i].tile = writes[j].tile
           /\ writes'[i].to = writes[j].to /\ writes'[i].stage = writes[j].stage
           /\ writes'[i].invalidated = writes[j].invalidated
           /\ writes[j].key # k => writes'[i].registered = writes[j].registered
      /\ \A j \in DOMAIN writes : j # n => \E i \in DOMAIN writes' :
           writes'[i].key = writes[j].key /\ writes'[i].to = writes[j].to
      /\ \A i1, i2 \in DOMAIN writes' : i1 # i2 => \E j1, j2 \in DOMAIN writes :
           /\ j1 # j2
           /\ writes'[i1].key = writes[j1].key /\ writes'[i2].key = writes[j2].key
  BY <1>1, WriteGone DEF IInv
<1>3. /\ RequestsTyped'
      /\ waiting' \subseteq waiting
      /\ \A r \in waiting' : asked[r] \notin R
      /\ \A r \in Requests :
           served'[r] = served[r] \/ (r \in waiting /\ asked[r] \in R /\ served'[r] = t)
  BY <1>1, <1>t, Told DEF IInv
<1>4. StoreTyped' /\ WorkTyped'
  BY <1>1, <1>2 DEF IInv, StoreTyped, WorkTyped
<1>5. Downloads'
  <2>1. DownloadsTyped' /\ DownloadsCurrent' /\ DownloadsOnce'
    BY <1>1 DEF IInv, Downloads, DownloadsTyped, DownloadsCurrent, DownloadsOnce
  <2>2. QueueIsBlocked'
    BY <1>1 DEF IInv, Downloads, QueueIsBlocked, Downloading, CanStart
  <2> QED
    BY <2>1, <2>2 DEF Downloads
<1>6. \A x : InProgress(x)' <=> InProgress(x)
  BY <1>1 DEF InProgress, Downloading, Queued
<1>7. MarksOwned'
  BY <1>1, <1>2, <1>6, <1>b DEF IInv, MarksOwned, Writing
<1>8. Addressed'
  BY <1>1, <1>2 DEF IInv, Addressed
<1>9. NobodyIsForgotten'
  <2> SUFFICES ASSUME NEW r \in waiting'
               PROVE  LET c == Canonical[asked[r]]
                      IN \/ InProgress(c) /\ asked[r] \in responders[c]
                         \/ \E i \in DOMAIN writes' : asked[r] \in writes'[i].to
                         \/ \E rd \in reads : asked[r] \in rd.to
    BY <1>1, <1>6 DEF NobodyIsForgotten
  <2>1. r \in waiting /\ asked[r] \notin R
    BY <1>3
  <2>2. \/ LET c == Canonical[asked[r]] IN InProgress(c) /\ asked[r] \in responders[c]
        \/ \E i \in DOMAIN writes : asked[r] \in writes[i].to
        \/ \E rd \in reads : asked[r] \in rd.to
    BY <2>1 DEF IInv, Waiters, NobodyIsForgotten
  <2>3. ASSUME NEW i \in DOMAIN writes, asked[r] \in writes[i].to
        PROVE  \E j \in DOMAIN writes' : asked[r] \in writes'[j].to
    BY <1>2, <1>b, <2>1, <2>3
  <2> QED
    BY <2>2, <2>3
<1>10. WaitersCurrent'
  BY <1>1, <1>2, <1>3 DEF IInv, Waiters, WaitersCurrent, Orderly
<1>11. AnsweredFromCurrentUrl'
  <2>1. \A r \in waiting : asked[r] \in R /\ t # None /\ Orderly(Canonical[asked[r]])
          => t.url \in urls_since[r]
    BY <1>a, <1>b DEF IInv, Waiters, WaitersCurrent
  <2>2. AnsweredFromCurrentUrl
    BY DEF IInv, Waiters
  <2> QED
    BY <1>1, <1>3, <2>1, <2>2, ToldCurrent
<1>12. Current'
  BY <1>1 DEF IInv, Current, MemoryIsCurrent, FilesCurrent, ReadsCurrent
<1>13. OneSource'
  <2>1. \A x : Writing(x)' => Writing(x)
    BY <1>2 DEF Writing
  <2>2. \A x \in Keys : Orderly(x)' /\ Writing(x)' => ~InProgress(x)'
    BY <1>1, <1>6, <2>1 DEF IInv, OneSource, Orderly
  <2>3. ASSUME NEW i \in DOMAIN writes', Orderly(writes'[i].key)
        PROVE  /\ writes'[i].registered
               /\ \A j \in DOMAIN writes' : writes'[j].key = writes'[i].key => j = i
    <3>1. PICK j \in DOMAIN writes :
            /\ j # n /\ writes'[i].key = writes[j].key
            /\ writes[j].key # k => writes'[i].registered = writes[j].registered
      BY <1>2
    <3>2. writes[j].registered
      BY <2>3, <3>1 DEF IInv, OneSource
    <3>3. writes[j].key # k
      BY <1>b, <2>3, <3>1 DEF IInv, OneSource
    <3>4. \A i2 \in DOMAIN writes' : writes'[i2].key = writes'[i].key => i2 = i
      BY <1>2, <2>3 DEF IInv, OneSource
    <3> QED
      BY <3>1, <3>2, <3>3, <3>4
  <2> QED
    BY <1>1, <2>2, <2>3 DEF OneSource, Orderly
<1>14. DownloadsFresh'
  <2>1. Orderly(k) => ~InProgress(k)
    BY <1>b, <1>t DEF IInv, OneSource, Writing
  <2>2. /\ \A i \in DOMAIN queue : queue[i] \in DownloadType
        /\ \A x \in Keys :
             InProgress(x) <=> active[x] # None \/ \E i \in DOMAIN queue : queue[i].key = x
    BY HeldInProgress DEF IInv, Downloads
  <2>3. Orderly(k) => active[k] = None /\ \A i \in DOMAIN queue : queue[i].key # k
    BY <1>t, <2>1, <2>2
  <2> QED
    BY <1>1, <2>3 DEF IInv, Undeleted, DownloadsFresh, Orderly, Fresh
<1>15. WritesFresh'
  <2> SUFFICES ASSUME NEW i \in DOMAIN writes'
               PROVE  (/\ Orderly(writes[i].key)
                       /\ writes[i].stage # "done"
                       /\ writes[i].stage = "queued" => ~writes[i].invalidated
                       => Fresh(writes[i].tile, writes[i].key))'
    BY DEF WritesFresh
  <2>1. PICK j \in DOMAIN writes :
          /\ writes'[i].key = writes[j].key /\ writes'[i].tile = writes[j].tile
          /\ writes'[i].stage = writes[j].stage
          /\ writes'[i].invalidated = writes[j].invalidated
    BY <1>2
  <2>2. WritesFresh
    BY DEF IInv, Undeleted
  <2> QED
    BY <1>1, <2>1, <2>2 DEF WritesFresh, Orderly, Fresh
<1>16. ReadsFresh' /\ DeletedStaysDeleted'
  BY <1>1 DEF IInv, Undeleted, ReadsFresh, DeletedStaysDeleted, Orderly, Fresh
<1> QED
  BY <1>3, <1>4, <1>5, <1>7, <1>8, <1>9, <1>10, <1>11, <1>12, <1>13, <1>14, <1>15, <1>16
     DEF IInv, Waiters, Undeleted

-----------------------------------------------------------------------------
(* The end of a download.                                                  *)

(* A download that runs has the type of a download.                        *)
LEMMA ActiveFields ==
  ASSUME IInv, NEW k \in Keys, active[k] # None
  PROVE  /\ active[k] \in DownloadType /\ active[k].key = k /\ active[k].url = url
         /\ Tile(active[k]) \in Tiles /\ Tile(active[k]) # None /\ Tile(active[k]).url = url
         /\ InProgress(k)
         /\ Orderly(k) => ~Writing(k)
         /\ Orderly(k) /\ k \notin marks => Fresh(Tile(active[k]), k)
<1>1. active[k] \in DownloadType /\ active[k].key = k /\ active[k].url = url
  BY DEF IInv, Downloads, DownloadsTyped, DownloadsCurrent
<1>2. Tile(active[k]) \in Tiles /\ Tile(active[k]) # None /\ Tile(active[k]).url = url
  BY <1>1, RasterAssumption DEF Tile, Tiles, DownloadType
<1>3. InProgress(k)
  BY DEF InProgress, Downloading
<1>4. Orderly(k) => ~Writing(k)
  BY <1>3 DEF IInv, OneSource
<1>5. Orderly(k) /\ k \notin marks => Fresh(Tile(active[k]), k)
  BY DEF IInv, Undeleted, DownloadsFresh
<1> QED
  BY <1>1, <1>2, <1>3, <1>4, <1>5

(* What is said of the other downloads stays true.                         *)
LEMMA EndedFresh ==
  ASSUME IInv, NEW k \in Keys, active[k] # None, DownloadEnds(k),
         url' = url, deletions' = deletions, overtaken' = overtaken
  PROVE  DownloadsFresh'
<1>1. /\ marks' = marks \ {k}
      /\ ~InProgress(k)'
      /\ \A x \in Keys :
           active'[x] # None =>
             \/ active'[x] = active[x]
             \/ \E i \in DOMAIN queue : queue[i] = active'[x] /\ queue[i].key = x
      /\ \A i \in DOMAIN queue' : \E j \in DOMAIN queue : queue'[i] = queue[j]
  BY Ended DEF IInv
<1>2. \A i \in DOMAIN queue : queue[i].key # k
  BY DEF IInv, Downloads, DownloadsOnce
<1>3. /\ \A x \in Keys :
           active[x] # None /\ Orderly(x) /\ x \notin marks => Fresh(Tile(active[x]), x)
      /\ \A i \in DOMAIN queue :
           Orderly(queue[i].key) /\ queue[i].key \notin marks
             => Fresh(Tile(queue[i]), queue[i].key)
  BY DEF IInv, Undeleted, DownloadsFresh
<1>4. ASSUME NEW x \in Keys, active'[x] # None, Orderly(x), x \notin marks'
      PROVE  Fresh(Tile(active'[x]), x)
  <2>1. x # k
    BY <1>1, <1>4 DEF InProgress, Downloading
  <2>2. x \notin marks
    BY <1>1, <1>4, <2>1
  <2>3. CASE active'[x] = active[x]
    BY <1>3, <1>4, <2>2, <2>3
  <2>4. CASE \E i \in DOMAIN queue : queue[i] = active'[x] /\ queue[i].key = x
    BY <1>3, <1>4, <2>2, <2>4
  <2> QED
    BY <1>1, <1>4, <2>3, <2>4
<1>5. ASSUME NEW i \in DOMAIN queue', Orderly(queue'[i].key), queue'[i].key \notin marks'
      PROVE  Fresh(Tile(queue'[i]), queue'[i].key)
  <2>1. PICK j \in DOMAIN queue : queue'[i] = queue[j]
    BY <1>1
  <2>2. queue[j].key \notin marks
    BY <1>1, <1>2, <1>5, <2>1
  <2> QED
    BY <1>3, <1>5, <2>1, <2>2
<1> QED
  BY <1>4, <1>5 DEF DownloadsFresh, Orderly, Fresh, Tile

(* A download ends without a write: its requests are answered.             *)
LEMMA EndedAnswered ==
  ASSUME IInv, NEW k \in Keys, active[k] # None, DownloadEnds(k),
         NEW how \in {"ready", "failed"},
         NEW t \in {Tile(active[k]), None},
         Tell(responders[k], how, t),
         phase' = phase, url' = url, generation' = generation, memory' = memory,
         files' = files, writes' = writes, reads' = reads, deletions' = deletions,
         asked' = asked, urls_since' = urls_since, overtaken' = overtaken
  PROVE  IInv'
<1> DEFINE R == responders[k]
<1>t. t \in Tiles \union {None} /\ (t # None => t.url = url)
  BY ActiveFields
<1>h. how \in {"ready", "failed", "cancelled", "shutdown"}
  OBVIOUS
<1>a. \A rk \in R : Canonical[rk] = k
  BY DEF IInv, Addressed
<1>1. /\ Downloads'
      /\ marks' = marks \ {k}
      /\ ~InProgress(k)' /\ responders'[k] = {}
      /\ \A x \in Keys :
           x # k => responders'[x] = responders[x] /\ (InProgress(x)' <=> InProgress(x))
  BY Ended DEF IInv
<1>2. Tell(R, how, t)
  OBVIOUS
<1>r. responders[k] = R
  OBVIOUS
<1> HIDE DEF R
<1>3. /\ RequestsTyped'
      /\ waiting' \subseteq waiting
      /\ \A r \in waiting' : asked[r] \notin R
      /\ \A r \in Requests :
           served'[r] = served[r] \/ (r \in waiting /\ asked[r] \in R /\ served'[r] = t)
  <2>1. RequestsTyped /\ asked' = asked /\ urls_since' = urls_since /\ overtaken' = overtaken
    BY DEF IInv
  <2>2. CASE how = "ready"
    BY <1>2, <1>t, <2>1, <2>2, Told
  <2>3. CASE how = "failed"
    BY <1>2, <1>t, <2>1, <2>3, Told
  <2> QED
    BY <2>2, <2>3
<1>4. StoreTyped' /\ WorkTyped'
  BY DEF IInv, StoreTyped, WorkTyped
<1>5. MarksOwned'
  <2>1. marks \subseteq Keys
    BY DEF IInv, Downloads, DownloadsTyped
  <2> QED
    BY <1>1, <2>1 DEF IInv, MarksOwned, Writing
<1>6. Addressed'
  BY <1>1 DEF IInv, Addressed
<1>7. NobodyIsForgotten'
  <2> SUFFICES ASSUME NEW r \in waiting'
               PROVE  LET c == Canonical[asked[r]]
                      IN \/ InProgress(c)' /\ asked[r] \in responders'[c]
                         \/ \E i \in DOMAIN writes : asked[r] \in writes[i].to
                         \/ \E rd \in reads : asked[r] \in rd.to
    BY DEF NobodyIsForgotten
  <2>1. r \in waiting /\ asked[r] \notin R /\ Canonical[asked[r]] \in Keys
    <3>1. r \in Requests /\ asked[r] \in ResponseKeys
      BY <1>3 DEF IInv, RequestsTyped
    <3> QED
      BY <1>3, <3>1, RasterAssumption
  <2>2. \/ LET c == Canonical[asked[r]] IN InProgress(c) /\ asked[r] \in responders[c]
        \/ \E i \in DOMAIN writes : asked[r] \in writes[i].to
        \/ \E rd \in reads : asked[r] \in rd.to
    BY <2>1 DEF IInv, Waiters, NobodyIsForgotten
  <2>3. ASSUME InProgress(Canonical[asked[r]]), asked[r] \in responders[Canonical[asked[r]]]
        PROVE  InProgress(Canonical[asked[r]])' /\ asked[r] \in responders'[Canonical[asked[r]]]
    <3> DEFINE c == Canonical[asked[r]]
    <3>1. c \in Keys /\ c # k
      BY <1>r, <2>1, <2>3
    <3>2. asked'[r] = asked[r]
      OBVIOUS
    <3>3. asked[r] \in responders[c] /\ InProgress(c)
      BY <2>3
    <3>4. Canonical[asked'[r]] = c
      OBVIOUS
    <3> HIDE DEF c
    <3>5. responders'[c] = responders[c] /\ (c \in Downloading(active') \union Queued')
      BY <1>1, <3>1, <3>3 DEF InProgress
    <3> QED
      BY <3>3, <3>4, <3>5 DEF InProgress, c
  <2> QED
    BY <2>2, <2>3
<1>8. WaitersCurrent'
  BY <1>3 DEF IInv, Waiters, WaitersCurrent, Orderly
<1>9. AnsweredFromCurrentUrl'
  <2>1. \A r \in waiting : asked[r] \in R /\ t # None /\ Orderly(Canonical[asked[r]])
          => t.url \in urls_since[r]
    BY <1>t DEF IInv, Waiters, WaitersCurrent
  <2>2. AnsweredFromCurrentUrl
    BY DEF IInv, Waiters
  <2> QED
    BY <1>3, <2>1, <2>2, ToldCurrent
<1>10. Current'
  BY DEF IInv, Current, MemoryIsCurrent, FilesCurrent, ReadsCurrent
<1>11. OneSource'
  <2>1. \A x \in Keys : Writing(x)' <=> Writing(x)
    BY DEF Writing
  <2>2. \A x \in Keys : Orderly(x)' /\ Writing(x)' => ~InProgress(x)'
    BY <1>1, <2>1 DEF IInv, OneSource, Orderly
  <2> QED
    BY <2>2 DEF IInv, OneSource, Orderly
<1>12. DownloadsFresh'
  BY EndedFresh
<1>13. WritesFresh' /\ ReadsFresh' /\ DeletedStaysDeleted'
  BY DEF IInv, Undeleted, WritesFresh, ReadsFresh, DeletedStaysDeleted, Orderly, Fresh
<1> QED
  BY <1>1, <1>3, <1>4, <1>5, <1>6, <1>7, <1>8, <1>9, <1>10, <1>11, <1>12, <1>13
     DEF IInv, Waiters, Undeleted

(* A write is added, the writes of its key lose their registration.        *)
LEMMA WriteAdded ==
  ASSUME WorkTyped, NEW k, NEW w \in WriteType,
         writes' = Append(Unregister(k), w)
  PROVE  /\ writes' \in Seq(WriteType)
         /\ DOMAIN writes' = DOMAIN writes \union {Len(writes) + 1}
         /\ Len(writes) + 1 \notin DOMAIN writes
         /\ writes'[Len(writes) + 1] = w
         /\ \A i \in DOMAIN writes :
              /\ writes'[i].key = writes[i].key /\ writes'[i].tile = writes[i].tile
              /\ writes'[i].to = writes[i].to /\ writes'[i].stage = writes[i].stage
              /\ writes'[i].invalidated = writes[i].invalidated
              /\ writes[i].key # k => writes'[i].registered = writes[i].registered
<1> DEFINE U == Unregister(k)
<1>1. /\ U \in Seq(WriteType) /\ DOMAIN U = DOMAIN writes /\ Len(U) = Len(writes)
      /\ \A i \in DOMAIN writes :
           /\ U[i].key = writes[i].key /\ U[i].tile = writes[i].tile
           /\ U[i].to = writes[i].to /\ U[i].stage = writes[i].stage
           /\ U[i].invalidated = writes[i].invalidated
           /\ writes[i].key # k => U[i].registered = writes[i].registered
  BY Unregistered
<1>2. writes' = Append(U, w)
  OBVIOUS
<1> HIDE DEF U
<1>3. /\ writes' \in Seq(WriteType)
      /\ DOMAIN writes' = DOMAIN U \union {Len(U) + 1}
      /\ Len(U) + 1 \notin DOMAIN U
      /\ writes'[Len(U) + 1] = w
      /\ \A i \in DOMAIN U : writes'[i] = U[i]
  BY <1>1, <1>2, AppendElements
<1> QED
  BY <1>1, <1>3

(* A download ends in RAM and in a write, which takes over its requests.   *)
LEMMA EndedStored ==
  ASSUME IInv, NEW k \in Keys, active[k] # None, DownloadEnds(k), k \notin marks,
         Remember(k, Tile(active[k])), writes' = Append(Unregister(k), NewWrite(k)),
         phase' = phase, url' = url, generation' = generation,
         files' = files, reads' = reads, deletions' = deletions,
         asked' = asked, urls_since' = urls_since, overtaken' = overtaken,
         waiting' = waiting, answer' = answer, served' = served
  PROVE  IInv'
<1> DEFINE w == NewWrite(k)
           t == Tile(active[k])
           last == Len(writes) + 1
<1>t. /\ t \in Tiles /\ t # None /\ t.url = url /\ InProgress(k)
      /\ Orderly(k) => ~Writing(k) /\ Fresh(t, k)
  BY ActiveFields
<1>w. /\ w \in WriteType /\ w.key = k /\ w.tile = t /\ w.to = responders[k]
      /\ w.stage = "queued" /\ w.registered /\ ~w.invalidated
  <2>1. responders[k] \subseteq ResponseKeys
    BY DEF IInv, Downloads, DownloadsTyped
  <2> QED
    BY <1>t, <2>1 DEF NewWrite, WriteType
<1>0. writes' = Append(Unregister(k), w) /\ Remember(k, t)
  OBVIOUS
<1> HIDE DEF w, t
<1>1. /\ Downloads'
      /\ marks' = marks \ {k}
      /\ ~InProgress(k)' /\ responders'[k] = {}
      /\ \A x \in Keys :
           x # k => responders'[x] = responders[x] /\ (InProgress(x)' <=> InProgress(x))
  BY Ended DEF IInv
<1>2. /\ writes' \in Seq(WriteType)
      /\ DOMAIN writes' = DOMAIN writes \union {last}
      /\ last \notin DOMAIN writes
      /\ writes'[last] = w
      /\ \A i \in DOMAIN writes :
           /\ writes'[i].key = writes[i].key /\ writes'[i].tile = writes[i].tile
           /\ writes'[i].to = writes[i].to /\ writes'[i].stage = writes[i].stage
           /\ writes'[i].invalidated = writes[i].invalidated
           /\ writes[i].key # k => writes'[i].registered = writes[i].registered
  BY <1>0, <1>w, WriteAdded DEF IInv
<1> HIDE DEF last
<1>3. /\ memory' \in [Keys -> Tiles \union {None}]
      /\ \A x \in Keys :
           memory'[x] = None \/ memory'[x] = memory[x] \/ (x = k /\ memory'[x] = t)
  BY <1>0, <1>t, Remembered DEF IInv, StoreTyped
<1>4. StoreTyped' /\ WorkTyped' /\ RequestsTyped'
  BY <1>2, <1>3 DEF IInv, StoreTyped, WorkTyped, RequestsTyped
<1>5. \A x : Writing(x)' <=> Writing(x) \/ x = k
  BY <1>2, <1>w DEF Writing
<1>6. MarksOwned'
  <2>1. marks \subseteq Keys
    BY DEF IInv, Downloads, DownloadsTyped
  <2> QED
    BY <1>1, <1>5, <2>1 DEF IInv, MarksOwned
<1>7. Addressed'
  <2>1. \A rk \in w.to : Canonical[rk] = w.key
    BY <1>w DEF IInv, Addressed
  <2>2. \A i \in DOMAIN writes' : \A rk \in writes'[i].to : Canonical[rk] = writes'[i].key
    BY <1>2, <2>1 DEF IInv, Addressed
  <2>3. \A x \in Keys : \A rk \in responders'[x] : Canonical[rk] = x
    BY <1>1 DEF IInv, Addressed
  <2> QED
    BY <2>2, <2>3 DEF IInv, Addressed
<1>8. NobodyIsForgotten'
  <2> SUFFICES ASSUME NEW r \in waiting
               PROVE  LET c == Canonical[asked[r]]
                      IN \/ InProgress(c)' /\ asked[r] \in responders'[c]
                         \/ \E i \in DOMAIN writes' : asked[r] \in writes'[i].to
                         \/ \E rd \in reads : asked[r] \in rd.to
    BY DEF NobodyIsForgotten
  <2> DEFINE c == Canonical[asked[r]]
  <2>1. c \in Keys
    <3>1. r \in Requests /\ asked[r] \in ResponseKeys
      BY DEF IInv, RequestsTyped
    <3> QED
      BY <3>1, RasterAssumption
  <2>2. \/ InProgress(c) /\ asked[r] \in responders[c]
        \/ \E i \in DOMAIN writes : asked[r] \in writes[i].to
        \/ \E rd \in reads : asked[r] \in rd.to
    BY DEF IInv, Waiters, NobodyIsForgotten
  <2>3. Canonical[asked'[r]] = c
    OBVIOUS
  <2> HIDE DEF c
  <2>4. CASE InProgress(c) /\ asked[r] \in responders[c]
    <3>1. CASE c = k
      BY <1>2, <1>w, <2>4, <3>1
    <3>2. CASE c # k
      <4>1. responders'[c] = responders[c] /\ (c \in Downloading(active') \union Queued')
        BY <1>1, <2>1, <2>4, <3>2 DEF InProgress
      <4> QED
        BY <2>3, <2>4, <4>1 DEF InProgress, c
    <3> QED
      BY <3>1, <3>2
  <2>5. CASE \E i \in DOMAIN writes : asked[r] \in writes[i].to
    BY <1>2, <2>5
  <2> QED
    BY <2>2, <2>4, <2>5
<1>9. WaitersCurrent'
  <2>1. \A r \in waiting : url \in urls_since[r]
    BY DEF IInv, Waiters, WaitersCurrent
  <2>2. \A r \in waiting : \A i \in DOMAIN writes' :
          asked[r] \in writes'[i].to /\ Orderly(writes'[i].key)
            => writes'[i].tile.url \in urls_since[r]
    BY <1>2, <1>w, <1>t, <2>1 DEF IInv, Waiters, WaitersCurrent
  <2> QED
    BY <2>1, <2>2 DEF WaitersCurrent, Orderly
<1>10. AnsweredFromCurrentUrl'
  BY DEF IInv, Waiters, AnsweredFromCurrentUrl, Orderly
<1>11. Current'
  <2>1. MemoryIsCurrent'
    BY <1>3, <1>t DEF IInv, Current, MemoryIsCurrent
  <2>2. FilesCurrent' /\ ReadsCurrent'
    BY DEF IInv, Current, FilesCurrent, ReadsCurrent
  <2> QED
    BY <2>1, <2>2 DEF Current
<1>12. OneSource'
  <2>1. \A x \in Keys : Orderly(x) /\ Writing(x)' => ~InProgress(x)'
    BY <1>1, <1>5 DEF IInv, OneSource
  <2>2. ASSUME NEW i \in DOMAIN writes', Orderly(writes'[i].key)
        PROVE  /\ writes'[i].registered
               /\ \A j \in DOMAIN writes' : writes'[j].key = writes'[i].key => j = i
    <3>1. Orderly(k) => \A j \in DOMAIN writes : writes[j].key # k
      BY <1>t DEF Writing
    <3>2. CASE i = last
      BY <1>2, <1>w, <2>2, <3>1, <3>2
    <3>3. CASE i \in DOMAIN writes
      <4>1. Orderly(writes[i].key) /\ writes[i].key # k
        BY <1>2, <2>2, <3>1, <3>3
      <4>2. writes[i].registered
            /\ \A j \in DOMAIN writes : writes[j].key = writes[i].key => j = i
        BY <3>3, <4>1 DEF IInv, OneSource
      <4> QED
        BY <1>2, <1>w, <3>3, <4>1, <4>2
    <3> QED
      BY <1>2, <3>2, <3>3
  <2> QED
    BY <2>1, <2>2 DEF OneSource, Orderly
<1>13. DownloadsFresh'
  BY EndedFresh
<1>14. WritesFresh'
  <2>1. ASSUME NEW i \in DOMAIN writes', Orderly(writes'[i].key), writes'[i].stage # "done",
               writes'[i].stage = "queued" => ~writes'[i].invalidated
        PROVE  Fresh(writes'[i].tile, writes'[i].key)
    <3>1. CASE i = last
      BY <1>2, <1>w, <1>t, <2>1, <3>1
    <3>2. CASE i \in DOMAIN writes
      BY <1>2, <2>1, <3>2 DEF IInv, Undeleted, WritesFresh
    <3> QED
      BY <1>2, <3>1, <3>2
  <2> QED
    BY <2>1 DEF WritesFresh, Orderly, Fresh
<1>15. ReadsFresh'
  BY DEF IInv, Undeleted, ReadsFresh, Orderly, Fresh
<1>16. DeletedStaysDeleted'
  <2>1. \A x \in Keys : Orderly(x) => Fresh(memory'[x], x)
    BY <1>3, <1>t DEF IInv, Undeleted, DeletedStaysDeleted, Fresh
  <2>2. \A x \in Keys : Orderly(x) => \A u \in Urls : Fresh(files[u][x], x)
    BY DEF IInv, Undeleted, DeletedStaysDeleted
  <2> QED
    BY <2>1, <2>2 DEF DeletedStaysDeleted, Orderly, Fresh
<1> QED
  BY <1>1, <1>4, <1>6, <1>7, <1>8, <1>9, <1>10, <1>11, <1>12, <1>13, <1>14, <1>15, <1>16
     DEF IInv, Waiters, Undeleted

(* A download that finished is answered at once or handed to a writer.     *)
LEMMA DownloadDoneKeeps ==
  ASSUME IInv, NEW k \in Keys, NEW may_store \in BOOLEAN, DownloadDone(k, may_store)
  PROVE  IInv'
<1>1. /\ active[k] # None /\ DownloadEnds(k)
      /\ phase' = phase /\ url' = url /\ generation' = generation
      /\ files' = files /\ reads' = reads /\ deletions' = deletions
      /\ asked' = asked /\ urls_since' = urls_since /\ overtaken' = overtaken
  BY DEF DownloadDone, clients
<1>2. CASE /\ TileReady(responders[k], Tile(active[k]))
           /\ memory' = memory /\ writes' = writes
  BY <1>1, <1>2, EndedAnswered DEF TileReady
<1>3. CASE /\ k \notin marks /\ Remember(k, Tile(active[k]))
           /\ writes' = Append(Unregister(k), NewWrite(k))
           /\ waiting' = waiting /\ answer' = answer /\ served' = served
  BY <1>1, <1>3, EndedStored
<1> QED
  BY <1>2, <1>3 DEF DownloadDone, replies

(* A download that failed answers those who waited for it.                 *)
LEMMA DownloadFailedKeeps ==
  ASSUME IInv, NEW k \in Keys, DownloadFailed(k)
  PROVE  IInv'
<1>1. /\ active[k] # None /\ DownloadEnds(k) /\ Tell(responders[k], "failed", None)
      /\ phase' = phase /\ url' = url /\ generation' = generation /\ memory' = memory
      /\ files' = files /\ writes' = writes /\ reads' = reads /\ deletions' = deletions
      /\ asked' = asked /\ urls_since' = urls_since /\ overtaken' = overtaken
  BY DEF DownloadFailed, TileFailed, clients, caches
<1> QED
  BY <1>1, EndedAnswered

-----------------------------------------------------------------------------
(* Administration.                                                         *)

(* deleteTiles marks what is under way before it removes, and the read     *)
(* generation moves on.                                                    *)
LEMMA DeleteKeeps ==
  ASSUME IInv, NEW S \in SUBSET Keys, NEW removed \in SUBSET S, Delete(S, removed)
  PROVE  IInv'
<1> DEFINE overlaps(w) == w.registered /\ w.key \in S
           busy == Downloading(active) \union Queued
                     \union {writes[i].key : i \in {j \in DOMAIN writes : writes[j].registered}}
           W == [i \in DOMAIN writes |->
                   IF overlaps(writes[i]) THEN [writes[i] EXCEPT !.invalidated = TRUE]
                   ELSE writes[i]]
<1>1. /\ generation < MaxGeneration
      /\ \A i \in Running : ~overlaps(writes[i])
      /\ generation' = generation + 1
      /\ marks' = marks \union (busy \intersect S)
      /\ memory' = [k \in Keys |-> IF k \in S THEN None ELSE memory[k]]
      /\ files' = [files EXCEPT ![url] = [k \in Keys |-> IF k \in removed THEN None ELSE @[k]]]
      /\ deletions' = [deletions EXCEPT ![url] =
           [k \in Keys |-> IF k \in removed THEN @[k] + 1 ELSE @[k]]]
      /\ phase' = phase /\ url' = url /\ reads' = reads
      /\ active' = active /\ queue' = queue /\ responders' = responders
      /\ asked' = asked /\ urls_since' = urls_since
      /\ waiting' = waiting /\ answer' = answer /\ served' = served /\ overtaken' = overtaken
  BY DEF Delete, clients, replies
<1>2. writes' = W
  BY DEF Delete
<1>3. /\ writes' \in Seq(WriteType) /\ DOMAIN writes' = DOMAIN writes
      /\ \A i \in DOMAIN writes :
           /\ writes'[i].key = writes[i].key /\ writes'[i].tile = writes[i].tile
           /\ writes'[i].to = writes[i].to /\ writes'[i].registered = writes[i].registered
           /\ writes'[i].stage = writes[i].stage
           /\ ~writes'[i].invalidated => ~writes[i].invalidated /\ ~overlaps(writes[i])
  <2>1. \A i \in DOMAIN writes : writes[i] \in WriteType
    BY WriteFields DEF IInv
  <2>2. \A i \in DOMAIN writes :
          /\ W[i] \in WriteType
          /\ W[i].key = writes[i].key /\ W[i].tile = writes[i].tile
          /\ W[i].to = writes[i].to /\ W[i].registered = writes[i].registered
          /\ W[i].stage = writes[i].stage
          /\ ~W[i].invalidated => ~writes[i].invalidated /\ ~overlaps(writes[i])
    BY <2>1 DEF WriteType
  <2>3. DOMAIN W = DOMAIN writes /\ W = [i \in DOMAIN writes |-> W[i]]
    OBVIOUS
  <2> HIDE DEF W
  <2>4. Len(writes) \in Nat /\ DOMAIN writes = 1 .. Len(writes)
    BY LenProperties DEF IInv, WorkTyped
  <2>5. W \in [1 .. Len(writes) -> WriteType]
    BY <2>2, <2>3, <2>4
  <2>6. W \in Seq(WriteType)
    BY <2>4, <2>5, SeqDef
  <2> QED
    BY <1>2, <2>2, <2>3, <2>6
<1> HIDE DEF W
<1>4. /\ Addressed' /\ Waiters' /\ OneSource'
      /\ \A k : Writing(k)' <=> Writing(k)
      /\ \A k : InProgress(k)' <=> InProgress(k)
  BY <1>1, <1>3, SameWrites DEF IInv
<1>5. busy \subseteq Keys /\ marks' \subseteq Keys
  <2>1. \A i \in DOMAIN writes : writes[i].key \in Keys
    BY WriteFields DEF IInv
  <2>2. Downloading(active) \subseteq Keys /\ Queued \subseteq Keys /\ marks \subseteq Keys
    BY HeldInProgress DEF IInv, Downloads, DownloadsTyped, Downloading, Queued, DownloadType
  <2> QED
    BY <1>1, <2>1, <2>2
<1>6. Downloads'
  <2>1. DownloadsTyped' /\ DownloadsCurrent' /\ DownloadsOnce'
    BY <1>1, <1>5 DEF IInv, Downloads, DownloadsTyped, DownloadsCurrent, DownloadsOnce
  <2>2. QueueIsBlocked'
    BY <1>1 DEF IInv, Downloads, QueueIsBlocked, Downloading, CanStart
  <2> QED
    BY <2>1, <2>2 DEF Downloads
<1>7. MarksOwned'
  <2>1. \A k \in busy : InProgress(k) \/ Writing(k)
    BY DEF InProgress, Writing
  <2> HIDE DEF busy
  <2> QED
    BY <1>1, <1>4, <2>1 DEF IInv, MarksOwned
<1>8. /\ url \in Urls /\ removed \subseteq Keys
      /\ memory \in [Keys -> Tiles \union {None}]
      /\ files \in [Urls -> [Keys -> Tiles \union {None}]]
      /\ deletions \in [Urls -> [Keys -> 0 .. MaxGeneration]]
      /\ \A u \in Urls : \A k \in Keys : deletions[u][k] <= generation
      /\ generation \in 0 .. MaxGeneration
  BY DEF IInv, StoreTyped
<1>9. /\ memory' \in [Keys -> Tiles \union {None}]
      /\ \A k \in Keys : memory'[k] = IF k \in S THEN None ELSE memory[k]
  <2>1. \A k \in Keys : memory[k] \in Tiles \union {None}
    BY <1>8
  <2> QED
    BY <1>1, <2>1
<1>10. /\ files' \in [Urls -> [Keys -> Tiles \union {None}]]
       /\ \A u \in Urls : \A k \in Keys :
            files'[u][k] = IF u = url /\ k \in removed THEN None ELSE files[u][k]
  <2> DEFINE F == [k \in Keys |-> IF k \in removed THEN None ELSE files[url][k]]
  <2>1. files' = [files EXCEPT ![url] = F]
    BY <1>1
  <2>2. \A k \in Keys : files[url][k] \in Tiles \union {None}
    BY <1>8
  <2>3. /\ F \in [Keys -> Tiles \union {None}]
        /\ \A k \in Keys : F[k] = IF k \in removed THEN None ELSE files[url][k]
    BY <2>2
  <2> HIDE DEF F
  <2> QED
    BY <1>8, <2>1, <2>3
<1>11. /\ deletions' \in [Urls -> [Keys -> 0 .. MaxGeneration]]
       /\ \A u \in Urls : \A k \in Keys :
            /\ deletions'[u][k] <= generation'
            /\ ~(u = url /\ k \in removed) => deletions'[u][k] = deletions[u][k]
  <2> DEFINE F == [k \in Keys |-> IF k \in removed THEN deletions[url][k] + 1
                                  ELSE deletions[url][k]]
  <2>1. deletions' = [deletions EXCEPT ![url] = F]
    BY <1>1
  <2>2. \A k \in Keys :
          /\ deletions[url][k] \in 0 .. MaxGeneration /\ deletions[url][k] <= generation
          /\ deletions[url][k] + 1 \in 0 .. MaxGeneration
    BY <1>1, <1>8, RasterAssumption
  <2>3. F \in [Keys -> 0 .. MaxGeneration]
    BY <2>2
  <2>4. \A k \in Keys :
          F[k] <= generation + 1 /\ (k \notin removed => F[k] = deletions[url][k])
    BY <1>8, <2>2
  <2> HIDE DEF F
  <2>5. deletions' \in [Urls -> [Keys -> 0 .. MaxGeneration]]
    BY <1>8, <2>1, <2>3
  <2>6. \A u \in Urls : deletions'[u] = IF u = url THEN F ELSE deletions[u]
    BY <1>8, <2>1
  <2>7. \A u \in Urls : \A k \in Keys : deletions[u][k] <= generation + 1
    <3>1. \A u \in Urls : \A k \in Keys : deletions[u][k] \in 0 .. MaxGeneration
      BY <1>8
    <3> QED
      BY <1>8, <3>1, RasterAssumption
  <2> QED
    BY <1>1, <2>4, <2>5, <2>6, <2>7
<1>12. StoreTyped' /\ WorkTyped' /\ RequestsTyped'
  <2>1. generation' \in 0 .. MaxGeneration
    BY <1>1, <1>8, RasterAssumption
  <2> QED
    BY <1>1, <1>3, <1>9, <1>10, <1>11, <2>1 DEF IInv, StoreTyped, WorkTyped, RequestsTyped
<1>13. \A rd \in reads : rd.generation <= generation' /\ rd.generation # generation'
  <2>1. \A rd \in reads : rd.generation \in 0 .. MaxGeneration /\ rd.generation <= generation
    BY DEF IInv, WorkTyped, ReadType, Current, ReadsCurrent
  <2> QED
    BY <1>1, <1>8, <2>1, RasterAssumption
<1>14. Current'
  <2>1. MemoryIsCurrent'
    BY <1>1, <1>9 DEF IInv, Current, MemoryIsCurrent
  <2>2. FilesCurrent'
    BY <1>10 DEF IInv, Current, FilesCurrent
  <2>3. ReadsCurrent'
    BY <1>1, <1>13 DEF IInv, Current, ReadsCurrent
  <2> QED
    BY <2>1, <2>2, <2>3 DEF Current
<1>15. ReadsFresh'
  BY <1>1, <1>13 DEF ReadsFresh
<1> DEFINE Fresher(tile, k) == tile # None => tile.epoch >= deletions'[tile.url][k]
<1>f. \A tile \in Tiles, k \in Keys :
        Fresh(tile, k) /\ (tile.url # url \/ k \notin removed) => Fresher(tile, k)
  BY <1>11 DEF Fresh, Tiles
<1>16. DownloadsFresh'
  <2>1. ASSUME NEW k \in Keys, active[k] # None, Orderly(k), k \notin marks'
        PROVE  Fresher(Tile(active[k]), k)
    <3>1. k \in busy
      BY <2>1 DEF Downloading
    <3>2. k \notin marks /\ k \notin removed
      BY <1>1, <2>1, <3>1
    <3>3. Fresh(Tile(active[k]), k) /\ Tile(active[k]) \in Tiles
      BY <2>1, <3>2, ActiveFields
    <3> QED
      BY <1>f, <3>2, <3>3
  <2>2. ASSUME NEW i \in DOMAIN queue, Orderly(queue[i].key), queue[i].key \notin marks'
        PROVE  Fresher(Tile(queue[i]), queue[i].key)
    <3>1. queue[i].key \in busy
      BY DEF Queued
    <3>2. queue[i].key \notin marks /\ queue[i].key \notin removed /\ queue[i].key \in Keys
      BY <1>1, <1>5, <2>2, <3>1
    <3>3. Fresh(Tile(queue[i]), queue[i].key)
      BY <2>2, <3>2 DEF IInv, Undeleted, DownloadsFresh
    <3>4. Tile(queue[i]) \in Tiles
      BY HeldInProgress DEF IInv, Downloads, DownloadType, Tile, Tiles
    <3> QED
      BY <1>f, <3>2, <3>3, <3>4
  <2> QED
    BY <1>1, <2>1, <2>2 DEF DownloadsFresh, Orderly, Fresh
<1>17. WritesFresh'
  <2>1. ASSUME NEW i \in DOMAIN writes, Orderly(writes[i].key), writes[i].stage # "done",
               writes[i].stage = "queued" => ~writes'[i].invalidated
        PROVE  Fresher(writes[i].tile, writes[i].key)
    <3>1. writes[i].registered
      BY <2>1 DEF IInv, OneSource
    <3>2. writes[i].stage \in {"queued", "publishing"}
      BY <2>1, WriteFields DEF IInv, WriteType
    <3>3. CASE writes[i].stage = "publishing"
      <4>1. ~overlaps(writes[i])
        BY <1>1, <3>3 DEF Running
      <4>2. writes[i].key \notin removed
        BY <3>1, <4>1
      <4>3. Fresh(writes[i].tile, writes[i].key)
        BY <2>1, <3>3 DEF IInv, Undeleted, WritesFresh
      <4> QED
        BY <1>f, <4>2, <4>3, WriteFields DEF IInv
    <3>4. CASE writes[i].stage = "queued"
      <4>1. ~writes[i].invalidated /\ ~overlaps(writes[i])
        BY <1>3, <2>1, <3>4
      <4>2. writes[i].key \notin removed
        BY <3>1, <4>1
      <4>3. Fresh(writes[i].tile, writes[i].key)
        BY <2>1, <4>1 DEF IInv, Undeleted, WritesFresh
      <4> QED
        BY <1>f, <4>2, <4>3, WriteFields DEF IInv
    <3> QED
      BY <3>2, <3>3, <3>4
  <2> QED
    BY <1>1, <1>3, <2>1 DEF WritesFresh, Orderly, Fresh
<1>18. DeletedStaysDeleted'
  <2>1. ASSUME NEW k \in Keys, Orderly(k) PROVE Fresher(memory'[k], k)
    <3>1. CASE k \in S
      BY <1>9, <3>1
    <3>2. CASE k \notin S
      BY <1>8, <1>9, <1>f, <2>1, <3>2 DEF IInv, Undeleted, DeletedStaysDeleted
    <3> QED
      BY <3>1, <3>2
  <2>2. ASSUME NEW k \in Keys, Orderly(k), NEW u \in Urls PROVE Fresher(files'[u][k], k)
    <3>1. CASE u = url /\ k \in removed
      BY <1>10, <3>1
    <3>2. CASE files[u][k] = None
      BY <1>10, <3>2
    <3>3. CASE ~(u = url /\ k \in removed) /\ files[u][k] # None
      <4>1. files'[u][k] = files[u][k] /\ files[u][k] \in Tiles
        BY <1>8, <1>10, <3>3
      <4>2. files[u][k].url = u /\ Fresh(files[u][k], k)
        BY <2>2, <3>3 DEF IInv, Current, FilesCurrent, Undeleted, DeletedStaysDeleted
      <4> QED
        BY <1>f, <3>3, <4>1, <4>2
    <3> QED
      BY <3>1, <3>2, <3>3
  <2> QED
    BY <1>1, <2>1, <2>2 DEF DeletedStaysDeleted, Orderly, Fresh
<1> QED
  BY <1>4, <1>6, <1>7, <1>12, <1>14, <1>15, <1>16, <1>17, <1>18 DEF IInv, Undeleted

(* Cancelling answers whoever waits for a download and leaves no download  *)
(* and no mark of one; what a reconfiguration adds meets none of them.     *)
LEMMA CancelledRest ==
  ASSUME IInv, CancelDownloads,
         files' = files, writes' = writes, reads' = reads, deletions' = deletions,
         asked' = asked, overtaken' = overtaken,
         urls_since' \in [Requests -> SUBSET Urls]
  PROVE  /\ RequestsTyped' /\ Downloads' /\ MarksOwned' /\ Addressed' /\ NobodyIsForgotten'
         /\ OneSource' /\ DownloadsFresh' /\ WritesFresh'
         /\ waiting' \subseteq waiting
         /\ \A r \in Requests : served'[r] = served[r] \/ served'[r] = None
<1> DEFINE gone == Downloading(active) \union Queued
           R == UNION {responders[k] : k \in gone}
<1>1. /\ Downloads'
      /\ \A x \in Keys : active'[x] = None /\ ~InProgress(x)' /\ responders'[x] = {}
      /\ DOMAIN queue' = {}
      /\ marks' \subseteq marks /\ \A x \in marks' : ~InProgress(x)
  BY Cancelled DEF IInv
<1>2. Tell(R, "cancelled", None)
  BY DEF CancelDownloads, TileFailed
<1>3. \A k \in Keys : InProgress(k) => responders[k] \subseteq R
  BY DEF InProgress
<1> HIDE DEF R, gone
<1>4. /\ RequestsTyped'
      /\ waiting' \subseteq waiting
      /\ \A r \in waiting' : asked[r] \notin R
      /\ \A r \in Requests :
           served'[r] = served[r] \/ (r \in waiting /\ asked[r] \in R /\ served'[r] = None)
  <2>1. RequestsTyped
    BY DEF IInv
  <2> QED
    BY <1>2, <2>1, ToldAny
<1>5. \A x : Writing(x)' <=> Writing(x)
  BY DEF Writing
<1>6. MarksOwned'
  BY <1>1, <1>5 DEF IInv, MarksOwned
<1>7. Addressed'
  BY <1>1 DEF IInv, Addressed
<1>8. NobodyIsForgotten'
  <2> SUFFICES ASSUME NEW r \in waiting'
               PROVE  \/ \E i \in DOMAIN writes : asked[r] \in writes[i].to
                      \/ \E rd \in reads : asked[r] \in rd.to
    BY DEF NobodyIsForgotten
  <2>1. r \in waiting /\ asked[r] \notin R
    BY <1>4
  <2>2. Canonical[asked[r]] \in Keys
    <3>1. r \in Requests /\ asked[r] \in ResponseKeys
      BY <2>1 DEF IInv, RequestsTyped
    <3> QED
      BY <3>1, RasterAssumption
  <2>3. \/ LET c == Canonical[asked[r]] IN InProgress(c) /\ asked[r] \in responders[c]
        \/ \E i \in DOMAIN writes : asked[r] \in writes[i].to
        \/ \E rd \in reads : asked[r] \in rd.to
    BY <2>1 DEF IInv, Waiters, NobodyIsForgotten
  <2> QED
    BY <1>3, <2>1, <2>2, <2>3
<1>9. OneSource'
  BY <1>1 DEF IInv, OneSource, Orderly
<1>10. DownloadsFresh'
  BY <1>1 DEF DownloadsFresh
<1>11. WritesFresh'
  BY DEF IInv, Undeleted, WritesFresh, Orderly, Fresh
<1> QED
  BY <1>1, <1>4, <1>6, <1>7, <1>8, <1>9, <1>10, <1>11

(* Cancellation answers whoever waits for a download, and only those.      *)
LEMMA CancelKeeps ==
  ASSUME IInv, CancelUpstream
  PROVE  IInv'
<1>1. /\ CancelDownloads
      /\ phase' = phase /\ url' = url /\ generation' = generation /\ memory' = memory
      /\ files' = files /\ writes' = writes /\ reads' = reads /\ deletions' = deletions
      /\ asked' = asked /\ urls_since' = urls_since /\ overtaken' = overtaken
  BY DEF CancelUpstream, clients, caches
<1>2. urls_since' \in [Requests -> SUBSET Urls]
  BY <1>1 DEF IInv, RequestsTyped
<1>3. /\ RequestsTyped' /\ Downloads' /\ MarksOwned' /\ Addressed' /\ NobodyIsForgotten'
      /\ OneSource' /\ DownloadsFresh' /\ WritesFresh'
      /\ waiting' \subseteq waiting
      /\ \A r \in Requests : served'[r] = served[r] \/ served'[r] = None
  BY <1>1, <1>2, CancelledRest
<1>4. StoreTyped' /\ WorkTyped'
  BY <1>1 DEF IInv, StoreTyped, WorkTyped
<1>5. WaitersCurrent'
  BY <1>1, <1>3 DEF IInv, Waiters, WaitersCurrent, Orderly
<1>6. AnsweredFromCurrentUrl'
  BY <1>1, <1>3 DEF IInv, Waiters, AnsweredFromCurrentUrl, Orderly
<1>7. Current'
  BY <1>1 DEF IInv, Current, MemoryIsCurrent, FilesCurrent, ReadsCurrent
<1>8. ReadsFresh' /\ DeletedStaysDeleted'
  BY <1>1 DEF IInv, Undeleted, ReadsFresh, DeletedStaysDeleted, Orderly, Fresh
<1> QED
  BY <1>3, <1>4, <1>5, <1>6, <1>7, <1>8 DEF IInv, Waiters, Undeleted

(* Replacing the URL: whoever still waits may be answered from the new one *)
(* as well, and no read of an earlier generation reaches RAM.              *)
LEMMA ReconfigureKeeps ==
  ASSUME IInv, NEW u \in Urls, Reconfigure(u)
  PROVE  IInv'
<1>1. /\ CancelDownloads /\ generation < MaxGeneration
      /\ url' = u /\ generation' = generation + 1
      /\ memory' = [k \in Keys |-> None]
      /\ urls_since' = [r \in Requests |->
           IF r \in waiting' THEN urls_since[r] \union {u} ELSE urls_since[r]]
      /\ phase' = phase
      /\ files' = files /\ writes' = writes /\ reads' = reads /\ deletions' = deletions
      /\ asked' = asked /\ overtaken' = overtaken
  BY DEF Reconfigure
<1>2. /\ urls_since' \in [Requests -> SUBSET Urls]
      /\ \A r \in Requests :
           urls_since[r] \subseteq urls_since'[r] /\ (r \in waiting' => u \in urls_since'[r])
  <2>1. \A r \in Requests : urls_since[r] \in SUBSET Urls
    BY DEF IInv, RequestsTyped
  <2> QED
    BY <1>1, <2>1
<1>3. /\ RequestsTyped' /\ Downloads' /\ MarksOwned' /\ Addressed' /\ NobodyIsForgotten'
      /\ OneSource' /\ DownloadsFresh' /\ WritesFresh'
      /\ waiting' \subseteq waiting
      /\ \A r \in Requests : served'[r] = served[r] \/ served'[r] = None
  BY <1>1, <1>2, CancelledRest
<1>g. /\ generation \in 0 .. MaxGeneration /\ generation' \in 0 .. MaxGeneration
      /\ deletions \in [Urls -> [Keys -> 0 .. MaxGeneration]]
      /\ \A v \in Urls : \A k \in Keys : deletions[v][k] <= generation
  BY <1>1, RasterAssumption DEF IInv, StoreTyped
<1>4. StoreTyped' /\ WorkTyped'
  <2>1. \A v \in Urls : \A k \in Keys : deletions[v][k] <= generation + 1
    <3>1. \A v \in Urls : \A k \in Keys : deletions[v][k] \in 0 .. MaxGeneration
      BY <1>g
    <3> QED
      BY <1>g, <3>1, RasterAssumption
  <2>2. memory' \in [Keys -> Tiles \union {None}]
    BY <1>1
  <2> QED
    BY <1>1, <1>g, <2>1, <2>2 DEF IInv, StoreTyped, WorkTyped
<1>w. waiting \subseteq Requests
  BY DEF IInv, RequestsTyped
<1>5. WaitersCurrent'
  BY <1>1, <1>2, <1>3, <1>w DEF IInv, Waiters, WaitersCurrent, Orderly
<1>6. AnsweredFromCurrentUrl'
  BY <1>1, <1>2, <1>3 DEF IInv, Waiters, AnsweredFromCurrentUrl, Orderly
<1>r. \A rd \in reads : rd.generation <= generation' /\ rd.generation # generation'
  <2>1. \A rd \in reads : rd.generation \in 0 .. MaxGeneration /\ rd.generation <= generation
    BY DEF IInv, WorkTyped, ReadType, Current, ReadsCurrent
  <2> QED
    BY <1>1, <1>g, <2>1, RasterAssumption
<1>7. Current'
  <2>1. MemoryIsCurrent' /\ FilesCurrent'
    BY <1>1 DEF IInv, Current, MemoryIsCurrent, FilesCurrent
  <2>2. ReadsCurrent'
    BY <1>1, <1>r DEF IInv, Current, ReadsCurrent
  <2> QED
    BY <2>1, <2>2 DEF Current
<1>8. ReadsFresh'
  BY <1>1, <1>r DEF ReadsFresh
<1>9. DeletedStaysDeleted'
  BY <1>1 DEF IInv, Undeleted, DeletedStaysDeleted, Orderly, Fresh
<1> QED
  BY <1>3, <1>4, <1>5, <1>6, <1>7, <1>8, <1>9 DEF IInv, Waiters, Undeleted

(* The destructor of Server answers every promise.                         *)
LEMMA ShutdownKeeps ==
  ASSUME IInv, Shutdown
  PROVE  IInv'
<1>1. /\ phase' = "stopped" /\ Tell(ResponseKeys, "shutdown", None)
      /\ url' = url /\ generation' = generation /\ memory' = memory
      /\ files' = files /\ writes' = writes /\ reads' = reads /\ deletions' = deletions
      /\ active' = active /\ queue' = queue /\ responders' = responders /\ marks' = marks
      /\ asked' = asked /\ urls_since' = urls_since /\ overtaken' = overtaken
  BY DEF Shutdown, clients, caches, downloads
<1>2. /\ RequestsTyped'
      /\ waiting' \subseteq waiting
      /\ \A r \in waiting' : asked[r] \notin ResponseKeys
      /\ \A r \in Requests :
           \/ served'[r] = served[r]
           \/ r \in waiting /\ asked[r] \in ResponseKeys /\ served'[r] = None
  <2>1. RequestsTyped
    BY DEF IInv
  <2> QED
    BY <1>1, <2>1, Told
<1>3. waiting' = {}
  BY <1>2 DEF IInv, RequestsTyped
<1>4. StoreTyped' /\ WorkTyped'
  BY <1>1 DEF IInv, StoreTyped, WorkTyped
<1>5. Downloads'
  BY <1>1, SameDownloads DEF IInv
<1>6. /\ \A x : InProgress(x)' <=> InProgress(x)
      /\ \A x : Writing(x)' <=> Writing(x)
  BY <1>1 DEF InProgress, Downloading, Queued, Writing
<1>7. MarksOwned' /\ Addressed'
  BY <1>1, <1>6 DEF IInv, MarksOwned, Addressed
<1>8. NobodyIsForgotten' /\ WaitersCurrent'
  BY <1>3 DEF NobodyIsForgotten, WaitersCurrent
<1>9. AnsweredFromCurrentUrl'
  BY <1>1, <1>2 DEF IInv, Waiters, AnsweredFromCurrentUrl, Orderly
<1>10. Current'
  BY <1>1 DEF IInv, Current, MemoryIsCurrent, FilesCurrent, ReadsCurrent
<1>11. OneSource'
  BY <1>1, <1>6 DEF IInv, OneSource, Orderly
<1>12. Undeleted'
  <2>1. DownloadsFresh' /\ WritesFresh'
    BY <1>1 DEF IInv, Undeleted, DownloadsFresh, WritesFresh, Orderly, Fresh
  <2>2. ReadsFresh' /\ DeletedStaysDeleted'
    BY <1>1 DEF IInv, Undeleted, ReadsFresh, DeletedStaysDeleted, Orderly, Fresh
  <2> QED
    BY <2>1, <2>2 DEF Undeleted
<1> QED
  BY <1>2, <1>4, <1>5, <1>7, <1>8, <1>9, <1>10, <1>11, <1>12 DEF IInv, Waiters

-----------------------------------------------------------------------------
(* Cache reads.                                                            *)

(* A read has the type of its fields.                                      *)
LEMMA ReadFields ==
  ASSUME IInv, NEW rd \in reads
  PROVE  /\ rd \in ReadType /\ rd.key \in Keys /\ rd.url \in Urls /\ rd.to \subseteq ResponseKeys
         /\ rd.tile \in Tiles \union {None}
         /\ \A rk \in rd.to : Canonical[rk] = rd.key
BY DEF IInv, WorkTyped, ReadType, Addressed

(* The worker finds what the file of its URL holds.                        *)
LEMMA ReadFileKeeps ==
  ASSUME IInv, NEW rd \in reads, ReadFile(rd)
  PROVE  IInv'
<1>1. PICK t \in {files[rd.url][rd.key], None} :
        reads' = (reads \ {rd}) \union {[rd EXCEPT !.done = TRUE, !.tile = t]}
  BY DEF ReadFile
<1> DEFINE new == [rd EXCEPT !.done = TRUE, !.tile = t]
<1>2. /\ phase' = phase /\ url' = url /\ generation' = generation /\ memory' = memory
      /\ files' = files /\ writes' = writes /\ deletions' = deletions
      /\ active' = active /\ queue' = queue /\ responders' = responders /\ marks' = marks
      /\ asked' = asked /\ urls_since' = urls_since
      /\ waiting' = waiting /\ answer' = answer /\ served' = served /\ overtaken' = overtaken
  BY DEF ReadFile, downloads, clients, replies
<1>3. /\ t \in Tiles \union {None}
      /\ t # None => t.url = rd.url
      /\ Orderly(rd.key) => Fresh(t, rd.key)
  <2>1. rd.key \in Keys /\ rd.url \in Urls
    BY ReadFields
  <2>2. files[rd.url][rd.key] \in Tiles \union {None}
    BY <2>1 DEF IInv, StoreTyped
  <2>3. Orderly(rd.key) => Fresh(files[rd.url][rd.key], rd.key)
    BY <2>1 DEF IInv, Undeleted, DeletedStaysDeleted
  <2>4. files[rd.url][rd.key] # None => files[rd.url][rd.key].url = rd.url
    BY <2>1 DEF IInv, Current, FilesCurrent
  <2> QED
    BY <2>2, <2>3, <2>4 DEF Fresh
<1>4. /\ new \in ReadType /\ new.key = rd.key /\ new.generation = rd.generation
      /\ new.url = rd.url /\ new.to = rd.to /\ new.tile = t
  BY <1>3, ReadFields DEF ReadType
<1>5. reads' = (reads \ {rd}) \union {new}
  BY <1>1
<1> HIDE DEF new
<1>6. StoreTyped' /\ WorkTyped' /\ RequestsTyped'
  BY <1>2, <1>4, <1>5 DEF IInv, StoreTyped, WorkTyped, RequestsTyped
<1>7. Downloads'
  BY <1>2, SameDownloads DEF IInv
<1>8. /\ \A x : InProgress(x)' <=> InProgress(x)
      /\ \A x : Writing(x)' <=> Writing(x)
  BY <1>2 DEF InProgress, Downloading, Queued, Writing
<1>9. MarksOwned' /\ Addressed'
  BY <1>2, <1>4, <1>5, <1>8 DEF IInv, MarksOwned, Addressed
<1>10. NobodyIsForgotten'
  <2>1. \A rk : (\E old \in reads : rk \in old.to) => \E next \in reads' : rk \in next.to
    BY <1>4, <1>5
  <2> QED
    BY <1>2, <1>8, <2>1 DEF IInv, Waiters, NobodyIsForgotten
<1>11. WaitersCurrent' /\ AnsweredFromCurrentUrl'
  BY <1>2 DEF IInv, Waiters, WaitersCurrent, AnsweredFromCurrentUrl, Orderly
<1>12. Current'
  <2>1. MemoryIsCurrent' /\ FilesCurrent'
    BY <1>2 DEF IInv, Current, MemoryIsCurrent, FilesCurrent
  <2>2. ReadsCurrent'
    BY <1>2, <1>3, <1>4, <1>5 DEF IInv, Current, ReadsCurrent
  <2> QED
    BY <2>1, <2>2 DEF Current
<1>13. OneSource'
  BY <1>2, <1>8 DEF IInv, OneSource, Orderly
<1>14. Undeleted'
  <2>1. DownloadsFresh' /\ WritesFresh' /\ DeletedStaysDeleted'
    BY <1>2 DEF IInv, Undeleted, DownloadsFresh, WritesFresh, DeletedStaysDeleted, Orderly, Fresh
  <2>2. \A x \in reads' : x.generation = generation /\ Orderly(x.key) => Fresh(x.tile, x.key)
    BY <1>3, <1>4, <1>5 DEF IInv, Undeleted, ReadsFresh
  <2>3. ReadsFresh'
    BY <1>2, <2>2 DEF ReadsFresh, Orderly, Fresh
  <2> QED
    BY <2>1, <2>3 DEF Undeleted
<1> QED
  BY <1>6, <1>7, <1>9, <1>10, <1>11, <1>12, <1>13, <1>14 DEF IInv, Waiters

(* A read ends with an answer, and with its tile in RAM or not.            *)
LEMMA ReadAnswered ==
  ASSUME IInv, NEW rd \in reads, reads' = reads \ {rd},
         NEW t \in Tiles \union {None},
         t # None => t.url = url /\ (Orderly(rd.key) => Fresh(t, rd.key)),
         \/ Tell(rd.to, "ready", t)
         \/ Tell(rd.to, "failed", t)
         \/ Tell(rd.to, "cancelled", t),
         memory' = memory \/ (t # None /\ Remember(rd.key, t)),
         phase' = phase, url' = url, generation' = generation,
         files' = files, writes' = writes, deletions' = deletions,
         active' = active, queue' = queue, responders' = responders, marks' = marks,
         asked' = asked, urls_since' = urls_since, overtaken' = overtaken
  PROVE  IInv'
<1> DEFINE k == rd.key
           R == rd.to
<1>1. k \in Keys /\ R \subseteq ResponseKeys /\ \A rk \in R : Canonical[rk] = k
  BY ReadFields
<1>2. /\ RequestsTyped'
      /\ waiting' \subseteq waiting
      /\ \A r \in waiting' : asked[r] \notin R
      /\ \A r \in Requests :
           served'[r] = served[r] \/ (r \in waiting /\ asked[r] \in R /\ served'[r] = t)
  <2>1. RequestsTyped
    BY DEF IInv
  <2>2. Tell(R, "ready", t) \/ Tell(R, "failed", t) \/ Tell(R, "cancelled", t)
    OBVIOUS
  <2> HIDE DEF R
  <2> QED
    BY <2>1, <2>2, ToldOfRead
<1>3. /\ memory' \in [Keys -> Tiles \union {None}]
      /\ \A x \in Keys :
           memory'[x] = None \/ memory'[x] = memory[x] \/ (t # None /\ x = k /\ memory'[x] = t)
  <2>1. memory \in [Keys -> Tiles \union {None}]
    BY DEF IInv, StoreTyped
  <2>2. CASE memory' = memory
    BY <2>1, <2>2
  <2>3. CASE t # None /\ Remember(k, t)
    BY <1>1, <2>1, <2>3, Remembered
  <2> QED
    BY <2>2, <2>3
<1>k. rd.key = k /\ rd.to = R
  OBVIOUS
<1> HIDE DEF k, R
<1>4. StoreTyped' /\ WorkTyped'
  BY <1>3 DEF IInv, StoreTyped, WorkTyped
<1>5. Downloads'
  BY SameDownloads DEF IInv
<1>6. /\ \A x : InProgress(x)' <=> InProgress(x)
      /\ \A x : Writing(x)' <=> Writing(x)
  BY DEF InProgress, Downloading, Queued, Writing
<1>7. MarksOwned' /\ Addressed'
  BY <1>6 DEF IInv, MarksOwned, Addressed
<1>8. NobodyIsForgotten'
  <2> SUFFICES ASSUME NEW r \in waiting'
               PROVE  LET c == Canonical[asked[r]]
                      IN \/ InProgress(c) /\ asked[r] \in responders[c]
                         \/ \E i \in DOMAIN writes : asked[r] \in writes[i].to
                         \/ \E next \in reads' : asked[r] \in next.to
    BY <1>6 DEF NobodyIsForgotten
  <2>1. r \in waiting /\ asked[r] \notin R
    BY <1>2
  <2> QED
    BY <1>k, <2>1 DEF IInv, Waiters, NobodyIsForgotten
<1>9. WaitersCurrent'
  BY <1>2 DEF IInv, Waiters, WaitersCurrent, Orderly
<1>10. AnsweredFromCurrentUrl'
  <2>1. \A r \in waiting : asked[r] \in R /\ t # None /\ Orderly(Canonical[asked[r]])
          => t.url \in urls_since[r]
    BY DEF IInv, Waiters, WaitersCurrent
  <2>2. AnsweredFromCurrentUrl
    BY DEF IInv, Waiters
  <2> QED
    BY <1>2, <2>1, <2>2, ToldCurrent
<1>11. Current'
  <2>1. MemoryIsCurrent'
    BY <1>3 DEF IInv, Current, MemoryIsCurrent
  <2>2. FilesCurrent' /\ ReadsCurrent'
    BY DEF IInv, Current, FilesCurrent, ReadsCurrent
  <2> QED
    BY <2>1, <2>2 DEF Current
<1>12. OneSource'
  BY <1>6 DEF IInv, OneSource, Orderly
<1>13. Undeleted'
  <2>1. DownloadsFresh' /\ WritesFresh' /\ ReadsFresh'
    BY DEF IInv, Undeleted, DownloadsFresh, WritesFresh, ReadsFresh, Orderly, Fresh
  <2>2. \A x \in Keys : Orderly(x) => Fresh(memory'[x], x)
    BY <1>3, <1>k DEF IInv, Undeleted, DeletedStaysDeleted, Fresh
  <2>3. \A x \in Keys : Orderly(x) => \A u \in Urls : Fresh(files[u][x], x)
    BY DEF IInv, Undeleted, DeletedStaysDeleted
  <2>4. DeletedStaysDeleted'
    BY <2>2, <2>3 DEF DeletedStaysDeleted, Orderly, Fresh
  <2> QED
    BY <2>1, <2>4 DEF Undeleted
<1> QED
  BY <1>2, <1>4, <1>5, <1>7, <1>8, <1>9, <1>10, <1>11, <1>12, <1>13 DEF IInv, Waiters

(* A miss of RAM that schedules or joins a download of k: what is said of  *)
(* the stores stays true, and k is no longer orderly if a write is under   *)
(* way.                                                                    *)
LEMMA MissedRest ==
  ASSUME IInv, NEW k \in Keys, NEW R \in SUBSET ResponseKeys, NEW origin \in Origins,
         \A rk \in R : Canonical[rk] = k,
         Schedule(k, R, origin), Miss(k),
         phase' = phase, url' = url, generation' = generation, memory' = memory,
         files' = files, writes' = writes, reads' \subseteq reads, deletions' = deletions
  PROVE  /\ StoreTyped' /\ WorkTyped' /\ Downloads' /\ MarksOwned' /\ Addressed'
         /\ Current' /\ OneSource' /\ Undeleted'
         /\ overtaken \subseteq overtaken' /\ overtaken' \subseteq Keys
         /\ Writing(k) => k \in overtaken'
         /\ InProgress(k)' /\ R \subseteq responders'[k]
         /\ \A x \in Keys :
              InProgress(x) => InProgress(x)' /\ responders[x] \subseteq responders'[x]
<1>1. /\ Downloads'
      /\ marks' = marks
      /\ InProgress(k)' /\ R \subseteq responders'[k]
      /\ responders'[k] \subseteq R \union responders[k]
      /\ \A x \in Keys :
           /\ x # k => responders'[x] = responders[x] /\ (InProgress(x)' <=> InProgress(x))
           /\ InProgress(x) => InProgress(x)' /\ responders[x] \subseteq responders'[x]
      /\ \A x \in Keys :
           active'[x] = active[x] \/ (x = k /\ active'[x] = NewDownload(k, origin))
      /\ \A i \in DOMAIN queue' :
           \/ i \in DOMAIN queue /\ queue'[i] = queue[i]
           \/ queue'[i] = NewDownload(k, origin)
  <2>1. Downloads /\ StoreTyped
    BY DEF IInv
  <2>2. Entered(k, R, origin)
    BY <2>1, Scheduled
  <2> QED
    BY <2>2 DEF Entered
<1>2. /\ overtaken \subseteq overtaken' /\ overtaken' \subseteq Keys
      /\ Writing(k) => k \in overtaken'
  BY DEF Miss, IInv, RequestsTyped
<1>3. \A x : Writing(x)' <=> Writing(x)
  BY DEF Writing
<1>4. StoreTyped' /\ WorkTyped'
  BY DEF IInv, StoreTyped, WorkTyped
<1>5. MarksOwned'
  <2>1. marks \subseteq Keys
    BY DEF IInv, Downloads, DownloadsTyped
  <2> QED
    BY <1>1, <1>3, <2>1 DEF IInv, MarksOwned
<1>6. Addressed'
  <2>1. ASSUME NEW x \in Keys, NEW rk \in responders'[x] PROVE Canonical[rk] = x
    <3>1. CASE x # k
      BY <1>1, <2>1, <3>1 DEF IInv, Addressed
    <3>2. CASE x = k
      <4>1. rk \in R \/ rk \in responders[k]
        BY <1>1, <2>1, <3>2
      <4> QED
        BY <3>2, <4>1 DEF IInv, Addressed
    <3> QED
      BY <3>1, <3>2
  <2> QED
    BY <2>1 DEF IInv, Addressed
<1>7. Current'
  BY DEF IInv, Current, MemoryIsCurrent, FilesCurrent, ReadsCurrent
<1>o. \A x : Orderly(x)' => Orderly(x)
  BY <1>2 DEF Orderly
<1>8. OneSource'
  <2>1. ASSUME NEW x \in Keys, Orderly(x)', Writing(x) PROVE ~InProgress(x)'
    <3>1. x # k
      BY <1>2, <2>1 DEF Orderly
    <3> QED
      BY <1>1, <1>o, <2>1, <3>1 DEF IInv, OneSource
  <2>2. ASSUME NEW i \in DOMAIN writes, Orderly(writes[i].key)'
        PROVE  /\ writes[i].registered
               /\ \A j \in DOMAIN writes : writes[j].key = writes[i].key => j = i
    <3>1. Orderly(writes[i].key)
      BY <1>2, <2>2 DEF Orderly
    <3> QED
      BY <3>1 DEF IInv, OneSource
  <2> QED
    BY <1>3, <2>1, <2>2 DEF OneSource, Orderly
<1>n. Fresh(Tile(NewDownload(k, origin)), k) /\ NewDownload(k, origin).key = k
  BY NewIsFresh DEF IInv
<1>9. DownloadsFresh'
  <2>1. ASSUME NEW x \in Keys, active'[x] # None, Orderly(x), x \notin marks
        PROVE  Fresh(Tile(active'[x]), x)
    BY <1>1, <1>n, <2>1 DEF IInv, Undeleted, DownloadsFresh
  <2>2. ASSUME NEW i \in DOMAIN queue', Orderly(queue'[i].key), queue'[i].key \notin marks
        PROVE  Fresh(Tile(queue'[i]), queue'[i].key)
    <3>1. CASE i \in DOMAIN queue /\ queue'[i] = queue[i]
      BY <2>2, <3>1 DEF IInv, Undeleted, DownloadsFresh
    <3>2. CASE queue'[i] = NewDownload(k, origin)
      BY <1>n, <3>2
    <3> QED
      BY <1>1, <3>1, <3>2
  <2> QED
    BY <1>1, <1>2, <2>1, <2>2 DEF DownloadsFresh, Orderly, Fresh, Tile
<1>10. WritesFresh' /\ ReadsFresh' /\ DeletedStaysDeleted'
  BY <1>2 DEF IInv, Undeleted, WritesFresh, ReadsFresh, DeletedStaysDeleted, Orderly, Fresh
<1> QED
  BY <1>1, <1>2, <1>4, <1>5, <1>6, <1>7, <1>8, <1>9, <1>10 DEF Undeleted

(* A failed read that has to be downloaded: its requests move to the       *)
(* responders of the download.                                             *)
LEMMA ReadRescheduled ==
  ASSUME IInv, NEW rd \in reads, NEW origin \in Origins, reads' = reads \ {rd},
         Schedule(rd.key, rd.to, origin), Miss(rd.key),
         phase' = phase, url' = url, generation' = generation, memory' = memory,
         files' = files, writes' = writes, deletions' = deletions,
         asked' = asked, urls_since' = urls_since,
         waiting' = waiting, answer' = answer, served' = served
  PROVE  IInv'
<1> DEFINE k == rd.key
           R == rd.to
<1>1. k \in Keys /\ R \in SUBSET ResponseKeys /\ \A rk \in R : Canonical[rk] = k
  BY ReadFields
<1>2. /\ StoreTyped' /\ WorkTyped' /\ Downloads' /\ MarksOwned' /\ Addressed'
      /\ Current' /\ OneSource' /\ Undeleted'
      /\ overtaken \subseteq overtaken' /\ overtaken' \subseteq Keys
      /\ InProgress(k)' /\ R \subseteq responders'[k]
      /\ \A x \in Keys :
           InProgress(x) => InProgress(x)' /\ responders[x] \subseteq responders'[x]
  BY <1>1, MissedRest
<1>k. rd.key = k /\ rd.to = R
  OBVIOUS
<1> HIDE DEF k, R
<1>3. RequestsTyped'
  BY <1>2 DEF IInv, RequestsTyped
<1>4. NobodyIsForgotten'
  <2> SUFFICES ASSUME NEW r \in waiting
               PROVE  LET c == Canonical[asked[r]]
                      IN \/ c \in Downloading(active') \union Queued' /\ asked[r] \in responders'[c]
                         \/ \E i \in DOMAIN writes : asked[r] \in writes[i].to
                         \/ \E next \in reads' : asked[r] \in next.to
    BY DEF NobodyIsForgotten, InProgress
  <2> DEFINE c == Canonical[asked[r]]
  <2>1. asked[r] \in ResponseKeys /\ c \in Keys
    <3>1. r \in Requests /\ asked[r] \in ResponseKeys
      BY DEF IInv, RequestsTyped
    <3> QED
      BY <3>1, RasterAssumption
  <2>2. \/ InProgress(c) /\ asked[r] \in responders[c]
        \/ \E i \in DOMAIN writes : asked[r] \in writes[i].to
        \/ \E next \in reads : asked[r] \in next.to
    BY DEF IInv, Waiters, NobodyIsForgotten
  <2>3. asked[r] \in R => c = k
    BY <1>1
  <2> HIDE DEF c
  <2>4. CASE InProgress(c) /\ asked[r] \in responders[c]
    BY <1>2, <2>1, <2>4 DEF InProgress, c
  <2>5. CASE asked[r] \in R
    BY <1>2, <2>3, <2>5 DEF InProgress, c
  <2> QED
    BY <1>k, <2>2, <2>4, <2>5
<1>5. WaitersCurrent' /\ AnsweredFromCurrentUrl'
  BY <1>2 DEF IInv, Waiters, WaitersCurrent, AnsweredFromCurrentUrl, Orderly
<1> QED
  BY <1>2, <1>3, <1>4, <1>5 DEF IInv, Waiters

(* The watcher of a read.                                                  *)
LEMMA ReadDoneKeeps ==
  ASSUME IInv, NEW rd \in reads, NEW origin \in Origins, ReadDone(rd, origin)
  PROVE  IInv'
<1> DEFINE k == rd.key
           R == rd.to
           file == files[url][k]
<1>1. /\ reads' = reads \ {rd}
      /\ phase' = phase /\ url' = url /\ generation' = generation
      /\ files' = files /\ writes' = writes /\ deletions' = deletions
      /\ asked' = asked /\ urls_since' = urls_since
  BY DEF ReadDone, clients
<1>2. k \in Keys /\ url \in Urls /\ rd.tile \in Tiles \union {None}
  BY ReadFields DEF IInv, StoreTyped
<1>3. /\ memory[k] \in Tiles \union {None} /\ file \in Tiles \union {None}
      /\ memory[k] # None => memory[k].url = url
      /\ file # None => file.url = url
      /\ Orderly(k) => Fresh(memory[k], k) /\ Fresh(file, k)
  <2>1. memory[k] \in Tiles \union {None} /\ file \in Tiles \union {None}
    BY <1>2 DEF IInv, StoreTyped
  <2>2. memory[k] # None => memory[k].url = url
    BY <1>2 DEF IInv, Current, MemoryIsCurrent
  <2>3. file # None => file.url = url
    BY <1>2 DEF IInv, Current, FilesCurrent
  <2>4. Orderly(k) => Fresh(memory[k], k) /\ Fresh(file, k)
    BY <1>2 DEF IInv, Undeleted, DeletedStaysDeleted
  <2> QED
    BY <2>1, <2>2, <2>3, <2>4
<1>4. rd.generation = generation =>
        /\ rd.tile # None => rd.tile.url = url
        /\ Orderly(k) => Fresh(rd.tile, k)
  <2>1. rd.generation = generation /\ rd.tile # None => rd.tile.url = url
    BY DEF IInv, Current, ReadsCurrent
  <2>2. rd.generation = generation /\ Orderly(k) => Fresh(rd.tile, k)
    BY DEF IInv, Undeleted, ReadsFresh
  <2> QED
    BY <2>1, <2>2
<1>k. rd.key = k /\ rd.to = R
  OBVIOUS
<1> DEFINE Quiet == /\ active' = active /\ queue' = queue
                    /\ responders' = responders /\ marks' = marks /\ overtaken' = overtaken
           Ends(t, stored) ==
             /\ Tell(R, "ready", t) \/ Tell(R, "failed", t) \/ Tell(R, "cancelled", t)
             /\ memory' = memory \/ (stored /\ t # None /\ Remember(k, t))
             /\ Quiet
<1>5. \/ rd.generation = generation /\ rd.tile # None /\ Ends(rd.tile, TRUE)
      \/ Ends(None, FALSE)
      \/ memory[k] # None /\ Ends(memory[k], FALSE)
      \/ file # None /\ Ends(file, TRUE)
      \/ /\ Schedule(k, R, origin) /\ Miss(k) /\ memory' = memory
         /\ waiting' = waiting /\ answer' = answer /\ served' = served
  <2>1. CASE /\ rd.generation = generation /\ rd.tile # None
             /\ Remember(k, rd.tile) /\ TileReady(R, rd.tile)
             /\ UNCHANGED <<downloads, overtaken>>
    BY <2>1 DEF TileReady, downloads
  <2>2. CASE TileFailed(R, "cancelled") /\ UNCHANGED <<memory, downloads, overtaken>>
    BY <2>2 DEF TileFailed, downloads
  <2>3. CASE Retry(rd, origin)
    <3>1. CASE memory[k] # None /\ TileReady(R, memory[k]) /\ UNCHANGED <<memory, downloads, overtaken>>
      BY <3>1 DEF TileReady, downloads
    <3>2. CASE OnDisk(k) /\ Remember(k, file) /\ TileReady(R, file) /\ UNCHANGED <<downloads, overtaken>>
      BY <3>2 DEF OnDisk, TileReady, downloads
    <3>3. CASE Schedule(k, R, origin) /\ Miss(k) /\ UNCHANGED replies /\ UNCHANGED memory
      BY <3>3 DEF replies
    <3>4. CASE TileFailed(R, "failed") /\ UNCHANGED <<downloads, overtaken>> /\ UNCHANGED memory
      BY <3>4 DEF TileFailed, downloads
    <3> QED
      BY <2>3, <3>1, <3>2, <3>3, <3>4 DEF Retry
  <2> QED
    BY <2>1, <2>2, <2>3 DEF ReadDone
<1>n. None \in Tiles \union {None}
  OBVIOUS
<1> HIDE DEF k, R, file
<1>6. CASE rd.generation = generation /\ rd.tile # None /\ Ends(rd.tile, TRUE)
  BY <1>1, <1>2, <1>4, <1>k, <1>6, ReadAnswered
<1>7. CASE Ends(None, FALSE)
  BY <1>1, <1>k, <1>n, <1>7, ReadAnswered
<1>8. CASE memory[k] # None /\ Ends(memory[k], FALSE)
  BY <1>1, <1>3, <1>k, <1>8, ReadAnswered
<1>9. CASE file # None /\ Ends(file, TRUE)
  BY <1>1, <1>3, <1>k, <1>9, ReadAnswered
<1>10. CASE /\ Schedule(k, R, origin) /\ Miss(k) /\ memory' = memory
            /\ waiting' = waiting /\ answer' = answer /\ served' = served
  BY <1>1, <1>k, <1>10, ReadRescheduled
<1> QED
  BY <1>5, <1>6, <1>7, <1>8, <1>9, <1>10
-----------------------------------------------------------------------------
(* Requests.                                                               *)

(* A request that is answered at once with t, or waits.                    *)
LEMMA AskedFacts ==
  ASSUME IInv, NEW r \in Requests, NEW rk \in ResponseKeys, NEW t \in Tiles \union {None},
         Ask(r, rk),
         \/ Reply(r, "ready", t) \/ Reply(r, "busy", t) \/ Reply(r, "invalid", t)
         \/ t = None /\ \E cache_first \in BOOLEAN : Pend(r, cache_first),
         overtaken \subseteq overtaken', overtaken' \subseteq Keys
  PROVE  /\ RequestsTyped'
         /\ r \notin waiting /\ asked'[r] = rk /\ urls_since'[r] = {url}
         /\ served'[r] = t
         /\ waiting' = waiting \/ waiting' = waiting \union {r}
         /\ \A q \in Requests : q # r =>
              /\ asked'[q] = asked[q] /\ urls_since'[q] = urls_since[q]
              /\ served'[q] = served[q]
<1>1. /\ asked[r] = None
      /\ asked' = [asked EXCEPT ![r] = rk]
      /\ urls_since' = [urls_since EXCEPT ![r] = {url}]
  BY DEF Ask
<1>2. /\ asked \in [Requests -> ResponseKeys \union {None}]
      /\ urls_since \in [Requests -> SUBSET Urls] /\ url \in Urls
      /\ waiting \subseteq Requests
      /\ answer \in [Requests -> {"none", "ready", "accepted", "busy", "invalid", "failed",
                                  "cancelled", "shutdown"}]
      /\ served \in [Requests -> Tiles \union {None}]
      /\ \A q \in Requests : asked[q] = None => q \notin waiting /\ served[q] = None
  BY DEF IInv, RequestsTyped, StoreTyped
<1>3. /\ asked' \in [Requests -> ResponseKeys \union {None}]
      /\ urls_since' \in [Requests -> SUBSET Urls]
      /\ asked'[r] = rk /\ urls_since'[r] = {url}
      /\ \A q \in Requests : q # r => asked'[q] = asked[q] /\ urls_since'[q] = urls_since[q]
  BY <1>1, <1>2
<1>4. /\ r \notin waiting /\ served[r] = None
  BY <1>1, <1>2
<1>5. /\ answer' \in [Requests -> {"none", "ready", "accepted", "busy", "invalid", "failed",
                                   "cancelled", "shutdown"}]
      /\ served' \in [Requests -> Tiles \union {None}]
      /\ served'[r] = t
      /\ \A q \in Requests : q # r => served'[q] = served[q]
      /\ waiting' = waiting \/ waiting' = waiting \union {r}
  <2>1. ASSUME NEW how \in {"ready", "accepted", "busy", "invalid"}, Reply(r, how, t)
        PROVE  /\ answer' \in [Requests -> {"none", "ready", "accepted", "busy", "invalid",
                                            "failed", "cancelled", "shutdown"}]
               /\ served' \in [Requests -> Tiles \union {None}]
               /\ served'[r] = t
               /\ \A q \in Requests : q # r => served'[q] = served[q]
               /\ waiting' = waiting
    BY <1>2, <2>1 DEF Reply
  <2>2. CASE /\ waiting' = waiting \union {r} /\ answer' = answer /\ served' = served
             /\ t = None
    BY <1>2, <1>4, <2>2
  <2>3. \/ Reply(r, "ready", t) \/ Reply(r, "busy", t) \/ Reply(r, "invalid", t)
        \/ Reply(r, "accepted", t)
        \/ /\ waiting' = waiting \union {r} /\ answer' = answer /\ served' = served
           /\ t = None
    BY DEF Pend
  <2> QED
    BY <2>1, <2>2, <2>3
<1>6. overtaken' \subseteq Keys
  OBVIOUS
<1>7. ASSUME NEW q \in Requests, asked'[q] = None
      PROVE  q \notin waiting' /\ served'[q] = None
  BY <1>2, <1>3, <1>5, <1>7, RasterAssumption
<1>8. waiting' \subseteq Requests
  BY <1>2, <1>5
<1>9. RequestsTyped'
  BY <1>3, <1>5, <1>6, <1>7, <1>8 DEF RequestsTyped
<1> QED
  BY <1>3, <1>4, <1>5, <1>9

(* What is said of answers and of writes stays true when such a request    *)
(* comes in, as long as one that waits during a write has overtaken it.    *)
LEMMA AskedCurrent ==
  ASSUME IInv, NEW r \in Requests, NEW rk \in ResponseKeys, NEW t \in Tiles \union {None},
         t # None => t.url = url,
         writes' = writes, url' = url, overtaken \subseteq overtaken',
         r \notin waiting, asked'[r] = rk, urls_since'[r] = {url}, served'[r] = t,
         waiting' = waiting \/ waiting' = waiting \union {r},
         \A q \in Requests : q # r =>
           /\ asked'[q] = asked[q] /\ urls_since'[q] = urls_since[q]
           /\ served'[q] = served[q],
         waiting' = waiting \/ (Writing(Canonical[rk]) => Canonical[rk] \in overtaken')
  PROVE  WaitersCurrent' /\ AnsweredFromCurrentUrl'
<1>1. waiting \subseteq Requests
  BY DEF IInv, RequestsTyped
<1>2. \A q \in waiting' : q # r => q \in waiting /\ q \in Requests
  BY <1>1
<1>3. WaitersCurrent'
  <2>1. ASSUME NEW q \in waiting' PROVE url \in urls_since'[q]
    <3>1. CASE q = r
      BY <3>1
    <3>2. CASE q # r
      BY <1>2, <3>2 DEF IInv, Waiters, WaitersCurrent
    <3> QED
      BY <3>1, <3>2
  <2>2. ASSUME NEW q \in waiting', NEW i \in DOMAIN writes, asked'[q] \in writes[i].to,
               writes[i].key \notin overtaken'
        PROVE  writes[i].tile.url \in urls_since'[q]
    <3>1. CASE q = r
      <4>1. Canonical[rk] = writes[i].key
        BY <2>2, <3>1 DEF IInv, Addressed
      <4>2. Writing(Canonical[rk]) /\ Canonical[rk] \in overtaken'
        BY <3>1, <4>1 DEF Writing
      <4> QED
        BY <2>2, <4>1, <4>2
    <3>2. CASE q # r
      <4>1. Orderly(writes[i].key)
        BY <2>2 DEF Orderly
      <4>2. q \in waiting /\ asked[q] \in writes[i].to /\ urls_since'[q] = urls_since[q]
        BY <1>2, <2>2, <3>2
      <4> QED
        BY <4>1, <4>2 DEF IInv, Waiters, WaitersCurrent
    <3> QED
      BY <3>1, <3>2
  <2> QED
    BY <2>1, <2>2 DEF WaitersCurrent, Orderly
<1>4. AnsweredFromCurrentUrl'
  <2>1. ASSUME NEW q \in Requests, served'[q] # None, Canonical[asked'[q]] \notin overtaken'
        PROVE  served'[q].url \in urls_since'[q]
    <3>1. CASE q = r
      BY <2>1, <3>1
    <3>2. CASE q # r
      <4>1. Orderly(Canonical[asked[q]])
        BY <2>1, <3>2 DEF Orderly
      <4> QED
        BY <2>1, <3>2, <4>1 DEF IInv, Waiters, AnsweredFromCurrentUrl
    <3> QED
      BY <3>1, <3>2
  <2> QED
    BY <2>1 DEF AnsweredFromCurrentUrl, Orderly
<1> QED
  BY <1>3, <1>4

(* A request that is answered at once and touches nothing else.            *)
LEMMA RepliedKeeps ==
  ASSUME IInv, NEW r \in Requests, NEW rk \in ResponseKeys, NEW t \in Tiles \union {None},
         Ask(r, rk), Reply(r, "ready", t) \/ Reply(r, "busy", t) \/ Reply(r, "invalid", t),
         t # None => t.url = url,
         memory' = memory, reads' = reads, active' = active, queue' = queue,
         responders' = responders, marks' = marks, overtaken' = overtaken
  PROVE  IInv'
<1>1. /\ phase' = phase /\ url' = url /\ generation' = generation /\ files' = files
      /\ writes' = writes /\ deletions' = deletions
  BY DEF Ask
<1>w. waiting' = waiting
  BY DEF Reply
<1>2. /\ RequestsTyped'
      /\ r \notin waiting /\ asked'[r] = rk /\ urls_since'[r] = {url}
      /\ served'[r] = t
      /\ \A q \in Requests : q # r =>
           /\ asked'[q] = asked[q] /\ urls_since'[q] = urls_since[q]
           /\ served'[q] = served[q]
  <2>1. overtaken \subseteq overtaken' /\ overtaken' \subseteq Keys
    BY DEF IInv, RequestsTyped
  <2> QED
    BY <2>1, AskedFacts
<1>3. WaitersCurrent' /\ AnsweredFromCurrentUrl'
  BY <1>1, <1>2, <1>w, AskedCurrent
<1>4. StoreTyped' /\ WorkTyped'
  BY <1>1 DEF IInv, StoreTyped, WorkTyped
<1>5. Downloads'
  BY <1>1, SameDownloads DEF IInv
<1>6. /\ \A x : InProgress(x)' <=> InProgress(x)
      /\ \A x : Writing(x)' <=> Writing(x)
  BY <1>1 DEF InProgress, Downloading, Queued, Writing
<1>7. MarksOwned' /\ Addressed'
  BY <1>1, <1>6 DEF IInv, MarksOwned, Addressed
<1>8. NobodyIsForgotten'
  <2>1. \A q \in waiting : asked'[q] = asked[q]
    BY <1>2 DEF IInv, RequestsTyped
  <2> QED
    BY <1>1, <1>w, <1>6, <2>1 DEF IInv, Waiters, NobodyIsForgotten
<1>9. Current'
  BY <1>1 DEF IInv, Current, MemoryIsCurrent, FilesCurrent, ReadsCurrent
<1>10. OneSource'
  BY <1>1, <1>6 DEF IInv, OneSource, Orderly
<1>11. Undeleted'
  <2>1. DownloadsFresh' /\ WritesFresh'
    BY <1>1 DEF IInv, Undeleted, DownloadsFresh, WritesFresh, Orderly, Fresh
  <2>2. ReadsFresh' /\ DeletedStaysDeleted'
    BY <1>1 DEF IInv, Undeleted, ReadsFresh, DeletedStaysDeleted, Orderly, Fresh
  <2> QED
    BY <2>1, <2>2 DEF Undeleted
<1> QED
  BY <1>2, <1>3, <1>4, <1>5, <1>7, <1>8, <1>9, <1>10, <1>11 DEF IInv, Waiters

(* A request that finds its tile in RAM is answered with it.               *)
LEMMA RequestHitKeeps ==
  ASSUME IInv, NEW r \in Requests, NEW rk \in ResponseKeys, RequestHit(r, rk)
  PROVE  IInv'
<1> DEFINE t == memory[Canonical[rk]]
<1>1. Canonical[rk] \in Keys
  BY RasterAssumption
<1>2. t \in Tiles \union {None} /\ (t # None => t.url = url)
  BY <1>1 DEF IInv, StoreTyped, Current, MemoryIsCurrent
<1>3. /\ Ask(r, rk) /\ Reply(r, "ready", t)
      /\ memory' = memory /\ reads' = reads /\ active' = active /\ queue' = queue
      /\ responders' = responders /\ marks' = marks /\ overtaken' = overtaken
  BY DEF RequestHit, downloads
<1> HIDE DEF t
<1> QED
  BY <1>2, <1>3, RepliedKeeps

(* A request that is refused changes only its own answer.                  *)
LEMMA RequestRefusedKeeps ==
  ASSUME IInv, NEW r \in Requests, NEW rk \in ResponseKeys, NEW origin \in Origins,
         RequestRefused(r, rk, origin)
  PROVE  IInv'
<1>1. /\ Ask(r, rk) /\ (Reply(r, "busy", None) \/ Reply(r, "invalid", None))
      /\ memory' = memory /\ reads' = reads /\ active' = active /\ queue' = queue
      /\ responders' = responders /\ marks' = marks /\ overtaken' = overtaken
  BY DEF RequestRefused, downloads
<1>2. None \in Tiles \union {None}
  OBVIOUS
<1> QED
  BY <1>1, <1>2, RepliedKeeps

(* A request that joins or starts a read.                                  *)
LEMMA RequestReadKeeps ==
  ASSUME IInv, NEW r \in Requests, NEW rk \in ResponseKeys, NEW cache_first \in BOOLEAN,
         RequestRead(r, rk, cache_first)
  PROVE  IInv'
<1> DEFINE k == Canonical[rk]
           same == {rd \in reads : SameRead(rd, k)}
           new == [key |-> k, generation |-> generation, url |-> url, to |-> {rk},
                   done |-> FALSE, tile |-> None]
<1>1. /\ Ask(r, rk) /\ Pend(r, cache_first) /\ Miss(k)
      /\ \/ reads' = {IF rd \in same THEN [rd EXCEPT !.to = @ \union {rk}] ELSE rd : rd \in reads}
               /\ same # {}
         \/ reads' = reads \union {new}
      /\ memory' = memory /\ active' = active /\ queue' = queue
      /\ responders' = responders /\ marks' = marks
  BY DEF RequestRead, downloads
<1>2. /\ phase' = phase /\ url' = url /\ generation' = generation /\ files' = files
      /\ writes' = writes /\ deletions' = deletions
  BY <1>1 DEF Ask
<1>3. k \in Keys
  BY RasterAssumption
<1>4. /\ overtaken \subseteq overtaken' /\ overtaken' \subseteq Keys
      /\ Writing(k) => k \in overtaken'
  BY <1>1, <1>3 DEF Miss, IInv, RequestsTyped
<1>n. None \in Tiles \union {None}
  OBVIOUS
<1>5. /\ RequestsTyped'
      /\ r \notin waiting /\ asked'[r] = rk /\ urls_since'[r] = {url}
      /\ served'[r] = None
      /\ waiting' = waiting \/ waiting' = waiting \union {r}
      /\ \A q \in Requests : q # r =>
           /\ asked'[q] = asked[q] /\ urls_since'[q] = urls_since[q]
           /\ served'[q] = served[q]
  BY <1>1, <1>4, <1>n, AskedFacts
<1>6. WaitersCurrent' /\ AnsweredFromCurrentUrl'
  BY <1>2, <1>4, <1>5, <1>n, AskedCurrent
(* Every read is an old one with more response keys, or the new one; no    *)
(* read is lost and one of this generation carries rk.                     *)
<1>7. /\ \A next \in reads' :
           \/ \E rd \in reads :
                /\ next \in ReadType
                /\ next.key = rd.key /\ next.generation = rd.generation /\ next.url = rd.url
                /\ next.tile = rd.tile
                /\ \A x \in next.to : x \in rd.to \/ (x = rk /\ rd.key = k)
           \/ next = new
      /\ \A rd \in reads : \E next \in reads' : rd.to \subseteq next.to
      /\ \E next \in reads' : rk \in next.to
  <2>t. \A rd \in reads : rd \in ReadType
    BY ReadFields
  <2>1. CASE /\ reads' = {IF rd \in same THEN [rd EXCEPT !.to = @ \union {rk}] ELSE rd : rd \in reads}
             /\ same # {}
    <3> DEFINE more(rd) == IF rd \in same THEN [rd EXCEPT !.to = @ \union {rk}] ELSE rd
    <3>1. \A rd \in reads :
            /\ more(rd) \in ReadType
            /\ more(rd).key = rd.key /\ more(rd).generation = rd.generation
            /\ more(rd).url = rd.url /\ more(rd).tile = rd.tile
            /\ more(rd).to = IF rd \in same THEN rd.to \union {rk} ELSE rd.to
            /\ rd \in same => rd.key = k
      BY <2>t DEF ReadType, SameRead
    <3>2. reads' = {more(rd) : rd \in reads}
      BY <2>1
    <3>3. PICK joined \in reads : joined \in same
      BY <2>1
    <3> HIDE DEF more, same, new
    <3>4. ASSUME NEW next \in reads'
          PROVE  \E rd \in reads :
                   /\ next \in ReadType
                   /\ next.key = rd.key /\ next.generation = rd.generation /\ next.url = rd.url
                   /\ next.tile = rd.tile
                   /\ \A x \in next.to : x \in rd.to \/ (x = rk /\ rd.key = k)
      <4>1. PICK rd \in reads : next = more(rd)
        BY <3>2
      <4>2. \A x \in next.to : x \in rd.to \/ (x = rk /\ rd.key = k)
        BY <3>1, <4>1
      <4> QED
        BY <3>1, <4>1, <4>2
    <3>5. ASSUME NEW rd \in reads PROVE \E next \in reads' : rd.to \subseteq next.to
      <4>1. more(rd) \in reads' /\ rd.to \subseteq more(rd).to
        BY <3>1, <3>2
      <4> QED
        BY <4>1
    <3>6. more(joined) \in reads' /\ rk \in more(joined).to
      BY <3>1, <3>2, <3>3
    <3> QED
      BY <3>4, <3>5, <3>6
  <2>2. CASE reads' = reads \union {new}
    <3>1. rk \in new.to /\ new \in reads'
      BY <2>2
    <3> HIDE DEF new
    <3> QED
      BY <2>t, <2>2, <3>1
  <2> QED
    BY <1>1, <2>1, <2>2
<1>8. /\ new \in ReadType /\ new.key = k /\ new.generation = generation /\ new.url = url
      /\ new.to = {rk} /\ new.tile = None
  BY <1>3 DEF ReadType, IInv, StoreTyped
<1> HIDE DEF new, same
<1>k. Canonical[rk] = k
  OBVIOUS
<1> HIDE DEF k
<1>9. StoreTyped' /\ WorkTyped'
  <2>1. reads' \subseteq ReadType
    BY <1>7, <1>8
  <2> QED
    BY <1>1, <1>2, <2>1 DEF IInv, StoreTyped, WorkTyped
<1>10. Downloads'
  BY <1>1, <1>2, SameDownloads DEF IInv
<1>11. /\ \A x : InProgress(x)' <=> InProgress(x)
       /\ \A x : Writing(x)' <=> Writing(x)
  BY <1>1, <1>2 DEF InProgress, Downloading, Queued, Writing
<1>12. MarksOwned'
  BY <1>1, <1>11 DEF IInv, MarksOwned
<1>13. Addressed'
  <2>1. ASSUME NEW next \in reads', NEW x \in next.to PROVE Canonical[x] = next.key
    <3>1. CASE next = new
      BY <1>8, <1>k, <2>1, <3>1
    <3>2. CASE next # new
      <4>1. PICK rd \in reads :
              next.key = rd.key /\ \A y \in next.to : y \in rd.to \/ (y = rk /\ rd.key = k)
        BY <1>7, <3>2
      <4> QED
        BY <1>k, <2>1, <4>1 DEF IInv, Addressed
    <3> QED
      BY <3>1, <3>2
  <2> QED
    BY <1>1, <1>2, <2>1 DEF IInv, Addressed
<1>14. NobodyIsForgotten'
  <2> SUFFICES ASSUME NEW q \in waiting'
               PROVE  LET c == Canonical[asked'[q]]
                      IN \/ InProgress(c) /\ asked'[q] \in responders[c]
                         \/ \E i \in DOMAIN writes : asked'[q] \in writes[i].to
                         \/ \E next \in reads' : asked'[q] \in next.to
    BY <1>1, <1>2, <1>11 DEF NobodyIsForgotten
  <2>1. CASE q = r
    BY <1>5, <1>7, <2>1
  <2>2. CASE q # r
    <3>1. q \in waiting /\ asked'[q] = asked[q]
      BY <1>5, <2>2 DEF IInv, RequestsTyped
    <3>2. \/ LET c == Canonical[asked[q]] IN InProgress(c) /\ asked[q] \in responders[c]
          \/ \E i \in DOMAIN writes : asked[q] \in writes[i].to
          \/ \E rd \in reads : asked[q] \in rd.to
      BY <3>1 DEF IInv, Waiters, NobodyIsForgotten
    <3>3. (\E rd \in reads : asked[q] \in rd.to) => \E next \in reads' : asked[q] \in next.to
      BY <1>7
    <3> QED
      BY <3>1, <3>2, <3>3
  <2> QED
    BY <2>1, <2>2
<1>15. Current'
  <2>1. MemoryIsCurrent' /\ FilesCurrent'
    BY <1>1, <1>2 DEF IInv, Current, MemoryIsCurrent, FilesCurrent
  <2>2. ASSUME NEW next \in reads'
        PROVE  /\ next.generation <= generation
               /\ next.generation = generation => next.url = url
               /\ next.tile # None => next.tile.url = next.url
    <3>1. CASE next = new
      <4>1. generation \in Int
        BY RasterAssumption DEF IInv, StoreTyped
      <4> QED
        BY <1>8, <3>1, <4>1
    <3>2. CASE next # new
      <4>1. PICK rd \in reads :
              /\ next.generation = rd.generation /\ next.url = rd.url /\ next.tile = rd.tile
        BY <1>7, <3>2
      <4> QED
        BY <4>1 DEF IInv, Current, ReadsCurrent
    <3> QED
      BY <3>1, <3>2
  <2>3. ReadsCurrent'
    BY <1>2, <2>2 DEF ReadsCurrent
  <2> QED
    BY <2>1, <2>3 DEF Current
<1>16. OneSource'
  BY <1>2, <1>4, <1>11 DEF IInv, OneSource, Orderly
<1>17. Undeleted'
  <2>1. DownloadsFresh' /\ WritesFresh' /\ DeletedStaysDeleted'
    BY <1>1, <1>2, <1>4 DEF IInv, Undeleted, DownloadsFresh, WritesFresh, DeletedStaysDeleted,
                            Orderly, Fresh
  <2>2. ASSUME NEW next \in reads', next.generation = generation, Orderly(next.key)
        PROVE  Fresh(next.tile, next.key)
    <3>1. CASE next = new
      BY <1>8, <3>1 DEF Fresh
    <3>2. CASE next # new
      <4>1. PICK rd \in reads :
              /\ next.generation = rd.generation /\ next.key = rd.key /\ next.tile = rd.tile
        BY <1>7, <3>2
      <4> QED
        BY <2>2, <4>1 DEF IInv, Undeleted, ReadsFresh
    <3> QED
      BY <3>1, <3>2
  <2>3. ReadsFresh'
    BY <1>2, <1>4, <2>2 DEF ReadsFresh, Orderly, Fresh
  <2> QED
    BY <2>1, <2>3 DEF Undeleted
<1> QED
  BY <1>5, <1>6, <1>9, <1>10, <1>12, <1>13, <1>14, <1>15, <1>16, <1>17 DEF IInv, Waiters

(* A request that starts, queues or joins a download.                      *)
LEMMA RequestDownloadKeeps ==
  ASSUME IInv, NEW r \in Requests, NEW rk \in ResponseKeys, NEW origin \in Origins,
         NEW cache_first \in BOOLEAN, RequestDownload(r, rk, origin, cache_first)
  PROVE  IInv'
<1> DEFINE k == Canonical[rk]
<1>1. /\ Ask(r, rk) /\ Pend(r, cache_first) /\ Miss(k) /\ Schedule(k, {rk}, origin)
      /\ memory' = memory /\ reads' = reads
  BY DEF RequestDownload
<1>2. /\ phase' = phase /\ url' = url /\ generation' = generation /\ files' = files
      /\ writes' = writes /\ deletions' = deletions
  BY <1>1 DEF Ask
<1>3. k \in Keys /\ {rk} \in SUBSET ResponseKeys /\ \A x \in {rk} : Canonical[x] = k
  BY RasterAssumption
<1>4. /\ StoreTyped' /\ WorkTyped' /\ Downloads' /\ MarksOwned' /\ Addressed'
      /\ Current' /\ OneSource' /\ Undeleted'
      /\ overtaken \subseteq overtaken' /\ overtaken' \subseteq Keys
      /\ Writing(k) => k \in overtaken'
      /\ InProgress(k)' /\ {rk} \subseteq responders'[k]
      /\ \A x \in Keys :
           InProgress(x) => InProgress(x)' /\ responders[x] \subseteq responders'[x]
  BY <1>1, <1>2, <1>3, MissedRest
<1>n. None \in Tiles \union {None}
  OBVIOUS
<1>5. /\ RequestsTyped'
      /\ r \notin waiting /\ asked'[r] = rk /\ urls_since'[r] = {url}
      /\ served'[r] = None
      /\ waiting' = waiting \/ waiting' = waiting \union {r}
      /\ \A q \in Requests : q # r =>
           /\ asked'[q] = asked[q] /\ urls_since'[q] = urls_since[q]
           /\ served'[q] = served[q]
  BY <1>1, <1>4, <1>n, AskedFacts
<1>6. WaitersCurrent' /\ AnsweredFromCurrentUrl'
  BY <1>2, <1>4, <1>5, <1>n, AskedCurrent
<1>7. NobodyIsForgotten'
  <2> SUFFICES ASSUME NEW q \in waiting'
               PROVE  LET c == Canonical[asked'[q]]
                      IN \/ c \in Downloading(active') \union Queued' /\ asked'[q] \in responders'[c]
                         \/ \E i \in DOMAIN writes : asked'[q] \in writes[i].to
                         \/ \E next \in reads : asked'[q] \in next.to
    BY <1>1, <1>2 DEF NobodyIsForgotten, InProgress
  <2>1. CASE q = r
    <3>1. Canonical[asked'[q]] = k /\ asked'[q] = rk
      BY <1>5, <2>1
    <3> QED
      BY <1>4, <3>1 DEF InProgress
  <2>2. CASE q # r
    <3>1. q \in waiting /\ asked'[q] = asked[q] /\ asked[q] \in ResponseKeys
      BY <1>5, <2>2 DEF IInv, RequestsTyped
    <3>2. Canonical[asked[q]] \in Keys
      BY <3>1, RasterAssumption
    <3> DEFINE c == Canonical[asked[q]]
    <3>3. \/ InProgress(c) /\ asked[q] \in responders[c]
          \/ \E i \in DOMAIN writes : asked[q] \in writes[i].to
          \/ \E rd \in reads : asked[q] \in rd.to
      BY <3>1 DEF IInv, Waiters, NobodyIsForgotten
    <3>4. Canonical[asked'[q]] = c /\ c \in Keys
      BY <3>1, <3>2
    <3> HIDE DEF c, k
    <3>5. InProgress(c) /\ asked[q] \in responders[c] =>
            c \in Downloading(active') \union Queued' /\ asked[q] \in responders'[c]
      BY <1>4, <3>4 DEF InProgress
    <3> QED
      BY <3>1, <3>3, <3>4, <3>5
  <2> QED
    BY <2>1, <2>2
<1> QED
  BY <1>4, <1>5, <1>6, <1>7 DEF IInv, Waiters

-----------------------------------------------------------------------------
(* The invariant holds at the start, whether the disk is empty or full.    *)
LEMMA InitHolds == Init => IInv
<1> SUFFICES ASSUME Init PROVE IInv
  OBVIOUS
<1>1. /\ DOMAIN queue = {} /\ DOMAIN writes = {}
      /\ queue \in Seq(DownloadType) /\ writes \in Seq(WriteType)
      /\ queue = << >> /\ writes = << >>
  BY DEF Init
<1>2. /\ files \in [Urls -> [Keys -> Tiles \union {None}]]
      /\ \A u \in Urls : \A k \in Keys :
           files[u][k] # None => files[u][k].url = u /\ files[u][k].epoch = 0
  <2>1. CASE files \in [Urls -> [Keys -> {None}]]
    BY <2>1
  <2>2. CASE files = [u \in Urls |-> [k \in Keys |-> [url |-> u, epoch |-> 0]]]
    <3>1. \A u \in Urls : [url |-> u, epoch |-> 0] \in Tiles
      BY RasterAssumption DEF Tiles
    <3> QED
      BY <2>2, <3>1
  <2> QED
    BY <2>1, <2>2 DEF Init
<1>3. Downloading(active) = {} /\ Queued = {}
  BY <1>1 DEF Init, Downloading, Queued
<1>4. StoreTyped /\ WorkTyped
  BY <1>1, <1>2, RasterAssumption DEF Init, StoreTyped, WorkTyped
<1>5. RequestsTyped
  BY RasterAssumption DEF Init, RequestsTyped
<1>6. Downloads
  <2>1. DownloadsTyped /\ DownloadsCurrent /\ DownloadsOnce
    BY <1>1 DEF Init, DownloadsTyped, DownloadsCurrent, DownloadsOnce
  <2>2. \A o \in Origins : {k \in Downloading(active) : active[k].origin = o} = {}
    BY <1>3
  <2>3. Cardinality({}) = 0
    BY FS_EmptySet
  <2>4. QueueIsBlocked
    BY <1>1, <1>3, <2>2, <2>3, RasterAssumption DEF QueueIsBlocked
  <2> QED
    BY <2>1, <2>4 DEF Downloads
<1>7. MarksOwned /\ Addressed /\ Waiters /\ OneSource
  BY <1>1 DEF Init, MarksOwned, Addressed, Waiters, NobodyIsForgotten, WaitersCurrent,
              AnsweredFromCurrentUrl, OneSource, Writing
<1>8. Current
  BY <1>2 DEF Init, Current, MemoryIsCurrent, FilesCurrent, ReadsCurrent
<1>9. Undeleted
  <2>1. DownloadsFresh /\ WritesFresh /\ ReadsFresh
    BY <1>1 DEF Init, DownloadsFresh, WritesFresh, ReadsFresh
  <2>2. DeletedStaysDeleted
    <3>1. \A k \in Keys : memory[k] = None
      BY DEF Init
    <3>2. \A u \in Urls : \A k \in Keys : deletions[u][k] = 0
      BY DEF Init
    <3> QED
      BY <1>2, <3>1, <3>2 DEF DeletedStaysDeleted, Fresh
  <2> QED
    BY <2>1, <2>2 DEF Undeleted
<1> QED
  BY <1>4, <1>5, <1>6, <1>7, <1>8, <1>9 DEF IInv

(* A step that changes nothing.                                            *)
LEMMA StutterKeeps ==
  ASSUME IInv, UNCHANGED vars
  PROVE  IInv'
<1>1. /\ phase' = phase /\ url' = url /\ generation' = generation
      /\ memory' = memory /\ files' = files /\ writes' = writes /\ reads' = reads
      /\ deletions' = deletions /\ active' = active /\ queue' = queue
      /\ responders' = responders /\ marks' = marks
  BY DEF vars, caches, downloads
<1>2. /\ asked' = asked /\ urls_since' = urls_since /\ waiting' = waiting
      /\ answer' = answer /\ served' = served /\ overtaken' = overtaken
  BY DEF vars, clients, replies
<1>3. (StoreTyped /\ WorkTyped /\ RequestsTyped)'
  BY <1>1, <1>2 DEF IInv, StoreTyped, WorkTyped, RequestsTyped
<1>4. (Downloads /\ MarksOwned /\ Addressed)'
  BY <1>1, <1>2 DEF IInv, Downloads, DownloadsTyped, DownloadsCurrent, DownloadsOnce,
    QueueIsBlocked, CanStart, Downloading, MarksOwned, InProgress, Queued, Writing, Addressed
<1>5. Waiters'
  BY <1>1, <1>2 DEF IInv, Waiters, NobodyIsForgotten, WaitersCurrent, AnsweredFromCurrentUrl,
    InProgress, Downloading, Queued, Orderly
<1>6. (Current /\ OneSource)'
  BY <1>1, <1>2 DEF IInv, Current, MemoryIsCurrent, FilesCurrent, ReadsCurrent, OneSource,
    Orderly, Writing, InProgress, Downloading, Queued
<1>7. Undeleted'
  BY <1>1, <1>2 DEF IInv, Undeleted, DownloadsFresh, WritesFresh, ReadsFresh,
    DeletedStaysDeleted, Orderly, Fresh, Tile
<1> QED
  BY <1>3, <1>4, <1>5, <1>6, <1>7 DEF IInv

(* Every step of the tile path keeps the invariant: one lemma per action.  *)
LEMMA NextKeeps ==
  ASSUME IInv, [Next]_vars
  PROVE  IInv'
<1>1. CASE Requesting
  <2>1. PICK r \in Requests, rk \in ResponseKeys :
          \/ RequestHit(r, rk)
          \/ \E origin \in Origins : RequestRefused(r, rk, origin)
          \/ \E cache_first \in BOOLEAN :
               \/ RequestRead(r, rk, cache_first)
               \/ \E origin \in Origins : RequestDownload(r, rk, origin, cache_first)
    BY <1>1 DEF Requesting
  <2>2. CASE RequestHit(r, rk)
    BY <2>2, RequestHitKeeps
  <2>3. ASSUME NEW origin \in Origins, RequestRefused(r, rk, origin) PROVE IInv'
    BY <2>3, RequestRefusedKeeps
  <2>4. ASSUME NEW cache_first \in BOOLEAN, RequestRead(r, rk, cache_first) PROVE IInv'
    BY <2>4, RequestReadKeeps
  <2>5. ASSUME NEW cache_first \in BOOLEAN, NEW origin \in Origins,
               RequestDownload(r, rk, origin, cache_first)
        PROVE  IInv'
    BY <2>5, RequestDownloadKeeps
  <2> QED
    BY <2>1, <2>2, <2>3, <2>4, <2>5
<1>2. ASSUME NEW k \in Keys, DownloadStep(k) PROVE IInv'
  BY <1>2, DownloadFailedKeeps, DownloadDoneKeeps DEF DownloadStep
<1>3. ASSUME NEW i \in DOMAIN writes, WriteStep(i) PROVE IInv'
  BY <1>3, WriteStartKeeps, WritePublishKeeps, WriteDoneKeeps DEF WriteStep
<1>4. ASSUME NEW rd \in reads, ReadStep(rd) PROVE IInv'
  BY <1>4, ReadFileKeeps, ReadDoneKeeps DEF ReadStep
<1>5. ASSUME NEW S \in SUBSET Keys, NEW removed \in SUBSET S, Delete(S, removed) PROVE IInv'
  BY <1>5, DeleteKeeps
<1>6. CASE CancelUpstream
  BY <1>6, CancelKeeps
<1>7. ASSUME NEW u \in Urls, Reconfigure(u) PROVE IInv'
  BY <1>7, ReconfigureKeeps
<1>8. CASE Shutdown
  BY <1>8, ShutdownKeeps
<1>9. CASE UNCHANGED vars
  BY <1>9, StutterKeeps
<1> QED
  BY <1>1, <1>2, <1>3, <1>4, <1>5, <1>6, <1>7, <1>8, <1>9 DEF Next

(* The inductive invariant holds in every state, under any scheduling.     *)
THEOREM Invariance == Safe => []IInv
BY InitHolds, NextKeeps, PTL DEF Safe

(* The limits on downloads hold, and no download waits that could run      *)
(* (canStartDownloadLocked, startQueuedDownloads).                         *)
THEOREM LimitsHold == Safe => []QueueIsBlocked
<1>1. IInv => QueueIsBlocked
  BY DEF IInv, Downloads
<1> QED
  BY <1>1, Invariance, PTL

(* A tile is downloaded once at a time, and an invalidation mark always    *)
(* has a download or a write that takes it (downloads_invalidated).        *)
THEOREM MarksAreOwned == Safe => []MarksHaveOwners
<1>1. ASSUME IInv PROVE MarksHaveOwners
  <2>1. Queued \intersect Downloading(active) = {}
    BY <1>1 DEF IInv, Downloads, DownloadsOnce, Queued, Downloading
  <2> QED
    BY <1>1, <2>1 DEF IInv, Downloads, DownloadsOnce, MarksOwned, MarksHaveOwners
<1> QED
  BY <1>1, Invariance, PTL

(* A waiting promise is on the list of a download, write or read that will *)
(* answer it (connections_pending against the response keys).              *)
THEOREM NobodyForgotten == Safe => []NobodyIsForgotten
<1>1. IInv => NobodyIsForgotten
  BY DEF IInv, Waiters
<1> QED
  BY <1>1, Invariance, PTL

(* RAM holds only tiles of the configured URL (configureProviders).        *)
THEOREM MemoryCurrent == Safe => []MemoryIsCurrent
<1>1. IInv => MemoryIsCurrent
  BY DEF IInv, Current
<1> QED
  BY <1>1, Invariance, PTL

(* A deleted tile which no request overtook does not come back, in RAM or  *)
(* on disk (deleteTiles against write_state, downloads_invalidated and     *)
(* cache_generation).                                                      *)
THEOREM DeletedStay == Safe => []DeletedStaysDeleted
<1>1. IInv => DeletedStaysDeleted
  BY DEF IInv, Undeleted
<1> QED
  BY <1>1, Invariance, PTL

(* A request is answered with a tile of a URL configured since it was      *)
(* made (PUT providers against downloads, reads and writes in flight).     *)
THEOREM AnswersCurrent == Safe => []AnsweredFromCurrentUrl
<1>1. IInv => AnsweredFromCurrentUrl
  BY DEF IInv, Waiters
<1> QED
  BY <1>1, Invariance, PTL
=============================================================================
