------------------------ MODULE ProviderCatalogProofs ------------------------
(***************************************************************************)
(* The invariants of ProviderCatalog for every set of INIs, requests,      *)
(* paths and profiles.                                                     *)
(*                                                                         *)
(* The argument follows a catalog on its way.  A catalog that passed the   *)
(* checks of PUT is Proper, and so is every state file.  What QSettings    *)
(* makes of a proper text are sections, and, when nothing follows the UUID *)
(* in its ids, sections that hold exactly its entries and that the loader  *)
(* accepts with the same profiles.  A catalog loaded from sections is      *)
(* without repeated ids, so that the table by id holds all of it.          *)
(***************************************************************************)
EXTENDS ProviderCatalog, FiniteSetTheorems, WellFoundedInduction, TLAPS

(* No two providers of a catalog have one id. *)
Distinct(q) == \A k, l \in DOMAIN q : q[k].id = q[l].id => k = l

(* An entry that PUT accepts, with the letters of its id in lower case. *)
Sound(profiles, e) ==
  /\ e \in Entries
  /\ StartsWithUuid(e.id) /\ e.fields = "good" /\ HasProfile(profiles, e.coverage)

(* A catalog that PUT accepted. *)
Proper(profiles, q) ==
  /\ q \in Seq(Entries) /\ Distinct(q)
  /\ \A k \in DOMAIN q : Sound(profiles, q[k])

(* The table by id holds the enabled providers of q and nothing else. *)
Serves(q, table) ==
  /\ \A k \in DOMAIN q :
       q[k].enabled => q[k].id \in DOMAIN table /\ table[q[k].id] = q[k]
  /\ \A id \in DOMAIN table : \E k \in DOMAIN q : q[k] = table[id] /\ table[id].enabled

------------------------------------------------------------------------------
(* Catalogs and tables.                                                    *)

(* The position among K that a table keeps for an id. *)
Place(q, K, id) ==
  CHOOSE k \in K : /\ q[k].id = id
                   /\ \A l \in K : q[l].id = id => l <= k

(* It is the only one with that id. *)
LEMMA OnlyPosition ==
  ASSUME NEW q, Distinct(q), DOMAIN q \subseteq Nat, NEW K \in SUBSET DOMAIN q
  PROVE  \A k \in K : Place(q, K, q[k].id) = k
<1> SUFFICES ASSUME NEW k \in K PROVE Place(q, K, q[k].id) = k
  OBVIOUS
<1> DEFINE Wins(m) == /\ q[m].id = q[k].id
                      /\ \A l \in K : q[l].id = q[k].id => l <= m
           m0 == CHOOSE m \in K : Wins(m)
<1>1. \A l \in K : q[l].id = q[k].id => l = k
  BY DEF Distinct
<1>2. Wins(k)
  BY <1>1
<1>3. m0 \in K /\ Wins(m0)
  BY <1>2
<1>4. m0 = Place(q, K, q[k].id)
  BY DEF Place
<1>. QED  BY <1>1, <1>3, <1>4

(* A catalog without repeated ids is served whole. *)
LEMMA TableHoldsCatalog ==
  ASSUME NEW q, Distinct(q), DOMAIN q \subseteq Nat,
         \A k \in DOMAIN q : q[k].enabled \in BOOLEAN
  PROVE  Serves(q, EnabledById(q))
<1> DEFINE on == {k \in DOMAIN q : q[k].enabled}
           table == EnabledById(q)
<1>1. DOMAIN table = {q[k].id : k \in on}
  BY DEF EnabledById
<1>2. table = [id \in {q[k].id : k \in on} |-> q[Place(q, on, id)]]
  BY DEF EnabledById, Place
<1>3. \A k \in on : Place(q, on, q[k].id) = k
  BY OnlyPosition
<1> HIDE DEF table
<1>4. \A k \in on : table[q[k].id] = q[k]
  BY <1>2, <1>3
<1>5. \A k \in DOMAIN q : q[k].enabled => q[k].id \in DOMAIN table /\ table[q[k].id] = q[k]
  BY <1>1, <1>4
<1>6. \A id \in DOMAIN table : \E k \in DOMAIN q : q[k] = table[id] /\ table[id].enabled
  BY <1>1, <1>4
<1>. QED  BY <1>5, <1>6 DEF Serves, table

------------------------------------------------------------------------------
(* Loading.                                                                *)

(* The image of a finite set is finite. *)
LEMMA FiniteImage ==
  ASSUME NEW f, IsFiniteSet(DOMAIN f)
  PROVE  IsFiniteSet({f[x] : x \in DOMAIN f})
<1> DEFINE T == {f[x] : x \in DOMAIN f}
           h == [x \in DOMAIN f |-> f[x]]
<1>1. h \in Surjection(DOMAIN f, T)
  BY DEF Surjection
<1>. QED  BY <1>1, FS_Surjection

(* There are finitely many ids. *)
LEMMA FiniteIds == IsFiniteSet(Ids)
<1> DEFINE Forms == {"lower", "upper", "legacy"} \cup Trailing
           pairs == Uuids \X Forms
           f == [x \in pairs |-> [uuid |-> x[1], form |-> x[2]]]
<1>1. ASSUME NEW a, NEW b, NEW c PROVE IsFiniteSet({a, b, c})
  <2>1. IsFiniteSet({a}) /\ IsFiniteSet({a} \cup {b})
    BY FS_Singleton, FS_AddElement
  <2>2. {a, b, c} = ({a} \cup {b}) \cup {c}
    OBVIOUS
  <2>. QED  BY <2>1, <2>2, FS_AddElement
<1>2. IsFiniteSet(Forms)
  BY <1>1, FS_Union DEF Trailing
<1>3. IsFiniteSet(pairs)
  BY <1>2, FS_Product, CatalogAssumption
<1>4. Ids = {f[x] : x \in pairs}
  <2>1. ASSUME NEW id \in Ids PROVE id = f[<<id.uuid, id.form>>] /\ <<id.uuid, id.form>> \in pairs
    BY DEF Ids
  <2>2. \A x \in pairs : f[x] \in Ids
    BY DEF Ids
  <2> HIDE DEF pairs, f
  <2>. QED  BY <2>1, <2>2
<1>5. DOMAIN f = pairs
  OBVIOUS
<1>. QED  BY <1>3, <1>4, <1>5, FiniteImage

(* A finite set is listed once each. *)
LEMMA Listing ==
  ASSUME NEW S, IsFiniteSet(S)
  PROVE  /\ SetToSeq(S) \in Seq(S)
         /\ \A k, l \in DOMAIN SetToSeq(S) : SetToSeq(S)[k] = SetToSeq(S)[l] => k = l
         /\ ToSet(SetToSeq(S)) = S
<1> DEFINE n == Cardinality(S)
           f == SetToSeq(S)
<1>1. n \in Nat /\ ExistsBijection(1 .. n, S)
  BY FS_CardinalityType
<1>2. \E g \in [1 .. n -> S] : IsInjective(g)
  BY <1>1 DEF ExistsBijection, Bijection, Injection
<1>3. f \in [1 .. n -> S] /\ IsInjective(f)
  BY <1>2 DEF SetToSeq
<1> HIDE DEF f
<1>4. f \in Injection(1 .. n, S)
  BY <1>3 DEF Injection
<1>5. Cardinality(1 .. n) = n
  BY <1>1, FS_Interval
<1>6. f \in Surjection(1 .. n, S)
  BY <1>4, <1>5, FS_Injection
<1>7. ToSet(f) = S
  BY <1>3, <1>6 DEF ToSet, Surjection
<1>8. f \in Seq(S)
  BY <1>1, <1>3
<1>. QED  BY <1>3, <1>7, <1>8 DEF f, IsInjective

(* An id as it is loaded is an id, and so is an entry. *)
LEMMA LoadedType ==
  ASSUME NEW e \in Entries
  PROVE  Loaded(e) \in Entries /\ Loaded(e).id = MappedId(e.id) /\ Loaded(e).enabled = e.enabled
BY DEF Loaded, MappedId, Entries, Ids

(* What the loader accepts becomes a catalog without repeated ids. *)
LEMMA LoadedCatalog ==
  ASSUME NEW profiles, NEW S, IsSections(S), CatalogLoads(profiles, S)
  PROVE  /\ Catalog(S) \in Seq(Entries) /\ Distinct(Catalog(S))
         /\ ToSet(Catalog(S)) = {Loaded(S[g]) : g \in DOMAIN S}
<1> DEFINE f == [g \in DOMAIN S |-> Loaded(S[g])]
           T == {Loaded(S[g]) : g \in DOMAIN S}
           q == Catalog(S)
<1>1. IsFiniteSet(DOMAIN S)
  BY FiniteIds, FS_Subset DEF IsSections
<1>2. IsFiniteSet(T)
  <2>1. DOMAIN f = DOMAIN S /\ T = {f[g] : g \in DOMAIN f}
    OBVIOUS
  <2>. QED  BY <1>1, <2>1, FiniteImage
<1>3. /\ q \in Seq(T) /\ ToSet(q) = T
      /\ \A k, l \in DOMAIN q : q[k] = q[l] => k = l
  BY <1>2, Listing DEF Catalog
<1>4. \A g \in DOMAIN S : S[g] \in Entries /\ S[g].id = g
  BY DEF IsSections
<1>5. \A g \in DOMAIN S : Loaded(S[g]) \in Entries /\ Loaded(S[g]).id = MappedId(g)
  BY <1>4, LoadedType
<1>6. \A x, y \in T : x.id = y.id => x = y
  BY <1>5 DEF CatalogLoads
<1>7. \A k \in DOMAIN q : q[k] \in T
  BY <1>3
<1>8. Distinct(q)
  BY <1>3, <1>6, <1>7 DEF Distinct
<1>9. q \in Seq(Entries)
  BY <1>3, <1>5
<1>. QED  BY <1>3, <1>8, <1>9

(* The built-in catalog repeats no id either. *)
LEMMA DefaultCatalog ==
  /\ Defaults \in Seq(Entries)
  /\ Distinct(Defaults)
<1> DEFINE Own(u) == WithoutValues([uuid |-> u, form |-> "lower"])
           f == [u \in Builtin |-> Own(u)]
           T == {Own(u) : u \in Builtin}
           q == Defaults
<1>1. IsFiniteSet(T)
  <2>1. DOMAIN f = Builtin /\ T = {f[u] : u \in DOMAIN f}
    OBVIOUS
  <2>2. IsFiniteSet(Builtin)
    BY CatalogAssumption, FS_Subset
  <2>. QED  BY <2>1, <2>2, FiniteImage
<1>2. q \in Seq(T) /\ \A k, l \in DOMAIN q : q[k] = q[l] => k = l
  BY <1>1, Listing DEF Defaults
<1>3. \A u \in Builtin : Own(u) \in Entries
  BY CatalogAssumption DEF WithoutValues, Entries, Ids
<1>4. \A u, v \in Builtin : Own(u).id = Own(v).id => u = v
  <2>1. ASSUME NEW u \in Builtin, NEW v \in Builtin, Own(u).id = Own(v).id
        PROVE  u = v
    <3>1. Own(u).id.uuid = u /\ Own(v).id.uuid = v
      BY DEF WithoutValues
    <3>. QED  BY <2>1, <3>1
  <2>. QED  BY <2>1
<1> HIDE DEF Own
<1>5. \A x \in T : x \in Entries
  BY <1>3
<1>6. \A x, y \in T : x.id = y.id => x = y
  BY <1>4
<1>7. \A k \in DOMAIN q : q[k] \in T
  BY <1>2
<1>8. Distinct(q)
  BY <1>2, <1>6, <1>7 DEF Distinct
<1>. QED  BY <1>2, <1>5, <1>8

------------------------------------------------------------------------------
(* What QSettings reads in a text.                                         *)

(* Some positions of a sequence have a last one. *)
LEMMA LastPosition ==
  ASSUME NEW n \in Nat, NEW K \in SUBSET (1 .. n), K # {}
  PROVE  Max(K) \in K
<1> DEFINE R == OpToRel(<, Nat)
           T == {n - k : k \in K}
<1>1. T \subseteq Nat /\ T # {}
  OBVIOUS
<1>2. IsWellFoundedOn(R, Nat)
  BY NatLessThanWellFounded
<1>3. \A x, y \in Nat : ~ (<<y, x>> \in R) => x <= y
  BY DEF OpToRel
<1> HIDE DEF R, T
<1>4. PICK m \in T : \A y \in T : ~ (<<y, m>> \in R)
  BY <1>1, <1>2, WFMin
<1>5. \A y \in T : m <= y
  <2>1. \A y \in T : y \in Nat
    BY <1>1
  <2>. QED  BY <1>3, <1>4, <2>1, Zenon
<1>6. PICK k \in K : m = n - k
  BY <1>4 DEF T
<1>7. \A l \in K : n - k <= n - l
  BY <1>5, <1>6 DEF T
<1>8. \A l \in K : k >= l
  BY <1>7
<1>. QED  BY <1>8 DEF Max

(* A section of a text has the type of an entry. *)
LEMMA SectionType ==
  ASSUME NEW t \in Seq(Entries), NEW id \in Ids
  PROVE  Section(t, id) \in Entries /\ Section(t, id).id = id
<1> DEFINE given == {k \in Parts(t, id) : t[k].coverage # World}
           last == t[Max(Parts(t, id))]
<1>1. /\ Len(t) \in Nat /\ DOMAIN t = 1 .. Len(t)
      /\ \A k \in 1 .. Len(t) : t[k] \in Entries
  OBVIOUS
<1>2. Parts(t, id) \subseteq 1 .. Len(t) /\ given \subseteq 1 .. Len(t)
  BY <1>1 DEF Parts
<1>3. CASE Parts(t, id) = {}
  BY <1>3 DEF Section, WithoutValues, Entries
<1>4. CASE Parts(t, id) # {}
  <2>1. last \in Entries
    BY <1>1, <1>2, <1>4, LastPosition
  <2>2. given # {} => t[Max(given)] \in Entries
    BY <1>1, <1>2, LastPosition
  <2> HIDE DEF last, given
  <2>3. LastCoverage(t, id) \in Profiles \cup {World}
    BY <2>2 DEF LastCoverage, Entries, given
  <2>4. Section(t, id) = [id |-> id, coverage |-> LastCoverage(t, id),
                          enabled |-> last.enabled, fields |-> last.fields]
    BY <1>4 DEF Section, last
  <2>. QED  BY <2>1, <2>3, <2>4 DEF Entries
<1>. QED  BY <1>3, <1>4

(* QSettings makes sections of any text. *)
LEMMA TextHasSections ==
  ASSUME NEW t \in Seq(Entries)
  PROVE  IsSections(Sections(t))
<1>1. \A k \in DOMAIN t : t[k] \in Entries
  OBVIOUS
<1>2. \A k \in DOMAIN t : Group(t[k].id) \in Ids
  BY <1>1 DEF Entries, Ids, Group
<1>3. DOMAIN Sections(t) \subseteq Ids
  BY <1>2 DEF Sections
<1>4. \A g \in DOMAIN Sections(t) : Sections(t)[g] \in Entries /\ Sections(t)[g].id = g
  BY <1>3, SectionType DEF Sections
<1>5. Sections(t) = [g \in DOMAIN Sections(t) |-> Sections(t)[g]]
  BY DEF Sections
<1>. QED  BY <1>3, <1>4, <1>5 DEF IsSections

(* Where no id has anything after its UUID, a section is the entry of its  *)
(* id, and is loaded as it is.                                             *)
LEMMA SectionIsEntry ==
  ASSUME NEW profiles, NEW t, Proper(profiles, t), KeepsIds(t), NEW k \in DOMAIN t
  PROVE  /\ Group(t[k].id) = t[k].id /\ t[k].id.form = "lower"
         /\ Section(t, t[k].id) = t[k]
<1> DEFINE id == t[k].id
           given == {l \in Parts(t, id) : t[l].coverage # World}
<1>1. /\ DOMAIN t = 1 .. Len(t) /\ Len(t) \in Nat
      /\ \A l \in DOMAIN t : t[l] \in Entries /\ t[l].id.form = "lower"
  BY DEF Proper, Sound, StartsWithUuid, KeepsIds
<1>2. \A l \in DOMAIN t : Group(t[l].id) = t[l].id /\ t[l].id.form # "slash"
  BY <1>1 DEF Group
<1>3. \A l \in DOMAIN t : t[l].id = id => l = k
  BY DEF Proper, Distinct
<1>4. Parts(t, id) = {k}
  BY <1>2, <1>3 DEF Parts
<1>5. Max({k}) = k
  BY <1>1 DEF Max
<1>6. LastCoverage(t, id) = t[k].coverage
  <2>1. CASE t[k].coverage = World
    <3>1. given = {}
      BY <1>4, <2>1
    <3>. QED  BY <2>1, <3>1 DEF LastCoverage
  <2>2. CASE t[k].coverage # World
    <3>1. given = {k}
      BY <1>4, <2>2
    <3>. QED  BY <1>5, <3>1 DEF LastCoverage
  <2>. QED  BY <2>1, <2>2
<1>7. Section(t, id) = [id |-> id, coverage |-> t[k].coverage,
                        enabled |-> t[k].enabled, fields |-> t[k].fields]
  BY <1>4, <1>5, <1>6 DEF Section
<1>8. t[k] \in Entries
  BY <1>1
<1>. QED  BY <1>1, <1>2, <1>7, <1>8 DEF Entries

(* Such a text is loaded as it was written, by whoever has its profiles. *)
LEMMA TextLoads ==
  ASSUME NEW old, NEW t, Proper(old, t), KeepsIds(t)
  PROVE  /\ {Loaded(Sections(t)[g]) : g \in DOMAIN Sections(t)} = ToSet(t)
         /\ \A profiles :
              (\A k \in DOMAIN t : HasProfile(profiles, t[k].coverage))
                => StateLoads(profiles, t)
<1> DEFINE S == Sections(t)
<1>1. \A k \in DOMAIN t : /\ Group(t[k].id) = t[k].id /\ t[k].id.form = "lower"
                         /\ Section(t, t[k].id) = t[k]
  BY SectionIsEntry
<1>2. DOMAIN S = {t[k].id : k \in DOMAIN t}
  <2>1. DOMAIN S = {Group(t[k].id) : k \in DOMAIN t}
    BY DEF Sections
  <2>. QED  BY <1>1, <2>1
<1>3. \A k \in DOMAIN t : S[t[k].id] = t[k]
  BY <1>1, <1>2 DEF Sections
<1>4. \A k \in DOMAIN t : t[k] \in Entries /\ t[k].fields = "good"
  BY DEF Proper, Sound
<1>5. \A k \in DOMAIN t : MappedId(t[k].id) = t[k].id /\ Loaded(t[k]) = t[k]
  BY <1>1, <1>4 DEF MappedId, Loaded, Entries
<1>6. ToSet(t) = {t[k] : k \in DOMAIN t}
  BY DEF ToSet
<1> HIDE DEF S
<1>7. {Loaded(S[g]) : g \in DOMAIN S} = ToSet(t)
  BY <1>2, <1>3, <1>5, <1>6
<1>8. ASSUME NEW profiles, \A k \in DOMAIN t : HasProfile(profiles, t[k].coverage)
      PROVE  StateLoads(profiles, t)
  <2>1. \A g \in DOMAIN S : S[g].fields # "bad" /\ HasProfile(profiles, S[g].coverage)
    BY <1>2, <1>3, <1>4, <1>8
  <2>2. \A g, h \in DOMAIN S : g # h => MappedId(g) # MappedId(h)
    BY <1>2, <1>5
  <2>. QED  BY <1>1, <2>1, <2>2 DEF StateLoads, CatalogLoads, S
<1>. QED  BY <1>7, <1>8 DEF S

(* What a server starts with, if it starts. *)
LEMMA StartingCatalog ==
  ASSUME NEW i \in Inis, NEW t, t = None \/ t \in Seq(Entries), StartSucceeds(i, t)
  PROVE  /\ StartCatalog(i, t) \in Seq(Entries)
         /\ Distinct(StartCatalog(i, t))
         /\ t # None =>
              ToSet(StartCatalog(i, t)) =
                {Loaded(Sections(t)[g]) : g \in DOMAIN Sections(t)}
<1>1. IsSections(i.sections) /\ CatalogLoads(i.profiles, i.sections)
  BY CatalogAssumption DEF StartSucceeds
<1>2. IniCatalog(i) \in Seq(Entries) /\ Distinct(IniCatalog(i))
  BY <1>1, LoadedCatalog, DefaultCatalog DEF IniCatalog
<1>3. CASE t = None
  BY <1>2, <1>3 DEF StartCatalog
<1>4. CASE t # None
  <2>1. IsSections(Sections(t)) /\ CatalogLoads(i.profiles, Sections(t))
    BY <1>4, TextHasSections DEF StartSucceeds, StateLoads
  <2>. QED  BY <1>4, <2>1, LoadedCatalog DEF StartCatalog
<1>. QED  BY <1>3, <1>4

------------------------------------------------------------------------------
(* The inductive invariant.                                                *)

(* What is needed of the types. *)
Shape ==
  /\ ini \in Inis
  /\ files = [p \in Paths |-> files[p]]
  /\ owed = [p \in Paths |-> owed[p]]
  /\ savedWith = [p \in Paths |-> savedWith[p]]
  /\ status \in {"down", "up", "refused"}
  /\ config = [profiles |-> config.profiles, path |-> config.path,
               providers |-> config.providers]
  /\ config.path \in Paths

(* How far a PUT is determines what its file is. *)
Progress ==
  /\ phase \in {"idle", "checked", "open", "written", "saved"}
  /\ ~ Idle => status = "up" /\ Proper(config.profiles, proposed)
  /\ phase = "written" => temp = proposed
  /\ phase = "saved" =>
       /\ files[config.path] = proposed
       /\ savedWith[config.path] = config.profiles

(* Every state file was written by PUT. *)
FilesAreProper ==
  \A p \in Paths : files[p] # None => Proper(savedWith[p], files[p])

(* RunningIsSaved, also while a save has not committed. *)
RunningMatches ==
  status = "up" /\ phase # "saved" /\ files[config.path] # None =>
    LET t == files[config.path]
    IN  \/ ToSet(config.providers) = ToSet(t)
        \/ ~ KeepsIds(t) /\ config.providers = Catalog(Sections(t))

RunningServes == status = "up" => Serves(config.providers, served)

Inv ==
  /\ Shape /\ Progress /\ FilesAreProper /\ Recoverable
  /\ RunningMatches /\ RunningServes /\ RefusesOnlyForTheIni

(* The invariant holds at the start. *)
LEMMA InitInv == Init => Inv
<1> SUFFICES ASSUME Init PROVE Inv
  OBVIOUS
<1> USE DEF Init
<1>1. Shape
  BY CatalogAssumption DEF Shape
<1>2. Progress /\ FilesAreProper /\ RunningMatches /\ RunningServes /\ RefusesOnlyForTheIni
  BY DEF Progress, Idle, FilesAreProper, RunningMatches, RunningServes, RefusesOnlyForTheIni
<1>3. Recoverable
  BY DEF Recoverable
<1>. QED  BY <1>1, <1>2, <1>3 DEF Inv

(* What a request proposes is proper once it passed the checks. *)
LEMMA ProposedIsProper ==
  ASSUME NEW r \in Requests, ValidRequest(r)
  PROVE  Proper(config.profiles, [k \in DOMAIN r |-> Proposed(r[k])])
<1> DEFINE q == [k \in DOMAIN r |-> Proposed(r[k])]
<1>1. r \in Seq(Entries)
  BY CatalogAssumption
<1>2. \A e \in Entries : /\ Proposed(e) \in Entries /\ Proposed(e).fields = e.fields
                         /\ Proposed(e).coverage = e.coverage
  BY DEF Proposed, Entries, Ids
<1>3. q \in Seq(Entries)
  <2>1. q \in [1 .. Len(r) -> Entries] /\ Len(r) \in Nat
    BY <1>1, <1>2
  <2>. QED  BY <2>1
<1>4. \A k \in DOMAIN q : Sound(config.profiles, q[k])
  BY <1>2, <1>1 DEF ValidRequest, ValidEntry, Sound
<1>5. Distinct(q)
  BY DEF Distinct, ValidRequest
<1>. QED  BY <1>3, <1>4, <1>5 DEF Proper

(* Nothing is left of a PUT outside the server. *)
LEMMA PutSteps ==
  ASSUME Inv, NEW r \in Requests, PutRejected(r) \/ PutAccepted(r)
  PROVE  Inv'
<1>1. CASE PutRejected(r)
  BY <1>1 DEF PutRejected, Inv, Shape, Progress, Idle, FilesAreProper, Recoverable,
              RunningMatches, RunningServes, RefusesOnlyForTheIni, disk
<1>2. CASE PutAccepted(r)
  <2>1. Proper(config.profiles, proposed')
    BY <1>2, ProposedIsProper DEF PutAccepted
  <2>2. Progress'
    BY <1>2, <2>1 DEF PutAccepted, Inv, Progress, Idle
  <2>. QED  BY <1>2, <2>2 DEF PutAccepted, Inv, Shape, Idle, FilesAreProper, Recoverable,
                              RunningMatches, RunningServes, RefusesOnlyForTheIni, disk
<1>. QED  BY <1>1, <1>2

(* Up to the rename a save touches the temporary file only, and a failed   *)
(* one leaves everything as it was.                                        *)
LEMMA SaveSteps ==
  ASSUME Inv, SaveOpens \/ SaveWrites \/ SaveFails
  PROVE  Inv'
<1> USE DEF Inv, Shape, Progress, Idle, FilesAreProper, Recoverable,
            RunningMatches, RunningServes, RefusesOnlyForTheIni, disk
<1>1. CASE SaveOpens
  BY <1>1 DEF SaveOpens
<1>2. CASE SaveWrites
  BY <1>2 DEF SaveWrites
<1>3. CASE SaveFails
  BY <1>3 DEF SaveFails
<1>. QED  BY <1>1, <1>2, <1>3

(* The rename makes the file that of the proposed catalog. *)
LEMMA CommitStep ==
  ASSUME Inv, SaveCommits
  PROVE  Inv'
<1> DEFINE here == config.path
<1>1. /\ Shape /\ Progress /\ FilesAreProper /\ Recoverable /\ RunningServes
      /\ RefusesOnlyForTheIni
  BY DEF Inv
<1>2. /\ phase = "written" /\ phase' = "saved" /\ proposed' = proposed
      /\ config' = config /\ status' = status /\ served' = served /\ owed' = owed
      /\ ini' = ini
      /\ files' = [files EXCEPT ![here] = temp]
      /\ savedWith' = [savedWith EXCEPT ![here] = config.profiles]
  BY DEF SaveCommits
<1>3. /\ here \in Paths /\ status = "up" /\ temp = proposed
      /\ Proper(config.profiles, proposed)
  BY <1>1, <1>2 DEF Shape, Progress, Idle
<1>4. \A p \in Paths : /\ files'[p] = IF p = here THEN proposed ELSE files[p]
                       /\ savedWith'[p] = IF p = here THEN config.profiles ELSE savedWith[p]
  BY <1>1, <1>2, <1>3 DEF Shape
<1>5. Shape'
  BY <1>1, <1>2 DEF Shape
<1>6. Progress'
  BY <1>2, <1>3, <1>4 DEF Progress, Idle
<1>7. FilesAreProper'
  BY <1>1, <1>3, <1>4 DEF FilesAreProper
<1>8. Recoverable'
  BY <1>1, <1>2, <1>3, <1>4 DEF Recoverable
<1>9. RunningMatches' /\ RunningServes' /\ RefusesOnlyForTheIni'
  BY <1>1, <1>2, <1>3 DEF RunningMatches, RunningServes, RefusesOnlyForTheIni
<1>. QED  BY <1>5, <1>6, <1>7, <1>8, <1>9 DEF Inv

(* The catalog of the file becomes the one that is served. *)
LEMMA ApplyStep ==
  ASSUME Inv, Apply
  PROVE  Inv'
<1> DEFINE here == config.path
<1>1. /\ Shape /\ Progress /\ FilesAreProper /\ Recoverable
  BY DEF Inv
<1>2. /\ phase = "saved" /\ phase' = "idle"
      /\ config' = [config EXCEPT !.providers = proposed]
      /\ served' = EnabledById(proposed)
      /\ owed' = [owed EXCEPT ![here] = {proposed}]
      /\ status' = status /\ ini' = ini /\ files' = files /\ savedWith' = savedWith
  BY DEF Apply, disk
<1>3. /\ here \in Paths /\ status = "up" /\ files[here] = proposed
      /\ Proper(config.profiles, proposed)
  BY <1>1, <1>2 DEF Shape, Progress, Idle
<1>4. config' = [profiles |-> config.profiles, path |-> here, providers |-> proposed]
  BY <1>1, <1>2 DEF Shape
<1>5. \A p \in Paths : owed'[p] = IF p = here THEN {proposed} ELSE owed[p]
  BY <1>1, <1>2, <1>3 DEF Shape
<1>6. Shape'
  BY <1>1, <1>2, <1>4 DEF Shape
<1>7. Progress'
  BY <1>2 DEF Progress, Idle
<1>8. FilesAreProper'
  BY <1>1, <1>2 DEF FilesAreProper
<1>9. Recoverable'
  BY <1>1, <1>2, <1>3, <1>5 DEF Recoverable
<1>10. RunningMatches'
  BY <1>2, <1>3, <1>4 DEF RunningMatches
<1>11. RunningServes'
  <2>1. DOMAIN proposed \subseteq Nat /\ Distinct(proposed)
    BY <1>3 DEF Proper
  <2>2. \A k \in DOMAIN proposed : proposed[k].enabled \in BOOLEAN
    BY <1>3 DEF Proper, Sound, Entries
  <2>3. Serves(proposed, EnabledById(proposed))
    BY <2>1, <2>2, TableHoldsCatalog
  <2>. QED  BY <1>2, <1>4, <2>3 DEF RunningServes
<1>12. RefusesOnlyForTheIni'
  BY <1>2, <1>3 DEF RefusesOnlyForTheIni
<1>. QED  BY <1>6, <1>7, <1>8, <1>9, <1>10, <1>11, <1>12 DEF Inv

(* Where the process dies decides which of two catalogs is found. *)
LEMMA StopStep ==
  ASSUME Inv, Stop
  PROVE  Inv'
<1> DEFINE here == config.path
<1>1. Shape /\ Progress /\ FilesAreProper /\ Recoverable
  BY DEF Inv
<1>2. /\ status' = "down" /\ phase' = "idle" /\ config' = config
      /\ ini' = ini /\ files' = files /\ savedWith' = savedWith
      /\ owed' = IF Idle THEN owed ELSE [owed EXCEPT ![here] = @ \cup {proposed}]
  BY DEF Stop, disk
<1>3. Shape' /\ Progress' /\ FilesAreProper'
  BY <1>1, <1>2 DEF Shape, Progress, Idle, FilesAreProper
<1>4. Recoverable'
  BY <1>1, <1>2 DEF Recoverable, Shape, Idle
<1>5. RunningMatches' /\ RunningServes' /\ RefusesOnlyForTheIni'
  BY <1>2 DEF RunningMatches, RunningServes, RefusesOnlyForTheIni
<1>. QED  BY <1>3, <1>4, <1>5 DEF Inv

(* A start reads what was saved, and fails for the INI only. *)
LEMMA StartStep ==
  ASSUME Inv, Start
  PROVE  Inv'
<1> DEFINE t == files[ini.path]
           q == StartCatalog(ini, t)
<1>1. /\ Shape /\ Progress /\ FilesAreProper /\ Recoverable
  BY DEF Inv
<1>2. /\ status # "up" /\ phase' = phase /\ proposed' = proposed /\ temp' = temp
      /\ ini' = ini /\ files' = files /\ savedWith' = savedWith /\ owed' = owed
      /\ IF StartSucceeds(ini, t)
           THEN /\ status' = "up" /\ served' = EnabledById(q)
                /\ config' = [profiles |-> ini.profiles, path |-> ini.path, providers |-> q]
           ELSE status' = "refused" /\ config' = config /\ served' = served
  BY DEF Start, disk
<1>3. ini \in Inis /\ ini.path \in Paths /\ ini.profiles \subseteq Profiles
  BY <1>1, CatalogAssumption DEF Shape
<1>4. phase = "idle"
  BY <1>1, <1>2 DEF Progress, Idle
<1>5. /\ t = None \/ Proper(savedWith[ini.path], t)
      /\ t = None \/ t \in Seq(Entries)
  BY <1>1, <1>3 DEF FilesAreProper, Proper
<1>6. Shape' /\ Progress' /\ FilesAreProper' /\ Recoverable'
  BY <1>1, <1>2, <1>3, <1>4 DEF Shape, Progress, Idle, FilesAreProper, Recoverable
<1>7. CASE StartSucceeds(ini, t)
  <2>1. /\ q \in Seq(Entries) /\ Distinct(q)
        /\ t # None => ToSet(q) = {Loaded(Sections(t)[g]) : g \in DOMAIN Sections(t)}
    BY <1>3, <1>5, <1>7, StartingCatalog
  <2>2. t # None =>
          \/ ToSet(q) = ToSet(t)
          \/ ~ KeepsIds(t) /\ q = Catalog(Sections(t))
    BY <1>5, <2>1, TextLoads DEF StartCatalog
  <2>3. /\ status' = "up" /\ served' = EnabledById(q) /\ config'.path = ini.path
        /\ config'.providers = q
    BY <1>2, <1>7
  <2> HIDE DEF q
  <2>4. RunningMatches'
    BY <1>2, <2>2, <2>3 DEF RunningMatches
  <2>5. Serves(q, EnabledById(q))
    <3>1. /\ DOMAIN q = 1 .. Len(q) /\ Len(q) \in Nat
          /\ \A k \in DOMAIN q : q[k] \in Entries
      BY <2>1
    <3>2. DOMAIN q \subseteq Nat
      BY <3>1
    <3>3. \A e \in Entries : e.enabled \in BOOLEAN
      BY DEF Entries
    <3>. QED  BY <2>1, <3>1, <3>2, <3>3, TableHoldsCatalog
  <2>6. RunningServes' /\ RefusesOnlyForTheIni'
    BY <2>3, <2>5 DEF RunningServes, RefusesOnlyForTheIni
  <2>. QED  BY <1>6, <2>4, <2>6 DEF Inv
<1>8. CASE ~ StartSucceeds(ini, t)
  <2>1. status' = "refused"
    BY <1>2, <1>8
  <2>2. \/ ~ CatalogLoads(ini.profiles, ini.sections)
        \/ t # None /\ (\E k \in DOMAIN t : ~ HasProfile(ini.profiles, t[k].coverage))
        \/ t # None /\ ~ KeepsIds(t)
    BY <1>5, <1>8, TextLoads DEF StartSucceeds
  <2>3. ASSUME t # None, NEW k \in DOMAIN t, ~ HasProfile(ini.profiles, t[k].coverage)
        PROVE  t[k].coverage \in savedWith[ini.path] \ ini.profiles
    BY <1>5, <2>3 DEF Proper, Sound, HasProfile
  <2>4. RefusesOnlyForTheIni'
    BY <1>2, <2>1, <2>2, <2>3 DEF RefusesOnlyForTheIni
  <2>5. RunningMatches' /\ RunningServes'
    BY <2>1 DEF RunningMatches, RunningServes
  <2>. QED  BY <1>6, <2>4, <2>5 DEF Inv
<1>. QED  BY <1>7, <1>8

(* Another INI changes nothing of a running server, and a new start        *)
(* decides again whether it can be read.                                   *)
LEMMA EditStep ==
  ASSUME Inv, NEW i \in Inis, EditIni(i)
  PROVE  Inv'
BY DEF EditIni, Inv, Shape, Progress, Idle, FilesAreProper, Recoverable,
       RunningMatches, RunningServes, RefusesOnlyForTheIni

(* A removed state file is not owed any more. *)
LEMMA RemoveStep ==
  ASSUME Inv, NEW p \in Paths, RemoveState(p)
  PROVE  Inv'
<1>1. Shape /\ Progress /\ FilesAreProper /\ Recoverable
  BY DEF Inv
<1>2. /\ status # "up" /\ status' = "down" /\ phase' = phase /\ proposed' = proposed
      /\ temp' = temp /\ ini' = ini /\ savedWith' = savedWith /\ config' = config
      /\ files' = [files EXCEPT ![p] = None]
      /\ owed' = [owed EXCEPT ![p] = {None}]
  BY DEF RemoveState
<1>3. phase = "idle"
  BY <1>1, <1>2 DEF Progress, Idle
<1>4. \A x \in Paths : /\ files'[x] = IF x = p THEN None ELSE files[x]
                       /\ owed'[x] = IF x = p THEN {None} ELSE owed[x]
  BY <1>1, <1>2 DEF Shape
<1>5. Shape' /\ Progress' /\ FilesAreProper' /\ Recoverable'
  BY <1>1, <1>2, <1>3, <1>4 DEF Shape, Progress, Idle, FilesAreProper, Recoverable
<1>6. RunningMatches' /\ RunningServes' /\ RefusesOnlyForTheIni'
  BY <1>2 DEF RunningMatches, RunningServes, RefusesOnlyForTheIni
<1>. QED  BY <1>5, <1>6 DEF Inv

------------------------------------------------------------------------------
(* The theorems.                                                           *)

(* The invariant holds in every state of every behaviour. *)
THEOREM Invariance == Spec => []Inv
<1>1. Inv /\ [Next]_vars => Inv'
  <2> SUFFICES ASSUME Inv, [Next]_vars PROVE Inv'
    OBVIOUS
  <2>1. CASE UNCHANGED vars
    BY <2>1 DEF vars, disk, Inv, Shape, Progress, Idle, FilesAreProper, Recoverable,
                RunningMatches, RunningServes, RefusesOnlyForTheIni
  <2>2. CASE Next
    BY <2>2, PutSteps, SaveSteps, CommitStep, ApplyStep, StopStep, StartStep, EditStep,
       RemoveStep DEF Next
  <2>. QED  BY <2>1, <2>2
<1>. QED  BY <1>1, InitInv, PTL DEF Spec

(* No failed save and no crash loses an acknowledged catalog or leaves a   *)
(* part of one (saveMapProvidersToState and its QSaveFile).                *)
THEOREM NothingAcknowledgedIsLost == Spec => []Recoverable
<1>1. Inv => Recoverable
  BY DEF Inv
<1>. QED  BY <1>1, Invariance, PTL

(* Between requests a running server has the catalog of its state file, or *)
(* what QSettings makes of it when text follows a UUID                     *)
(* (PUT /map/v1/providers, loadProviderStateFile).                         *)
THEOREM RunsWhatItSaved == Spec => []RunningIsSaved
<1>1. Inv => RunningIsSaved
  BY DEF Inv, RunningMatches, RunningIsSaved, Idle
<1>. QED  BY <1>1, Invariance, PTL

(* What is listed and enabled is what is served                            *)
(* (MapTiles::configureProviders).                                         *)
THEOREM ServesWhatItLists == Spec => []ServesItsCatalog
<1>1. Inv => ServesItsCatalog
  BY DEF Inv, RunningServes, Serves, ServesItsCatalog
<1>. QED  BY <1>1, Invariance, PTL

(* The loader accepts what PUT accepted, unless a profile is gone that the *)
(* catalog names or text follows the UUID of an id                         *)
(* (readMapProviderCatalog).                                               *)
THEOREM RefusesForTheIni == Spec => []RefusesOnlyForTheIni
<1>1. Inv => RefusesOnlyForTheIni
  BY DEF Inv
<1>. QED  BY <1>1, Invariance, PTL
=============================================================================
