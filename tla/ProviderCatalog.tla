--------------------------- MODULE ProviderCatalog ---------------------------
(***************************************************************************)
(* The catalog of raster providers: in the administrator's INI, in the     *)
(* state file the application writes (providers.ini), in Server::config    *)
(* and in MapTiles.                                                        *)
(*                                                                         *)
(*   src/src/server/configuration.cpp  readMapProviderCatalog,             *)
(*       loadConfigFile, loadProviderStateFile, saveMapProvidersToState    *)
(*   src/src/server/server.cpp         PUT /map/v1/providers               *)
(*   src/src/server/main.cpp           the order in which the files load   *)
(*                                                                         *)
(* A catalog reaches the disk through a temporary file and a rename, and   *)
(* reaches the tile path only after that.  In between the save may fail or *)
(* the process may die; a later start reads the INI and then the state     *)
(* file, and refuses to run when either is not valid.  The administrator   *)
(* edits the INI, relocates the state file and removes it at any time.     *)
(*                                                                         *)
(* A provider is [id, coverage, enabled, fields].  Its id is a pair of a   *)
(* UUID and the way it is written: in lower case, in upper case, by the    *)
(* legacy name of a built-in provider, or with text after the UUID, which  *)
(* QUuid ignores.  Such text is written into a group header as it is, and  *)
(* matters when it has a "/" (a subgroup for QSettings), a "]" (the end of *)
(* the header) or a newline; an id with any other text is one more of      *)
(* Uuids.  "fields" stands for the rest (name, URL template, zoom range):  *)
(* "good", "lenient" when only the loader takes it (an empty name, a URL   *)
(* without host), or "bad" when neither does.  Values are read back as     *)
(* they were written: iniQuotedValue escapes them.  The order of a catalog *)
(* is not kept by a load: QSettings sorts groups by name.                  *)
(***************************************************************************)
EXTENDS Naturals, Sequences, FiniteSets, SequencesExt

CONSTANTS
  Uuids,          \* provider UUIDs
  Builtin,        \* those of the built-in providers
  Profiles,       \* names of coverage profiles
  Paths,          \* where storage/provider_state_file may point to
  Protected,      \* those of Paths that lie under /etc
  Inis,           \* the configuration files the administrator writes
  Requests,       \* bodies of PUT: sequences of entries
  MaxEntries,     \* providers a catalog may have (100 in the code)
  MaxPuts,        \* bound: PUT requests in a behaviour
  MaxEdits,       \* bound: changes of the INI or removals of the state file
  MaxStarts,      \* bound: starts of the process
  Torn,           \* a file that was not written completely
  None            \* no file; nothing proposed

World == "world"         \* the empty coverage: inherit the raster default

(* Text after a UUID that is not read back as it is written. *)
Trailing == {"slash", "bracket", "newline"}

Ids == [uuid: Uuids, form: {"lower", "upper", "legacy"} \cup Trailing]
Entries == [id: Ids, coverage: Profiles \cup {World}, enabled: BOOLEAN,
            fields: {"good", "lenient", "bad"}]

(* The sections of a file as QSettings gives them: one group per name. *)
IsSections(S) ==
  /\ DOMAIN S \subseteq Ids /\ S \in [DOMAIN S -> Entries]
  /\ \A g \in DOMAIN S : S[g].id = g

ASSUME CatalogAssumption ==
  /\ Protected \subseteq Paths
  /\ IsFiniteSet(Uuids) /\ Builtin \subseteq Uuids
  /\ Requests \subseteq Seq(Entries)
  /\ \A i \in Inis :
       /\ i.profiles \subseteq Profiles /\ i.path \in Paths
       /\ IsSections(i.sections) /\ i.configured \in BOOLEAN

VARIABLES
  ini,        \* the INI on disk: [profiles, path, sections, configured]
  files,      \* what is on disk at each path: None or the providers written
  temp,       \* the temporary file of the save in progress
  status,     \* "down", "up", or "refused": the last start exited with failure
  config,     \* Server::config: [profiles, path, providers]
  served,     \* MapTiles::configured_providers, by id
  phase,      \* how far the PUT handler is
  proposed,   \* its catalog
  owed,       \* at each path, the contents a client may count on finding
  savedWith,  \* at each path, the profiles of the server that saved it
  puts, edits, starts

disk  == <<ini, files>>
vars  == <<ini, files, temp, status, config, served, phase, proposed, owed,
           savedWith, puts, edits, starts>>

(***************************************************************************)
(* Reading a catalog.                                                      *)
(***************************************************************************)

(* A legacy name stands for the UUID of its built-in provider; a UUID is   *)
(* kept as it is written.                                                  *)
MappedId(id) == IF id.form = "legacy" THEN [id EXCEPT !.form = "lower"] ELSE id

HasProfile(profiles, p) == p = World \/ p \in profiles

(* An entry as readMapProviderCatalog leaves it. *)
Loaded(e) == [e EXCEPT !.id = MappedId(e.id)]

(* Mistake: duplicates are sought among the names of the groups. *)
CatalogLoads_ByGroup(profiles, S) ==
  \A g \in DOMAIN S : S[g].fields # "bad" /\ HasProfile(profiles, S[g].coverage)

(* readMapProviderCatalog accepts the sections S. *)
CatalogLoads(profiles, S) ==
  /\ \A g \in DOMAIN S :
       S[g].fields # "bad" /\ HasProfile(profiles, S[g].coverage)
  /\ \A g, h \in DOMAIN S : g # h => MappedId(g) # MappedId(h)

Catalog(S) == SetToSeq({Loaded(S[g]) : g \in DOMAIN S})

(* The group under which QSettings lists a header: a "/" makes a subgroup, *)
(* and what follows a "]" is dropped.                                      *)
Group(id) == IF id.form \in {"slash", "bracket"} THEN [id EXCEPT !.form = "lower"] ELSE id

(* A group with subgroups only has no values: those of the built-in        *)
(* provider are taken, and without one the URL is missing.                 *)
WithoutValues(id) ==
  [id |-> id, coverage |-> World, enabled |-> TRUE,
   fields |-> IF id.uuid \in Builtin THEN "good" ELSE "bad"]

(* The sections of a text that make up a group, and the group: of sections *)
(* of one name the last value of a key is kept.  World is written by       *)
(* leaving the key out.                                                    *)
Parts(t, id) == {k \in DOMAIN t : t[k].id.form # "slash" /\ Group(t[k].id) = id}

LastCoverage(t, id) ==
  LET given == {k \in Parts(t, id) : t[k].coverage # World}
  IN  IF given = {} THEN World ELSE t[Max(given)].coverage

Section(t, id) ==
  IF Parts(t, id) = {} THEN WithoutValues(id)
  ELSE LET last == t[Max(Parts(t, id))]
       IN  [id |-> id, coverage |-> LastCoverage(t, id),
            enabled |-> last.enabled, fields |-> last.fields]

(* What QSettings reads in the text of a catalog. *)
Sections(t) == [id \in {Group(t[k].id) : k \in DOMAIN t} |-> Section(t, id)]

(* The state file t is accepted: a header that goes on in the next line is *)
(* a format error.                                                         *)
StateLoads(profiles, t) ==
  /\ \A k \in DOMAIN t : t[k].id.form # "newline"
  /\ CatalogLoads(profiles, Sections(t))

(* The built-in providers, enabled, for the whole world. *)
Defaults == SetToSeq({WithoutValues([uuid |-> u, form |-> "lower"]) : u \in Builtin})

(* The catalog of the INI: the built-in one unless it lists sections or    *)
(* says that its empty list is meant.                                      *)
IniCatalog(i) ==
  IF DOMAIN i.sections # {} \/ i.configured THEN Catalog(i.sections) ELSE Defaults

(* Mistake: an empty state file is taken for no state file. *)
StartCatalog_EmptyIsNone(i, t) ==
  IF t = None \/ t = <<>> THEN IniCatalog(i) ELSE Catalog(Sections(t))

(* loadConfigFile, then loadProviderStateFile over it.  The state file     *)
(* carries configured=true: an empty catalog is a catalog.                 *)
StartCatalog(i, t) == IF t = None THEN IniCatalog(i) ELSE Catalog(Sections(t))

StartSucceeds(i, t) ==
  /\ CatalogLoads(i.profiles, i.sections)
  /\ t # None => StateLoads(i.profiles, t)

(* MapTiles::configureProviders: enabled providers by id, a later one over *)
(* an earlier one.                                                         *)
EnabledById(providers) ==
  LET on == {k \in DOMAIN providers : providers[k].enabled}
  IN  [id \in {providers[k].id : k \in on} |->
         providers[CHOOSE k \in on : /\ providers[k].id = id
                                     /\ \A l \in on : providers[l].id = id => l <= k]]

(***************************************************************************)
(* PUT /map/v1/providers.                                                  *)
(***************************************************************************)

(* An entry of the body as the handler reads it: ids in lower case. *)
Proposed(e) == IF e.id.form = "upper" THEN [e EXCEPT !.id.form = "lower"] ELSE e

(* QUuid reads a UUID and nothing of what follows it. *)
StartsWithUuid(id) == id.form \in {"lower"} \cup Trailing

(* Mistake: any coverage name is accepted. *)
ValidEntry_AnyCoverage(e) == StartsWithUuid(Proposed(e).id) /\ e.fields = "good"

(* The checks of one entry, with the profiles the server started with. *)
ValidEntry(e) ==
  /\ StartsWithUuid(Proposed(e).id)
  /\ e.fields = "good"
  /\ HasProfile(config.profiles, e.coverage)

(* Mistake: ids are not compared with those of earlier entries. *)
ValidRequest_Repeats(r) == Len(r) <= MaxEntries /\ \A k \in DOMAIN r : ValidEntry(r[k])

ValidRequest(r) ==
  /\ Len(r) <= MaxEntries
  /\ \A k \in DOMAIN r : ValidEntry(r[k])
  /\ \A k, l \in DOMAIN r : k # l => Proposed(r[k]).id # Proposed(r[l]).id

Idle == phase = "idle"

(* The body is not acceptable: 400. *)
PutRejected(r) ==
  /\ status = "up" /\ Idle /\ puts < MaxPuts
  /\ ~ ValidRequest(r)
  /\ puts' = puts + 1
  /\ UNCHANGED <<disk, temp, status, config, served, phase, proposed, owed,
                 savedWith, edits, starts>>

PutAccepted(r) ==
  /\ status = "up" /\ Idle /\ puts < MaxPuts
  /\ ValidRequest(r)
  /\ puts' = puts + 1
  /\ proposed' = [k \in DOMAIN r |-> Proposed(r[k])]
  /\ phase' = "checked"
  /\ UNCHANGED <<disk, temp, status, config, served, owed, savedWith, edits, starts>>

(* Mistake: the file is written in place. *)
SaveOpens_InPlace ==
  /\ phase = "checked" /\ config.path \notin Protected
  /\ phase' = "open" /\ temp' = Torn
  /\ files' = [files EXCEPT ![config.path] = Torn]
  /\ UNCHANGED <<ini, status, config, served, proposed, owed, savedWith,
                 puts, edits, starts>>

(* The path is not under /etc, the directory exists or can be made, the    *)
(* temporary file opens and takes its permissions.                         *)
SaveOpens ==
  /\ phase = "checked" /\ config.path \notin Protected
  /\ phase' = "open" /\ temp' = Torn
  /\ UNCHANGED <<disk, status, config, served, proposed, owed, savedWith,
                 puts, edits, starts>>

(* Every provider is a section, in the order of the catalog. *)
SaveWrites ==
  /\ phase = "open"
  /\ phase' = "written" /\ temp' = proposed
  /\ UNCHANGED <<disk, status, config, served, proposed, owed, savedWith,
                 puts, edits, starts>>

(* commit() renames the temporary file over the old one. *)
SaveCommits ==
  /\ phase = "written"
  /\ files' = [files EXCEPT ![config.path] = temp]
  /\ savedWith' = [savedWith EXCEPT ![config.path] = config.profiles]
  /\ phase' = "saved" /\ temp' = None
  /\ UNCHANGED <<ini, status, config, served, proposed, owed, puts, edits, starts>>

(* Mistake: the catalog is applied whether or not it could be saved. *)
SaveFails_AppliesAnyway ==
  /\ phase \in {"checked", "open", "written"}
  /\ config' = [config EXCEPT !.providers = proposed]
  /\ served' = EnabledById(proposed)
  /\ phase' = "idle" /\ proposed' = None /\ temp' = None
  /\ UNCHANGED <<disk, status, owed, savedWith, puts, edits, starts>>

(* Any step of the save fails, the commit included: the temporary file is  *)
(* discarded, 500.                                                         *)
SaveFails ==
  /\ phase \in {"checked", "open", "written"}
  /\ phase' = "idle" /\ proposed' = None /\ temp' = None
  /\ UNCHANGED <<disk, status, config, served, owed, savedWith, puts, edits, starts>>

(* The saved catalog becomes that of the server and of the tile path, 200. *)
(* From here on the client counts on it.                                   *)
Apply ==
  /\ phase = "saved"
  /\ config' = [config EXCEPT !.providers = proposed]
  /\ served' = EnabledById(proposed)
  /\ owed' = [owed EXCEPT ![config.path] = {proposed}]
  /\ phase' = "idle" /\ proposed' = None
  /\ UNCHANGED <<disk, temp, status, savedWith, puts, edits, starts>>

(***************************************************************************)
(* The process and the administrator.                                      *)
(***************************************************************************)

(* The process stops, between requests or in the middle of one.  A client  *)
(* whose PUT was not answered may find the old catalog or the new one.     *)
Stop ==
  /\ status = "up"
  /\ status' = "down" /\ phase' = "idle" /\ proposed' = None /\ temp' = None
  /\ owed' = IF Idle THEN owed
             ELSE [owed EXCEPT ![config.path] = @ \cup {proposed}]
  /\ UNCHANGED <<disk, config, served, savedWith, puts, edits, starts>>

(* main: the INI, then the state file; any error ends the process. *)
Start ==
  /\ status # "up" /\ starts < MaxStarts
  /\ starts' = starts + 1
  /\ IF StartSucceeds(ini, files[ini.path])
       THEN LET providers == StartCatalog(ini, files[ini.path])
            IN  /\ status' = "up"
                /\ config' = [profiles |-> ini.profiles, path |-> ini.path,
                              providers |-> providers]
                /\ served' = EnabledById(providers)
       ELSE status' = "refused" /\ UNCHANGED <<config, served>>
  /\ UNCHANGED <<disk, temp, phase, proposed, owed, savedWith, puts, edits>>

(* The administrator writes another INI; a running server does not read it.*)
EditIni(i) ==
  /\ edits < MaxEdits /\ i # ini
  /\ ini' = i /\ edits' = edits + 1
  /\ status' = IF status = "refused" THEN "down" ELSE status
  /\ UNCHANGED <<files, temp, config, served, phase, proposed, owed, savedWith,
                 puts, starts>>

(* The administrator stops the service and removes a state file            *)
(* (docs/configuration.md:121).                                            *)
RemoveState(p) ==
  /\ status # "up" /\ edits < MaxEdits /\ files[p] # None
  /\ files' = [files EXCEPT ![p] = None]
  /\ owed' = [owed EXCEPT ![p] = {None}]
  /\ edits' = edits + 1
  /\ status' = "down"
  /\ UNCHANGED <<ini, temp, config, served, phase, proposed, savedWith, puts, starts>>

Init ==
  /\ ini \in Inis
  /\ files = [p \in Paths |-> None]
  /\ temp = None /\ status = "down"
  /\ config = [profiles |-> {}, path |-> ini.path, providers |-> <<>>]
  /\ served = <<>>
  /\ phase = "idle" /\ proposed = None
  /\ owed = [p \in Paths |-> {None}]
  /\ savedWith = [p \in Paths |-> {}]
  /\ puts = 0 /\ edits = 0 /\ starts = 0

Next ==
  \/ \E r \in Requests : PutRejected(r) \/ PutAccepted(r)
  \/ SaveOpens \/ SaveWrites \/ SaveCommits \/ SaveFails \/ Apply
  \/ Stop \/ Start
  \/ \E i \in Inis : EditIni(i)
  \/ \E p \in Paths : RemoveState(p)

Spec == Init /\ [][Next]_vars

(***************************************************************************)
(* Properties.                                                             *)
(***************************************************************************)

(* Every variable has its type; the server knows no legacy names, and a    *)
(* temporary file exists only between its opening and its rename.          *)
TypeOK ==
  /\ ini \in Inis
  /\ \A p \in Paths : files[p] = None \/ files[p] \in Seq(Entries)
  /\ temp \in {None, Torn} \/ temp \in Seq(Entries)
  /\ (temp # None) <=> (phase \in {"open", "written"})
  /\ status \in {"down", "up", "refused"}
  /\ config.profiles \subseteq Profiles /\ config.path \in Paths
  /\ \A k \in DOMAIN config.providers : config.providers[k] \in Entries
  /\ \A k \in DOMAIN config.providers : config.providers[k].id.form # "legacy"
  /\ IsSections(served)
  /\ phase \in {"idle", "checked", "open", "written", "saved"}
  /\ Idle <=> (proposed = None)
  /\ ~ Idle => status = "up"

(* The state file is always a whole catalog that was acknowledged and not  *)
(* followed by another, or one whose PUT was not answered: no failure and  *)
(* no crash loses an acknowledged catalog or leaves a part of one.         *)
(* (saveMapProvidersToState, "atomically saving providers.ini")            *)
Recoverable ==
  \A p \in Paths :
    files[p] \in owed[p] \cup
      (IF phase = "saved" /\ config.path = p THEN {proposed} ELSE {})

(* No id of the text has anything after its UUID that would be read        *)
(* differently.                                                            *)
KeepsIds(t) == \A k \in DOMAIN t : t[k].id.form \notin Trailing

(* Between requests a running server has the catalog of its state file, if *)
(* there is one: a failed save is not applied, a saved one is, and every   *)
(* start reads back the catalog that was saved, the empty one included.    *)
(* Only for an id with text after its UUID it may have, from the next      *)
(* start on, what QSettings makes of the file instead.                     *)
(* (PUT /map/v1/providers, loadProviderStateFile)                          *)
RunningIsSaved ==
  status = "up" /\ Idle /\ files[config.path] # None =>
    LET t == files[config.path]
    IN  \/ ToSet(config.providers) = ToSet(t)
        \/ ~ KeepsIds(t) /\ config.providers = Catalog(Sections(t))

(* What is listed and enabled is what a request for its id is served from, *)
(* and nothing else is: no provider hides another one of the same id.      *)
(* (GET /map/v1/providers, MapTiles::configureProviders)                   *)
ServesItsCatalog ==
  status = "up" =>
    /\ \A k \in DOMAIN config.providers :
         config.providers[k].enabled =>
           /\ config.providers[k].id \in DOMAIN served
           /\ served[config.providers[k].id] = config.providers[k]
    /\ \A id \in DOMAIN served :
         \E k \in DOMAIN config.providers :
           config.providers[k] = served[id] /\ served[id].enabled

(* A server refuses to start only when the INI is not valid by itself, or  *)
(* the state file names a coverage profile that the server which saved it  *)
(* had and the INI has lost, or one of its ids has text after the UUID: of *)
(* all else that PUT accepts the loader accepts every catalog.             *)
(* (the validation of PUT against that of readMapProviderCatalog)          *)
RefusesOnlyForTheIni ==
  status = "refused" =>
    LET t == files[ini.path]
    IN  \/ ~ CatalogLoads(ini.profiles, ini.sections)
        \/ t # None /\ \E k \in DOMAIN t :
             t[k].coverage \in savedWith[ini.path] \ ini.profiles
        \/ t # None /\ ~ KeepsIds(t)
=============================================================================
