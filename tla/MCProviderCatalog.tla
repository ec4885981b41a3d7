------------------------- MODULE MCProviderCatalog -------------------------
(* Two built-in providers and one that is not, one coverage profile, a     *)
(* path the service may write to and one under /etc.                       *)
EXTENDS ProviderCatalog

CONSTANTS u1, u2, u3, rural, state, etc

Lower(u)  == [uuid |-> u, form |-> "lower"]
Upper(u)  == [uuid |-> u, form |-> "upper"]
Legacy(u) == [uuid |-> u, form |-> "legacy"]
Followed(u, text) == [uuid |-> u, form |-> text]

Entry(id, coverage, enabled, fields) ==
  [id |-> id, coverage |-> coverage, enabled |-> enabled, fields |-> fields]
Plain(id) == Entry(id, World, TRUE, "good")

(* The sections of a set of entries, one group per id. *)
Groups(E) == [id \in {e.id : e \in E} |-> CHOOSE e \in E : e.id = id]

Ini(profiles, path, E, configured) ==
  [profiles |-> profiles, path |-> path, sections |-> Groups(E), configured |-> configured]

MCInis == {
  Ini({}, state, {}, FALSE),                                   \* defaults
  Ini({rural}, state, {}, TRUE),                               \* meant empty
  Ini({rural}, state, {Plain(Legacy(u1)),
                       Entry(Upper(u1), rural, TRUE, "lenient"),
                       Entry(Lower(u2), World, FALSE, "good")}, FALSE),
  Ini({rural}, state, {Plain(Legacy(u1)), Entry(Lower(u1), rural, TRUE, "good")}, FALSE), \* duplicate
  Ini({}, state, {Entry(Lower(u2), rural, TRUE, "good")}, FALSE),    \* no such profile
  Ini({rural}, etc, {Entry(Legacy(u2), rural, TRUE, "good")}, FALSE)}

MCRequests == {
  <<>>,
  <<Plain(Lower(u1))>>,
  <<Entry(Upper(u1), rural, TRUE, "good"), Entry(Lower(u2), World, FALSE, "good")>>,
  <<Plain(Lower(u1)), Entry(Upper(u1), World, FALSE, "good")>>,      \* one id twice
  <<Plain(Legacy(u2))>>,                                             \* not a UUID
  <<Entry(Lower(u2), World, TRUE, "lenient")>>,                      \* no host
  <<Plain(Lower(u1)), Plain(Lower(u2)), Plain(Lower(u2))>>,          \* too many
  \* Text after the UUID: read as a built-in provider, merged, without URL, refused.
  <<Entry(Followed(u1, "slash"), rural, FALSE, "good")>>,
  <<Entry(Lower(u1), rural, TRUE, "good"),
    Entry(Followed(u1, "bracket"), World, FALSE, "good")>>,
  <<Plain(Followed(u3, "slash"))>>,
  <<Plain(Followed(u2, "newline"))>>}

MCUuids == {u1, u2, u3}
MCBuiltin == {u1, u2}
MCProfiles == {rural}
MCPaths == {state, etc}
MCProtected == {etc}
=============================================================================
