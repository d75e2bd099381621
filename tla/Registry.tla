------------------------------- MODULE Registry -------------------------------
(***************************************************************************)
(* The live configuration of one process (registry.rs): the files on disk   *)
(* and who edits them, reloads by POST /admin/reload or SIGHUP (any number  *)
(* at a time: nothing keeps them apart), the tables they create, and the    *)
(* GETs that look up a schema and later the cache version of its route.     *)
(* A version of an entity file is a Text; CONFIG_LINT is strict.            *)
(***************************************************************************)
EXTENDS Naturals

CONSTANTS
  Routes,     \* names of entity files
  Texts,      \* contents an entity file may have
  Tables,     \* names of database tables
  TableOf,    \* text -> `table`
  Generated,  \* texts with auto_generate
  Broken,     \* texts that do not parse or that the lint refuses
  RuleFiles,  \* what rules.json parses to
  Refusing,   \* what it becomes when it does not parse
  BootDisk,   \* the files at boot
  Reloads,    \* reloads
  Readers,    \* GETs
  MaxEdits    \* bound on edits of the files

\* routes.json, the entity files, rules.json
Disks == [routes : SUBSET Routes, entity : [Routes -> Texts], rules : RuleFiles]

Linted(routes, entity) == \A r \in routes : entity[r] \notin Broken

NoTableTwice(routes, entity) == \A r, s \in routes : TableOf[entity[r]] = TableOf[entity[s]] => r = s

\* What main checks before it serves, and reload before it swaps.
Sound(routes, entity) == Linted(routes, entity) /\ NoTableTwice(routes, entity)

ASSUME RegistryAssumption ==
  /\ TableOf \in [Texts -> Tables]
  /\ Generated \subseteq Texts /\ Broken \subseteq Texts
  /\ BootDisk \in Disks /\ Sound(BootDisk.routes, BootDisk.entity)
  /\ Refusing \in RuleFiles
  /\ MaxEdits \in Nat

VARIABLES
  disk, edits,
  live,     \* the Registry in service: generation and contents
  tables,   \* tables of the database
  lost,     \* history: tables whose COMMIT failed unnoticed
  reload,   \* progress of each reload
  version,  \* cache version of each route
  page,     \* cached pages: route, version, the text they were built from
  get,      \* progress of each GET
  swaps     \* swaps so far

vars == <<disk, edits, live, tables, lost, reload, version, page, get, swaps>>

TablesOf(routes, entity) == {TableOf[entity[r]] : r \in {s \in routes : entity[s] \in Generated}}

NotLoaded == [pc |-> "start", routes |-> {}, entity |-> BootDisk.entity, unread |-> {},
              rules |-> Refusing, old |-> [routes |-> {}, entity |-> BootDisk.entity, gen |-> 0],
              todo |-> {}]

\* Boot: the configuration is loaded, checked, and its tables generated.
Init ==
  /\ disk = BootDisk /\ edits = 0
  /\ live = [routes |-> BootDisk.routes, entity |-> BootDisk.entity, rules |-> BootDisk.rules, gen |-> 1]
  /\ lost \in SUBSET TablesOf(BootDisk.routes, BootDisk.entity)
  /\ tables = TablesOf(BootDisk.routes, BootDisk.entity) \ lost
  /\ reload = [p \in Reloads |-> NotLoaded]
  /\ version = [r \in Routes |-> 0]
  /\ page = {}
  /\ get = [q \in Readers |-> [pc |-> "new"]]
  /\ swaps = 0

requests == <<page, get>>

----------------------------------------------------------------------------
(* The files, edited one at a time *)

Edit ==
  /\ edits < MaxEdits /\ edits' = edits + 1
  /\ \/ \E R \in SUBSET Routes : disk' = [disk EXCEPT !.routes = R]
     \/ \E r \in Routes, t \in Texts : disk' = [disk EXCEPT !.entity[r] = t]
     \/ \E f \in RuleFiles : disk' = [disk EXCEPT !.rules = f]
  /\ disk' # disk
  /\ UNCHANGED <<live, tables, lost, reload, version, requests, swaps>>

----------------------------------------------------------------------------
(* registry.rs: reload *)

Step(p, fields) == reload' = [reload EXCEPT ![p] = fields]

ReadRoutes(p) ==
  /\ reload[p].pc = "start"
  /\ Step(p, [reload[p] EXCEPT !.pc = "read", !.routes = disk.routes, !.unread = disk.routes])
  /\ UNCHANGED <<disk, edits, live, tables, lost, version, requests, swaps>>

ReadEntity(p, r) ==
  /\ reload[p].pc = "read" /\ r \in reload[p].unread
  /\ Step(p, [reload[p] EXCEPT !.entity[r] = disk.entity[r], !.unread = @ \ {r}])
  /\ UNCHANGED <<disk, edits, live, tables, lost, version, requests, swaps>>

\* Reading ends with rules.json, which is empty when it does not parse.
ReadRules(p) ==
  /\ reload[p].pc = "read" /\ reload[p].unread = {}
  /\ Step(p, [reload[p] EXCEPT !.pc = "loaded", !.rules = disk.rules])
  /\ UNCHANGED <<disk, edits, live, tables, lost, version, requests, swaps>>

\* Err: the registry in service stays.
Refuse(p) ==
  /\ reload[p].pc = "loaded" /\ ~Sound(reload[p].routes, reload[p].entity)
  /\ Step(p, NotLoaded)
  /\ UNCHANGED <<disk, edits, live, tables, lost, version, requests, swaps>>

\* Mutant: only new routes get their tables.
ForAdded(p) ==
  {r \in reload[p].routes \ live.routes : reload[p].entity[r] \in Generated}

\* Entities to generate: new in the routes, or of another fingerprint.
ForAddedOrChanged(p) ==
  {r \in reload[p].routes : /\ reload[p].entity[r] \in Generated
                            /\ r \in live.routes => reload[p].entity[r] # live.entity[r]}

Diff(p) ==
  /\ reload[p].pc = "loaded" /\ Sound(reload[p].routes, reload[p].entity)
  /\ Step(p, [reload[p] EXCEPT !.pc = "ddl", !.todo = ForAddedOrChanged(p),
                !.old = [routes |-> live.routes, entity |-> live.entity, gen |-> live.gen]])
  /\ UNCHANGED <<disk, edits, live, tables, lost, version, requests, swaps>>

\* CREATE TABLE IF NOT EXISTS and its indexes, in a transaction; the answer of
\* COMMIT is discarded.
Generate(p, r) ==
  LET t == TableOf[reload[p].entity[r]] IN
  /\ reload[p].pc = "ddl" /\ r \in reload[p].todo
  /\ \/ tables' = tables \cup {t} /\ UNCHANGED lost
     \/ lost' = lost \cup ({t} \ tables) /\ UNCHANGED tables
  /\ Step(p, [reload[p] EXCEPT !.todo = @ \ {r}])
  /\ UNCHANGED <<disk, edits, live, version, requests, swaps>>

\* Err; the table may exist by now, an index may be missing.
GenerateFails(p, r) ==
  /\ reload[p].pc = "ddl" /\ r \in reload[p].todo
  /\ tables' \in {tables, tables \cup {TableOf[reload[p].entity[r]]}}
  /\ Step(p, NotLoaded)
  /\ UNCHANGED <<disk, edits, live, lost, version, requests, swaps>>

\* Mutant: only routes that differ from the registry of the diff are bumped.
SwapBumpChanged(p) ==
  /\ reload[p].pc = "ddl" /\ reload[p].todo = {}
  /\ live' = [routes |-> reload[p].routes, entity |-> reload[p].entity,
              rules |-> reload[p].rules, gen |-> reload[p].old.gen + 1]
  /\ swaps' = swaps + 1
  /\ Step(p, [reload[p] EXCEPT !.pc = "bump",
                !.todo = {r \in Routes : reload[p].entity[r] # reload[p].old.entity[r]}])
  /\ UNCHANGED <<disk, edits, tables, lost, version, requests>>

Swap(p) ==
  /\ reload[p].pc = "ddl" /\ reload[p].todo = {}
  /\ live' = [routes |-> reload[p].routes, entity |-> reload[p].entity,
              rules |-> reload[p].rules, gen |-> reload[p].old.gen + 1]
  /\ swaps' = swaps + 1
  /\ Step(p, [reload[p] EXCEPT !.pc = "bump", !.todo = reload[p].old.routes \cup reload[p].routes])
  /\ UNCHANGED <<disk, edits, tables, lost, version, requests>>

Bump(p, r) ==
  /\ reload[p].pc = "bump" /\ r \in reload[p].todo
  /\ version' = [version EXCEPT ![r] = @ + 1]
  /\ Step(p, [reload[p] EXCEPT !.todo = @ \ {r}])
  /\ UNCHANGED <<disk, edits, live, tables, lost, requests, swaps>>

Reloaded(p) ==
  /\ reload[p].pc = "bump" /\ reload[p].todo = {}
  /\ Step(p, [NotLoaded EXCEPT !.pc = "ok"])
  /\ UNCHANGED <<disk, edits, live, tables, lost, version, requests, swaps>>

----------------------------------------------------------------------------
(* Requests meanwhile *)

\* 404 when the route is not in the registry.
Resolve(q, r) ==
  /\ get[q].pc = "new" /\ r \in live.routes
  /\ get' = [get EXCEPT ![q] = [pc |-> "resolved", route |-> r, text |-> live.entity[r], swaps |-> swaps]]
  /\ UNCHANGED <<disk, edits, live, tables, lost, reload, version, page, swaps>>

\* The page of this version is served if there is one, or built from the
\* schema that was resolved; `across` notes a swap since then.
Load(q) ==
  LET r == get[q].route
      fresh == [route |-> r, ver |-> version[r], text |-> get[q].text, across |-> swaps # get[q].swaps] IN
  /\ get[q].pc = "resolved"
  /\ page' = IF \E g \in page : g.route = r /\ g.ver = version[r] THEN page ELSE page \cup {fresh}
  /\ get' = [get EXCEPT ![q] = [pc |-> "served"]]
  /\ UNCHANGED <<disk, edits, live, tables, lost, reload, version, swaps>>

Reloading(p) ==
  \/ ReadRoutes(p) \/ ReadRules(p) \/ Refuse(p) \/ Diff(p) \/ Swap(p) \/ Reloaded(p)
  \/ \E r \in Routes : ReadEntity(p, r) \/ Generate(p, r) \/ GenerateFails(p, r) \/ Bump(p, r)

Next ==
  \/ Edit
  \/ \E p \in Reloads : Reloading(p)
  \/ \E q \in Readers : Load(q) \/ \E r \in Routes : Resolve(q, r)

Spec == Init /\ [][Next]_vars

----------------------------------------------------------------------------
(* Properties *)

TypeOK ==
  /\ disk \in Disks /\ edits \in 0..MaxEdits
  /\ live \in [routes : SUBSET Routes, entity : [Routes -> Texts], rules : RuleFiles, gen : Nat]
  /\ tables \subseteq Tables /\ lost \subseteq Tables
  /\ reload \in [Reloads ->
       [pc : {"start", "read", "loaded", "ddl", "bump", "ok"}, routes : SUBSET Routes,
        entity : [Routes -> Texts], unread : SUBSET Routes, rules : RuleFiles, todo : SUBSET Routes,
        old : [routes : SUBSET Routes, entity : [Routes -> Texts], gen : Nat]]]
  /\ version \in [Routes -> Nat] /\ swaps \in Nat

\* registry.rs:9, "a bad edit can never take the API down": whatever is edited
\* while reloads read the files, fail half way or overtake each other, the
\* registry in service declares no table twice, passed the lint, and every
\* generated entity of it has its table, unless a COMMIT of it failed.
LiveIsServable ==
  /\ Sound(live.routes, live.entity)
  /\ TablesOf(live.routes, live.entity) \subseteq tables \cup lost

\* registry.rs:97, "so no stale page survives the schema change": once the
\* bumps are done a page of the current version has the shape of the schema in
\* service, unless its GET was under way during a swap.
NoStalePage ==
  (\A p \in Reloads : reload[p].pc # "bump") =>
    \A g \in page :
      g.ver = version[g.route] /\ g.route \in live.routes /\ ~g.across => g.text = live.entity[g.route]

==============================================================================
