---------------------------- MODULE ConfigReload ----------------------------
(***************************************************************************)
(* Configuration: the SQLite tables, the live snapshot built from them,    *)
(* the admin handlers that write the first and rebuild the second, and     *)
(* what else of the runtime follows a rebuild - the watcher tasks and the  *)
(* status map (src/admin.rs, src/store.rs, src/server.rs reload_from_db,   *)
(* src/watcher.rs reconcile, src/main.rs startup).                         *)
(*                                                                         *)
(* A handler awaits every SQL statement, so handlers, probe tasks and      *)
(* requests interleave between any two of them.  A handler may also end at *)
(* an await: the statement fails, or the client hangs up and its future is *)
(* dropped.  Providers are reduced to their key and to probe_enabled,      *)
(* statuses to the names that have one; Failover has their contents.       *)
(***************************************************************************)
EXTENDS Naturals, FiniteSets

CONSTANTS
    Name,          \* provider names
    Alias,         \* route aliases
    Admin,         \* admin requests in flight at the same time
    Request,       \* completion requests in flight at the same time
    TypedKey,      \* api keys an admin may type, and those of the file
    EnvKey,        \* the api key in the environment
    NoKey,         \* no api key, a blank field in a form
    EnvNames,      \* the providers the environment has a key for
    Probeable,     \* the providers whose form may enable the probe
    FileProviders, \* the providers of the configuration file
    FileRoutes,    \* its routes
    FileFallback,  \* its fallback_route, or None
    None,          \* an absent Option, a cleared fallback route
    Absent,        \* no fallback_route row in the settings table
    MaxOps,        \* bound on accepted admin requests
    MaxCrashes     \* bound on crashes

Key == TypedKey \cup {NoKey}
Row == [key : Key, probed : BOOLEAN]
LiveRow == [key : Key \cup {EnvKey}, probed : BOOLEAN]

\* The tables as partial functions.
Maps(D, R) == UNION {[S -> R] : S \in SUBSET D}

ASSUME ConfigAssumption ==
    /\ EnvKey \notin TypedKey \cup {NoKey}
    /\ EnvNames \subseteq Name
    /\ FileProviders \in Maps(Name, Row)
    /\ FileRoutes \in Maps(Alias, DOMAIN FileProviders)
    /\ FileFallback \in Name \cup {None}
    /\ Absent \notin Name \cup {None}
    /\ MaxOps \in Nat /\ MaxCrashes \in Nat

VARIABLES
    proc,       \* "up" or "down"
    providers,  \* the providers table
    routes,     \* the routes table: alias -> primary provider
    setting,    \* the fallback_route row of the settings table
    rows,       \* the names in the provider_status table
    live,       \* the snapshot in AppState.config
    at,         \* admin request -> how far its handler is
    stmt,       \* admin request -> the statement it was accepted for
    load,       \* admin request -> the snapshot its reload is building
    current,    \* history: admin request -> no write since it began to reload
    inStep,     \* history: the last swap was of a current reload, and no
                \* table has been written since
    status,     \* the names in the status map
    watch,      \* provider -> the step of its watcher task, or "off"
    leftover,   \* aborted watchers that were past their last await
    reprobes,   \* detached re-probes
    held,       \* request -> the providers of the snapshot its handler holds
    ops, crashes

tables == <<providers, routes, setting, rows>>
handlers == <<at, stmt, load>>
config == <<live, handlers, current, inStep>>
probing == <<status, watch, leftover, reprobes, held>>
vars == <<proc, tables, config, probing, ops, crashes>>

-----------------------------------------------------------------------------
Without(map, x) == [y \in DOMAIN map \ {x} |-> map[y]]
With(map, x, v) == [y \in DOMAIN map \cup {x} |-> IF y = x THEN v ELSE map[y]]
NoRows == [n \in {} |-> 0]

\* apply_env_overrides: keys of the environment win over the stored ones.
Overlay(ps) ==
    [n \in DOMAIN ps |->
        IF n \in EnvNames THEN [ps[n] EXCEPT !.key = EnvKey] ELSE ps[n]]

\* An absent row defers to the value the snapshot already has.
FallbackFrom(row, previous) == IF row = Absent THEN previous ELSE row

\* What load_into_config and the overlay make of the tables at one moment.
Loaded ==
    [providers |-> Overlay(providers), routes |-> routes,
     fallback  |-> FallbackFrom(setting, FileFallback)]

Snapshot ==
    [providers : Maps(Name, LiveRow), routes : Maps(Alias, Name),
     fallback : Name \cup {None}]

NoSnapshot == [providers |-> NoRows, routes |-> NoRows, fallback |-> None]

Monitored(snap) == {n \in DOMAIN snap.providers : snap.providers[n].probed}

\* The statement an accepted request will execute.
Statement ==
    [on : {"create", "update"}, name : Name, row : LiveRow, typed : BOOLEAN]
      \cup [on : {"delete"}, name : Name]
      \cup [on : {"create_route", "update_route"}, alias : Alias, name : Name]
      \cup [on : {"delete_route"}, alias : Alias]
      \cup [on : {"fallback"}, target : Name \cup {None}]

NoStatement == [on |-> "nothing"]

AdminStep ==
    {"idle", "writing", "reloading", "loading_routes", "loading_setting",
     "swapping", "reconciling", "retaining", "replying"}

\* Watcher tasks of the monitored providers of a snapshot; they probe at once.
Watchers(snap) == [n \in Name |-> IF n \in Monitored(snap) THEN "probing" ELSE "off"]

Init ==
    /\ proc = "down"
    /\ providers = NoRows /\ routes = NoRows /\ setting = Absent /\ rows = {}
    /\ live = NoSnapshot
    /\ at = [a \in Admin |-> "idle"]
    /\ stmt = [a \in Admin |-> NoStatement]
    /\ load = [a \in Admin |-> NoSnapshot]
    /\ current = [a \in Admin |-> FALSE]
    /\ inStep = FALSE
    /\ status = {}
    /\ watch = [n \in Name |-> "off"]
    /\ leftover = {} /\ reprobes = {}
    /\ held = [r \in Request |-> NoRows]
    /\ ops = 0 /\ crashes = 0

-----------------------------------------------------------------------------
(* Admin handlers up to their statement.  What they check and do not pass   *)
(* is a reply that changes nothing, and has no action.                      *)

At(a, step) == proc = "up" /\ at[a] = step
MoveTo(a, step) == at' = [at EXCEPT ![a] = step]

Accept(a, w) ==
    /\ At(a, "idle")
    /\ ops < MaxOps
    /\ ops' = ops + 1
    /\ MoveTo(a, "writing")
    /\ stmt' = [stmt EXCEPT ![a] = w]
    /\ UNCHANGED <<proc, tables, live, load, current, inStep, probing, crashes>>

\* get_provider finds nothing; the form's key is taken as it is.
CreateProvider(a, n, form) ==
    /\ n \notin DOMAIN providers
    /\ Accept(a, [on |-> "create", name |-> n, row |-> form, typed |-> form.key # NoKey])

\* Mutant of KeyToStore: a blank field is completed from the live snapshot.
KeyToStoreFromLive(n, form) ==
    IF form.key # NoKey THEN form.key
    ELSE IF n \in DOMAIN live.providers THEN live.providers[n].key ELSE NoKey

\* Mutant of KeyToStore: a blank field clears the key.
KeyToStoreBlank(n, form) == form.key

\* into_provider: a blank field keeps the key stored in the table.
KeyToStore(n, form) == IF form.key # NoKey THEN form.key ELSE providers[n].key

UpdateProvider(a, n, form) ==
    /\ n \in DOMAIN providers
    /\ Accept(a, [on |-> "update", name |-> n,
                  row |-> [form EXCEPT !.key = KeyToStore(n, form)],
                  typed |-> form.key # NoKey])

DeleteProvider(a, n) == Accept(a, [on |-> "delete", name |-> n])

\* Routes are checked against the snapshot, not against the tables.
CreateRoute(a, al, n) ==
    /\ al \notin DOMAIN live.routes
    /\ n \in DOMAIN live.providers
    /\ Accept(a, [on |-> "create_route", alias |-> al, name |-> n])

UpdateRoute(a, al, n) ==
    /\ al \in DOMAIN live.routes
    /\ n \in DOMAIN live.providers
    /\ Accept(a, [on |-> "update_route", alias |-> al, name |-> n])

DeleteRoute(a, al) == Accept(a, [on |-> "delete_route", alias |-> al])

SetFallbackRoute(a, t) ==
    /\ t = None \/ t \in DOMAIN live.providers
    /\ Accept(a, [on |-> "fallback", target |-> t])

-----------------------------------------------------------------------------
(* The statement.                                                           *)

\* A statement was executed: reloads under way have read older tables.
Wrote ==
    /\ current' = [b \in Admin |-> FALSE]
    /\ inStep' = FALSE
    /\ UNCHANGED <<proc, live, stmt, load, probing, ops, crashes>>

WriteProvider(a) ==
    /\ At(a, "writing")
    /\ \/ stmt[a].on = "create" /\ stmt[a].name \notin DOMAIN providers
       \/ stmt[a].on = "update" /\ stmt[a].name \in DOMAIN providers
    /\ providers' = With(providers, stmt[a].name, stmt[a].row)
    /\ MoveTo(a, "reloading")
    /\ UNCHANGED <<routes, setting, rows>>
    /\ Wrote

\* Mutant of RemoveProvider: foreign keys are not enforced.
RemoveProviderOnly(n) ==
    /\ providers' = Without(providers, n)
    /\ UNCHANGED <<routes, rows>>

\* ON DELETE CASCADE on routes.provider and provider_status.provider.
RemoveProvider(n) ==
    /\ providers' = Without(providers, n)
    /\ routes' = [al \in {x \in DOMAIN routes : routes[x] # n} |-> routes[al]]
    /\ rows' = rows \ {n}

WriteProviderDelete(a) ==
    /\ At(a, "writing")
    /\ stmt[a].on = "delete" /\ stmt[a].name \in DOMAIN providers
    /\ RemoveProvider(stmt[a].name)
    /\ MoveTo(a, "reloading")
    /\ UNCHANGED setting
    /\ Wrote

WriteRoute(a) ==
    /\ At(a, "writing")
    /\ \/ stmt[a].on = "create_route" /\ stmt[a].alias \notin DOMAIN routes
       \/ stmt[a].on = "update_route" /\ stmt[a].alias \in DOMAIN routes
    /\ stmt[a].name \in DOMAIN providers
    /\ routes' = With(routes, stmt[a].alias, stmt[a].name)
    /\ MoveTo(a, "reloading")
    /\ UNCHANGED <<providers, setting, rows>>
    /\ Wrote

WriteRouteDelete(a) ==
    /\ At(a, "writing")
    /\ stmt[a].on = "delete_route" /\ stmt[a].alias \in DOMAIN routes
    /\ routes' = Without(routes, stmt[a].alias)
    /\ MoveTo(a, "reloading")
    /\ UNCHANGED <<providers, setting, rows>>
    /\ Wrote

WriteFallback(a) ==
    /\ At(a, "writing")
    /\ stmt[a].on = "fallback"
    /\ setting' = stmt[a].target
    /\ MoveTo(a, "reloading")
    /\ UNCHANGED <<providers, routes, rows>>
    /\ Wrote

\* An UPDATE of a row another admin has deleted meanwhile changes nothing, and
\* the handler goes on as if it had.
WriteNothing(a) ==
    /\ At(a, "writing")
    /\ \/ stmt[a].on = "update" /\ stmt[a].name \notin DOMAIN providers
       \/ stmt[a].on = "update_route" /\ stmt[a].alias \notin DOMAIN routes
    /\ MoveTo(a, "reloading")
    /\ UNCHANGED <<proc, tables, live, stmt, load, current, inStep, probing, ops, crashes>>

EndHandler(a) ==
    /\ MoveTo(a, "idle")
    /\ stmt' = [stmt EXCEPT ![a] = NoStatement]
    /\ load' = [load EXCEPT ![a] = NoSnapshot]
    /\ current' = [current EXCEPT ![a] = FALSE]
    /\ UNCHANGED <<proc, tables, live, inStep, probing, ops, crashes>>

\* The handler ends at an await without the rest of its work: a constraint
\* refuses the statement (UNIQUE, foreign key), a DELETE finds no row, the
\* database fails, or the client has hung up.
Abandon(a) ==
    /\ \E step \in {"writing", "reloading", "loading_routes", "loading_setting"} : At(a, step)
    /\ EndHandler(a)

Write(a) ==
    \/ WriteProvider(a) \/ WriteProviderDelete(a)
    \/ WriteRoute(a) \/ WriteRouteDelete(a)
    \/ WriteFallback(a) \/ WriteNothing(a)

-----------------------------------------------------------------------------
(* reload_from_db.                                                          *)

\* Mutant of LoadProviders: the environment is forgotten.
LoadProvidersOnly(a) ==
    /\ At(a, "reloading")
    /\ MoveTo(a, "loading_routes")
    /\ load' = [load EXCEPT ![a] = [live EXCEPT !.providers = providers]]
    /\ current' = [current EXCEPT ![a] = TRUE]
    /\ UNCHANGED <<proc, tables, live, stmt, inStep, probing, ops, crashes>>

\* The snapshot is cloned and the providers are read.
LoadProviders(a) ==
    /\ At(a, "reloading")
    /\ MoveTo(a, "loading_routes")
    /\ load' = [load EXCEPT ![a] = [live EXCEPT !.providers = Overlay(providers)]]
    /\ current' = [current EXCEPT ![a] = TRUE]
    /\ UNCHANGED <<proc, tables, live, stmt, inStep, probing, ops, crashes>>

LoadRoutes(a) ==
    /\ At(a, "loading_routes")
    /\ MoveTo(a, "loading_setting")
    /\ load' = [load EXCEPT ![a] = [@ EXCEPT !.routes = routes]]
    /\ UNCHANGED <<proc, tables, live, stmt, current, inStep, probing, ops, crashes>>

\* Mutant of LoadFallbackRoute: an absent row is taken for a value.
LoadFallbackRouteRaw(previous) == setting

\* Mutant of LoadFallbackRoute: a stored null is read as no row at all.
LoadFallbackRouteNullIsAbsent(previous) ==
    IF setting \in {Absent, None} THEN previous ELSE setting

LoadFallbackRoute(previous) == FallbackFrom(setting, previous)

LoadSetting(a) ==
    /\ At(a, "loading_setting")
    /\ MoveTo(a, "swapping")
    /\ load' = [load EXCEPT ![a] = [@ EXCEPT !.fallback = LoadFallbackRoute(load[a].fallback)]]
    /\ UNCHANGED <<proc, tables, live, stmt, current, inStep, probing, ops, crashes>>

\* From here on nothing is awaited; other threads still run in between.
Swap(a) ==
    /\ At(a, "swapping")
    /\ live' = load[a]
    /\ inStep' = current[a]
    /\ MoveTo(a, "reconciling")
    /\ UNCHANGED <<proc, tables, stmt, load, current, probing, ops, crashes>>

\* Mutant of Reconcile: only new providers get a task.
ReconcileAddsOnly(a) ==
    /\ At(a, "reconciling")
    /\ watch' = [n \in Name |-> IF watch[n] # "off" THEN watch[n]
                                ELSE Watchers(load[a])[n]]
    /\ MoveTo(a, "retaining")
    /\ UNCHANGED <<proc, tables, live, stmt, load, current, inStep, status, leftover, reprobes, held, ops, crashes>>

\* Every watcher is aborted and new ones are spawned.  The abort takes effect
\* at the task's next await: one that has written its row may still insert.
Reconcile(a) ==
    /\ At(a, "reconciling")
    /\ \E late \in SUBSET {n \in Name : watch[n] = "inserting"} :
          leftover' = leftover \cup late
    /\ watch' = Watchers(load[a])
    /\ MoveTo(a, "retaining")
    /\ UNCHANGED <<proc, tables, live, stmt, load, current, inStep, status, reprobes, held, ops, crashes>>

Retain(a) ==
    /\ At(a, "retaining")
    /\ status' = status \cap DOMAIN load[a].providers
    /\ MoveTo(a, "replying")
    /\ UNCHANGED <<proc, tables, live, stmt, load, current, inStep, watch, leftover, reprobes, held, ops, crashes>>

Reply(a) ==
    /\ At(a, "replying")
    /\ EndHandler(a)

Reload(a) ==
    \/ LoadProviders(a) \/ LoadRoutes(a) \/ LoadSetting(a)
    \/ Swap(a) \/ Reconcile(a) \/ Retain(a) \/ Reply(a)

-----------------------------------------------------------------------------
(* Watchers and requests.                                                   *)

\* write_status is refused for a name that is not in the providers table, and
\* its failure, this or another, is only logged.
WriteStatus(n) ==
    \/ n \in DOMAIN providers /\ rows' = rows \cup {n}
    \/ UNCHANGED rows

WatcherPersists(n) ==
    /\ proc = "up" /\ watch[n] = "probing"
    /\ WriteStatus(n)
    /\ watch' = [watch EXCEPT ![n] = "inserting"]
    /\ UNCHANGED <<proc, providers, routes, setting, config, status, leftover, reprobes, held, ops, crashes>>

WatcherInserts(n) ==
    /\ proc = "up" /\ watch[n] = "inserting"
    /\ status' = status \cup {n}
    /\ watch' = [watch EXCEPT ![n] = "probing"]
    /\ UNCHANGED <<proc, tables, config, leftover, reprobes, held, ops, crashes>>

LeftoverInserts(n) ==
    /\ proc = "up" /\ n \in leftover
    /\ status' = status \cup {n}
    /\ leftover' = leftover \ {n}
    /\ UNCHANGED <<proc, tables, config, watch, reprobes, held, ops, crashes>>

\* reprobes tells the names and steps of the detached re-probes, not how many
\* there are: when one moves on, others like it may stay.
ReprobePersists(n) ==
    /\ proc = "up" /\ [name |-> n, at |-> "probing"] \in reprobes
    /\ WriteStatus(n)
    /\ \E rest \in {reprobes, reprobes \ {[name |-> n, at |-> "probing"]}} :
          reprobes' = rest \cup {[name |-> n, at |-> "inserting"]}
    /\ UNCHANGED <<proc, providers, routes, setting, config, status, watch, leftover, held, ops, crashes>>

ReprobeInserts(n) ==
    /\ proc = "up" /\ [name |-> n, at |-> "inserting"] \in reprobes
    /\ status' = status \cup {n}
    /\ reprobes' \in {reprobes, reprobes \ {[name |-> n, at |-> "inserting"]}}
    /\ UNCHANGED <<proc, tables, config, watch, leftover, held, ops, crashes>>

\* A completion handler takes the snapshot and keeps it for its whole life.
TakeSnapshot(r) ==
    /\ proc = "up" /\ held[r] = NoRows
    /\ held' = [held EXCEPT ![r] = live.providers]
    /\ UNCHANGED <<proc, tables, config, status, watch, leftover, reprobes, ops, crashes>>

\* mark_degraded works on the provider of the handler's snapshot.
MarkDegraded(r, n) ==
    /\ proc = "up" /\ n \in DOMAIN held[r]
    /\ status' = status \cup {n}
    /\ reprobes' = IF held[r][n].probed
                   THEN reprobes \cup {[name |-> n, at |-> "probing"]} ELSE reprobes
    /\ UNCHANGED <<proc, tables, config, watch, leftover, held, ops, crashes>>

DropSnapshot(r) ==
    /\ proc = "up" /\ held[r] # NoRows
    /\ held' = [held EXCEPT ![r] = NoRows]
    /\ UNCHANGED <<proc, tables, config, status, watch, leftover, reprobes, ops, crashes>>

-----------------------------------------------------------------------------
(* The process.                                                             *)

Crash ==
    /\ proc = "up"
    /\ crashes < MaxCrashes
    /\ crashes' = crashes + 1
    /\ proc' = "down"
    /\ live' = NoSnapshot
    /\ at' = [a \in Admin |-> "idle"]
    /\ stmt' = [a \in Admin |-> NoStatement]
    /\ load' = [a \in Admin |-> NoSnapshot]
    /\ current' = [a \in Admin |-> FALSE]
    /\ inStep' = FALSE
    /\ status' = {} /\ leftover' = {} /\ reprobes' = {}
    /\ watch' = [n \in Name |-> "off"]
    /\ held' = [r \in Request |-> NoRows]
    /\ UNCHANGED <<tables, ops>>

\* The rest of main: the runtime is built from the tables.
ComeUp ==
    /\ proc' = "up"
    /\ live' = Loaded'
    /\ inStep' = TRUE
    /\ watch' = Watchers(live')
    /\ status' = rows'
    /\ UNCHANGED <<handlers, current, leftover, reprobes, held, ops, crashes>>

\* seed_from_config, one transaction.  The tables it fills are empty.
Seed ==
    /\ providers' = FileProviders
    /\ routes' = FileRoutes
    /\ setting' = IF FileFallback = None THEN setting ELSE FileFallback

Start ==
    /\ proc = "down"
    /\ IF providers = NoRows THEN Seed ELSE UNCHANGED <<providers, routes, setting>>
    /\ UNCHANGED rows
    /\ ComeUp

\* --reseed: clear, then seed what is now empty.
StartReseed ==
    /\ proc = "down"
    /\ providers' = FileProviders
    /\ routes' = FileRoutes
    /\ setting' = IF FileFallback = None THEN Absent ELSE FileFallback
    /\ rows' = {}
    /\ ComeUp

\* The process dies between the three statements of clear or before the seed.
ReseedDies ==
    /\ proc = "down"
    /\ crashes < MaxCrashes
    /\ crashes' = crashes + 1
    /\ routes' = NoRows
    /\ \/ UNCHANGED <<providers, setting, rows>>
       \/ providers' = NoRows /\ rows' = {} /\ setting' \in {setting, Absent}
    /\ UNCHANGED <<proc, config, probing, ops>>

Handler(a) ==
    \/ \E n \in Name : DeleteProvider(a, n)
    \/ \E n \in Name, form \in Row :
          /\ form.probed => n \in Probeable
          /\ CreateProvider(a, n, form) \/ UpdateProvider(a, n, form)
    \/ \E al \in Alias, n \in Name : CreateRoute(a, al, n) \/ UpdateRoute(a, al, n)
    \/ \E al \in Alias : DeleteRoute(a, al)
    \/ \E t \in Name \cup {None} : SetFallbackRoute(a, t)
    \/ Write(a)
    \/ Abandon(a)
    \/ Reload(a)

Background(n) ==
    \/ WatcherPersists(n) \/ WatcherInserts(n) \/ LeftoverInserts(n)
    \/ ReprobePersists(n) \/ ReprobeInserts(n)
    \/ \E r \in Request : MarkDegraded(r, n)

Next ==
    \/ \E a \in Admin : Handler(a)
    \/ \E n \in Name : Background(n)
    \/ \E r \in Request : TakeSnapshot(r) \/ DropSnapshot(r)
    \/ Crash \/ Start \/ StartReseed \/ ReseedDies

Spec == Init /\ [][Next]_vars

-----------------------------------------------------------------------------
TypeOK ==
    /\ proc \in {"up", "down"}
    /\ providers \in Maps(Name, LiveRow)
    /\ routes \in Maps(Alias, Name)
    /\ setting \in Name \cup {None, Absent}
    /\ rows \subseteq Name
    /\ live \in Snapshot
    /\ at \in [Admin -> AdminStep]
    /\ stmt \in [Admin -> Statement \cup {NoStatement}]
    /\ load \in [Admin -> Snapshot]
    /\ current \in [Admin -> BOOLEAN]
    /\ inStep \in BOOLEAN
    /\ status \subseteq Name
    /\ watch \in [Name -> {"off", "probing", "inserting"}]
    /\ leftover \subseteq Name
    /\ reprobes \subseteq [name : Name, at : {"probing", "inserting"}]
    /\ held \in [Request -> Maps(Name, LiveRow)]
    /\ ops \in 0..MaxOps /\ crashes \in 0..MaxCrashes

\* A key that is only in the environment never reaches the tables, through no
\* sequence of seeds, edits with a blank key field, reloads and restarts
\* (main.rs: "secrets supplied via env never get persisted to the DB").
EnvKeysNeverPersisted ==
    \A n \in DOMAIN providers : providers[n].key # EnvKey

\* The tables stay whole whoever writes them in whatever order, crashes in the
\* middle of a reseed included: every route and every status row belongs to a
\* stored provider (store.rs: admin delete relies on the foreign keys).
RowsReferenceProviders ==
    /\ \A al \in DOMAIN routes : routes[al] \in DOMAIN providers
    /\ rows \subseteq DOMAIN providers

\* Whatever else went on, a swap of a reload that read every table after the
\* last write makes the snapshot what the tables and the environment say, and
\* it stays so until the next write: an abandoned or overtaken reload is
\* repaired by the next undisturbed one (reload_from_db).
ReloadMatchesTables == inStep => live = Loaded

\* With one admin at a time every completed write is in force when its reply
\* is sent, the keys of the environment included.
WritesTakeEffect ==
    \A a \in Admin : at[a] = "replying" => live = Loaded

\* ... and while no reload is between its swap and its end the watcher tasks
\* are those of the live providers with the probe enabled (reconcile).
WatchersFollowLive ==
    (\A a \in Admin : at[a] \notin {"reconciling", "retaining"}) =>
        {n \in Name : watch[n] # "off"} = Monitored(live)

\* An edit that leaves the key field blank keeps the stored key, when no other
\* admin writes in between (into_provider: "preserve-on-edit").
BlankEditKeepsKey ==
    [][\A a \in Admin, n \in Name :
          /\ At(a, "writing") /\ at'[a] = "reloading"
          /\ stmt[a].on = "update" /\ ~stmt[a].typed /\ stmt[a].name = n
          /\ n \in DOMAIN providers
          => providers'[n].key = providers[n].key]_vars

-----------------------------------------------------------------------------
(* The inductive invariant.                                                 *)

\* What a handler is about to store was typed, or read from the table.
StatementsHoldNoEnvKey ==
    \A a \in Admin :
        stmt[a].on \in {"create", "update"} => stmt[a].row.key # EnvKey

\* What a reload that no write has disturbed has read so far.
LoadsAreCurrent ==
    \A a \in Admin : current[a] =>
        /\ at[a] \notin {"idle", "writing", "reloading"}
        /\ load[a].providers = Overlay(providers)
        /\ at[a] # "loading_routes" => load[a].routes = routes
        /\ at[a] \notin {"loading_routes", "loading_setting"} =>
              load[a].fallback = FallbackFrom(setting, FileFallback)

\* As long as the settings table has no row, snapshots keep the file's value.
AbsentDefersToFile ==
    proc = "up" /\ setting = Absent =>
        /\ live.fallback = FileFallback
        /\ \A a \in Admin :
              at[a] \notin {"idle", "writing", "reloading"} =>
                  load[a].fallback = FileFallback

\* Nothing survives the process.
DownIsIdle ==
    proc = "down" =>
        /\ ~inStep
        /\ \A a \in Admin : at[a] = "idle" /\ stmt[a] = NoStatement /\ ~current[a]

IInv ==
    /\ TypeOK
    /\ EnvKeysNeverPersisted
    /\ StatementsHoldNoEnvKey
    /\ RowsReferenceProviders
    /\ LoadsAreCurrent
    /\ AbsentDefersToFile
    /\ DownIsIdle
    /\ ReloadMatchesTables

\* No two admin requests in flight at the same time.
OneAdmin == \A a, b \in Admin : a = b

\* No write comes between a handler's own and its end.
ReloadsOwnWrite ==
    \A a \in Admin :
        /\ at[a] \notin {"idle", "writing", "reloading"} => current[a]
        /\ at[a] \in {"reconciling", "retaining", "replying"} => inStep

\* A handler that is about to store a row it read finds the key as it read it.
StoredKeyIsFresh ==
    \A a \in Admin :
        at[a] = "writing" /\ stmt[a].on = "update" /\ ~stmt[a].typed =>
            /\ stmt[a].name \in DOMAIN providers
            /\ stmt[a].row.key = providers[stmt[a].name].key

\* The tasks lag behind the snapshot only between a swap and its reconcile.
TasksLagBySwap ==
    \/ {n \in Name : watch[n] # "off"} = Monitored(live)
    \/ \E a \in Admin : at[a] = "reconciling"

ReconcilesLive == \A a \in Admin : at[a] = "reconciling" => load[a] = live

SoloInv == ReloadsOwnWrite /\ StoredKeyIsFresh /\ TasksLagBySwap /\ ReconcilesLive

-----------------------------------------------------------------------------
\* What the tables, and what the snapshot, say of the subject of a statement.
StoredFor(w) ==
    CASE w.on \in {"create", "update", "delete"} ->
            {<<n, Overlay(providers)[n]>> : n \in DOMAIN providers \cap {w.name}}
      [] w.on \in {"create_route", "update_route", "delete_route"} ->
            {<<al, routes[al]>> : al \in DOMAIN routes \cap {w.alias}}
      [] w.on = "fallback" -> {setting}

LiveFor(w) ==
    CASE w.on \in {"create", "update", "delete"} ->
            {<<n, live.providers[n]>> : n \in DOMAIN live.providers \cap {w.name}}
      [] w.on \in {"create_route", "update_route", "delete_route"} ->
            {<<al, live.routes[al]>> : al \in DOMAIN live.routes \cap {w.alias}}
      [] w.on = "fallback" -> {live.fallback}

\* The documentation's "Every write rebuilds the live config": once every
\* handler is through with its reload, each of them replies with its own write
\* in force.
EveryWriteIsLive ==
    (\A a \in Admin : at[a] = "replying") =>
        \A a \in Admin : LiveFor(stmt[a]) = StoredFor(stmt[a])

\* reload_from_db drops "status entries for providers that no longer exist":
\* once no reload is under way the status map names live providers only.
NoGhostStatus ==
    (\A a \in Admin : at[a] = "idle") => status \subseteq DOMAIN live.providers
=============================================================================
