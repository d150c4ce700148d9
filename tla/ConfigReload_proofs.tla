------------------------ MODULE ConfigReload_proofs ------------------------
(***************************************************************************)
(* Theorems about ConfigReload, for any number of admins, requests,        *)
(* providers and routes, and for every configuration file.                 *)
(***************************************************************************)
EXTENDS ConfigReload, TLAPS

-----------------------------------------------------------------------------
(* Partial functions.                                                       *)

LEMMA MapsShape ==
    ASSUME NEW D, NEW R, NEW m
    PROVE  m \in Maps(D, R) <=> DOMAIN m \in SUBSET D /\ m \in [DOMAIN m -> R]
  BY DEF Maps

LEMMA NoRowsShape ==
    ASSUME NEW D, NEW R
    PROVE  NoRows \in Maps(D, R) /\ DOMAIN NoRows = {}
  <1>1. NoRows \in [{} -> R] /\ DOMAIN NoRows = {}
    BY DEF NoRows
  <1>2. QED
    BY <1>1, MapsShape

LEMMA WithShape ==
    ASSUME NEW D, NEW R, NEW m \in Maps(D, R), NEW x \in D, NEW v \in R
    PROVE  /\ With(m, x, v) \in Maps(D, R)
           /\ DOMAIN With(m, x, v) = DOMAIN m \cup {x}
           /\ \A y \in DOMAIN m \cup {x} : With(m, x, v)[y] = IF y = x THEN v ELSE m[y]
  <1>1. DOMAIN m \in SUBSET D /\ m \in [DOMAIN m -> R]
    BY MapsShape
  <1>2. With(m, x, v) \in [DOMAIN m \cup {x} -> R]
    BY <1>1 DEF With
  <1>3. DOMAIN With(m, x, v) = DOMAIN m \cup {x}
    BY DEF With
  <1>4. QED
    BY <1>1, <1>2, <1>3, MapsShape DEF With

LEMMA WithoutShape ==
    ASSUME NEW D, NEW R, NEW m \in Maps(D, R), NEW x
    PROVE  /\ Without(m, x) \in Maps(D, R)
           /\ DOMAIN Without(m, x) = DOMAIN m \ {x}
           /\ \A y \in DOMAIN m \ {x} : Without(m, x)[y] = m[y]
  <1>1. DOMAIN m \in SUBSET D /\ m \in [DOMAIN m -> R]
    BY MapsShape
  <1>2. Without(m, x) \in [DOMAIN m \ {x} -> R]
    BY <1>1 DEF Without
  <1>3. DOMAIN Without(m, x) = DOMAIN m \ {x}
    BY DEF Without
  <1>4. QED
    BY <1>1, <1>2, <1>3, MapsShape DEF Without

\* What a DELETE of a provider leaves of the routes.
LEMMA CascadeShape ==
    ASSUME NEW m \in Maps(Alias, Name), NEW n
    PROVE  LET c == [al \in {x \in DOMAIN m : m[x] # n} |-> m[al]] IN
           /\ c \in Maps(Alias, Name)
           /\ \A al \in DOMAIN c : al \in DOMAIN m /\ c[al] = m[al] /\ c[al] # n
  <1> DEFINE c == [al \in {x \in DOMAIN m : m[x] # n} |-> m[al]]
  <1>1. DOMAIN m \in SUBSET Alias /\ m \in [DOMAIN m -> Name]
    BY MapsShape
  <1>2. DOMAIN c = {x \in DOMAIN m : m[x] # n}
    OBVIOUS
  <1>3. c \in [DOMAIN c -> Name]
    BY <1>1
  <1>4. c \in Maps(Alias, Name)
    BY <1>1, <1>2, <1>3, MapsShape
  <1>5. QED
    BY <1>2, <1>4

LEMMA OverlayShape ==
    ASSUME NEW ps \in Maps(Name, LiveRow)
    PROVE  /\ Overlay(ps) \in Maps(Name, LiveRow)
           /\ DOMAIN Overlay(ps) = DOMAIN ps
  <1>1. DOMAIN ps \in SUBSET Name /\ ps \in [DOMAIN ps -> LiveRow]
    BY MapsShape
  <1>2. \A n \in DOMAIN ps : [ps[n] EXCEPT !.key = EnvKey] \in LiveRow
    BY <1>1 DEF LiveRow
  <1>3. Overlay(ps) \in [DOMAIN ps -> LiveRow]
    BY <1>1, <1>2 DEF Overlay
  <1>4. DOMAIN Overlay(ps) = DOMAIN ps
    BY DEF Overlay
  <1>5. QED
    BY <1>1, <1>3, <1>4, MapsShape

LEMMA FileShape ==
    /\ FileProviders \in Maps(Name, LiveRow)
    /\ FileRoutes \in Maps(Alias, Name)
    /\ \A n \in DOMAIN FileProviders : FileProviders[n].key # EnvKey
    /\ \A al \in DOMAIN FileRoutes : FileRoutes[al] \in DOMAIN FileProviders
  <1>1. DOMAIN FileProviders \in SUBSET Name /\ FileProviders \in [DOMAIN FileProviders -> Row]
    BY ConfigAssumption, MapsShape
  <1>2. DOMAIN FileRoutes \in SUBSET Alias /\ FileRoutes \in [DOMAIN FileRoutes -> DOMAIN FileProviders]
    BY ConfigAssumption, MapsShape
  <1>3. \A row \in Row : row \in LiveRow /\ row.key # EnvKey
    BY ConfigAssumption DEF Row, LiveRow, Key
  <1>4. FileProviders \in [DOMAIN FileProviders -> LiveRow]
    BY <1>1, <1>3
  <1>5. FileRoutes \in [DOMAIN FileRoutes -> Name]
    BY <1>1, <1>2
  <1>6. QED
    BY <1>1, <1>2, <1>3, <1>4, <1>5, MapsShape

LEMMA StatementShape ==
    ASSUME NEW w \in Statement \cup {NoStatement}
    PROVE  /\ w.on \in {"create", "update"} => w.name \in Name /\ w.row \in LiveRow
           /\ w.on = "delete" => w.name \in Name
           /\ w.on \in {"create_route", "update_route"} => w.alias \in Alias /\ w.name \in Name
           /\ w.on = "fallback" => w.target \in Name \cup {None}
  BY DEF Statement, NoStatement

LEMMA NoSnapshotShape == NoSnapshot \in Snapshot
  BY NoRowsShape DEF NoSnapshot, Snapshot

\* The snapshots a reload builds.
LEMMA LoadShape ==
    ASSUME TypeOK, NEW s \in Snapshot
    PROVE  /\ [s EXCEPT !.providers = Overlay(providers)] \in Snapshot
           /\ [s EXCEPT !.routes = routes] \in Snapshot
           /\ [s EXCEPT !.fallback = LoadFallbackRoute(s.fallback)] \in Snapshot
           /\ Loaded \in Snapshot
  <1>1. Overlay(providers) \in Maps(Name, LiveRow)
    BY OverlayShape DEF TypeOK
  <1>2. LoadFallbackRoute(s.fallback) \in Name \cup {None}
    BY DEF TypeOK, LoadFallbackRoute, FallbackFrom, Snapshot
  <1>3. FallbackFrom(setting, FileFallback) \in Name \cup {None}
    BY ConfigAssumption DEF TypeOK, FallbackFrom
  <1>4. QED
    BY <1>1, <1>2, <1>3 DEF Snapshot, TypeOK, Loaded

-----------------------------------------------------------------------------
(* Types.                                                                   *)

LEMMA InitTypeOK == Init => TypeOK
  <1> SUFFICES ASSUME Init PROVE TypeOK
    OBVIOUS
  <1>1. /\ NoRows \in Maps(Name, LiveRow)
        /\ NoRows \in Maps(Alias, Name)
    BY NoRowsShape
  <1>2. at \in [Admin -> AdminStep] /\ stmt \in [Admin -> Statement \cup {NoStatement}]
    BY DEF Init, AdminStep
  <1>3. live \in Snapshot /\ load \in [Admin -> Snapshot]
    BY NoSnapshotShape DEF Init
  <1>4. ops \in 0..MaxOps /\ crashes \in 0..MaxCrashes
    BY ConfigAssumption DEF Init
  <1>5. watch \in [Name -> {"off", "probing", "inserting"}] /\ inStep \in BOOLEAN
    BY DEF Init
  <1>6. QED
    BY <1>1, <1>2, <1>3, <1>4, <1>5 DEF Init, TypeOK

\* The form an admin sends has the fields of a row.
LEMMA AcceptTypeOK ==
    ASSUME TypeOK, NEW a \in Admin, NEW w \in Statement, Accept(a, w)
    PROVE  TypeOK'
  <1>1. ops' \in 0..MaxOps
    BY ConfigAssumption DEF Accept, TypeOK
  <1>2. at' \in [Admin -> AdminStep] /\ stmt' \in [Admin -> Statement \cup {NoStatement}]
    BY DEF Accept, MoveTo, TypeOK, AdminStep
  <1>3. QED
    BY <1>1, <1>2 DEF Accept, TypeOK, tables, probing, handlers

LEMMA FormShape ==
    ASSUME NEW form \in Row
    PROVE  /\ form \in LiveRow /\ form.key \in Key /\ form.key # EnvKey
           /\ \A k \in Key \cup {EnvKey} :
                /\ [form EXCEPT !.key = k] \in LiveRow
                /\ [form EXCEPT !.key = k].key = k
  BY ConfigAssumption DEF Row, LiveRow, Key

\* What each accepted request asks for.
LEMMA AcceptedShape ==
    ASSUME TypeOK, NEW a \in Admin
    PROVE  /\ \A n \in Name : DeleteProvider(a, n) =>
                 \E w \in Statement : Accept(a, w) /\ w.on = "delete"
           /\ \A n \in Name, form \in Row : CreateProvider(a, n, form) =>
                 \E w \in Statement : Accept(a, w) /\ w.row = form /\ w.on = "create"
           /\ \A n \in Name, form \in Row : UpdateProvider(a, n, form) =>
                 \E w \in Statement : /\ Accept(a, w)
                                      /\ w.row.key = KeyToStore(n, form)
                                      /\ w.name = n /\ w.typed = (form.key # NoKey)
                                      /\ n \in DOMAIN providers
           /\ \A al \in Alias, n \in Name : CreateRoute(a, al, n) \/ UpdateRoute(a, al, n) =>
                 \E w \in Statement : Accept(a, w) /\ w.on \in {"create_route", "update_route"}
           /\ \A al \in Alias : DeleteRoute(a, al) =>
                 \E w \in Statement : Accept(a, w) /\ w.on = "delete_route"
           /\ \A t \in Name \cup {None} : SetFallbackRoute(a, t) =>
                 \E w \in Statement : Accept(a, w) /\ w.on = "fallback"
  <1>1. ASSUME NEW n \in Name, DeleteProvider(a, n)
        PROVE  \E w \in Statement : Accept(a, w) /\ w.on = "delete"
    <2>1. [on |-> "delete", name |-> n] \in Statement
      BY DEF Statement
    <2>2. QED
      BY <1>1, <2>1 DEF DeleteProvider
  <1>2. ASSUME NEW n \in Name, NEW form \in Row, CreateProvider(a, n, form)
        PROVE  \E w \in Statement : Accept(a, w) /\ w.row = form /\ w.on = "create"
    <2>1. [on |-> "create", name |-> n, row |-> form, typed |-> form.key # NoKey] \in Statement
      BY FormShape DEF Statement
    <2>2. QED
      BY <1>2, <2>1 DEF CreateProvider
  <1>3. ASSUME NEW n \in Name, NEW form \in Row, UpdateProvider(a, n, form)
        PROVE  \E w \in Statement : /\ Accept(a, w)
                                    /\ w.row.key = KeyToStore(n, form)
                                    /\ w.name = n /\ w.typed = (form.key # NoKey)
                                    /\ n \in DOMAIN providers
    <2>1. n \in DOMAIN providers
      BY <1>3 DEF UpdateProvider
    <2>2. providers[n] \in LiveRow
      BY <2>1, MapsShape DEF TypeOK
    <2>3. KeyToStore(n, form) \in Key \cup {EnvKey}
      BY <2>2, FormShape DEF KeyToStore, LiveRow
    <2>4. [form EXCEPT !.key = KeyToStore(n, form)] \in LiveRow
      BY <2>3, FormShape
    <2>5. [on |-> "update", name |-> n, row |-> [form EXCEPT !.key = KeyToStore(n, form)],
           typed |-> form.key # NoKey] \in Statement
      BY <2>4 DEF Statement
    <2>6. [form EXCEPT !.key = KeyToStore(n, form)].key = KeyToStore(n, form)
      BY <2>3, FormShape
    <2>7. QED
      BY <1>3, <2>1, <2>5, <2>6 DEF UpdateProvider
  <1>4. ASSUME NEW al \in Alias, NEW n \in Name, CreateRoute(a, al, n) \/ UpdateRoute(a, al, n)
        PROVE  \E w \in Statement : Accept(a, w) /\ w.on \in {"create_route", "update_route"}
    <2>1. \A on \in {"create_route", "update_route"} :
            [on |-> on, alias |-> al, name |-> n] \in Statement
      BY DEF Statement
    <2>2. QED
      BY <1>4, <2>1 DEF CreateRoute, UpdateRoute
  <1>5. ASSUME NEW al \in Alias, DeleteRoute(a, al)
        PROVE  \E w \in Statement : Accept(a, w) /\ w.on = "delete_route"
    <2>1. [on |-> "delete_route", alias |-> al] \in Statement
      BY DEF Statement
    <2>2. QED
      BY <1>5, <2>1 DEF DeleteRoute
  <1>6. ASSUME NEW t \in Name \cup {None}, SetFallbackRoute(a, t)
        PROVE  \E w \in Statement : Accept(a, w) /\ w.on = "fallback"
    <2>1. [on |-> "fallback", target |-> t] \in Statement
      BY DEF Statement
    <2>2. QED
      BY <1>6, <2>1 DEF SetFallbackRoute
  <1>7. QED
    BY <1>1, <1>2, <1>3, <1>4, <1>5, <1>6

LEMMA WriteTypeOK ==
    ASSUME TypeOK, NEW a \in Admin, Write(a)
    PROVE  TypeOK'
  <1> USE DEF Wrote, MoveTo, At, AdminStep
  <1>0. /\ at' \in [Admin -> AdminStep]
        /\ current' \in [Admin -> BOOLEAN]
        /\ inStep' \in BOOLEAN
        /\ UNCHANGED <<proc, live, stmt, load, probing, ops, crashes>>
    BY DEF Write, WriteProvider, WriteProviderDelete, WriteRoute, WriteRouteDelete,
           WriteFallback, WriteNothing, TypeOK
  <1>1. stmt[a] \in Statement \cup {NoStatement}
    BY DEF TypeOK
  <1>2. CASE WriteProvider(a)
    <2>1. With(providers, stmt[a].name, stmt[a].row) \in Maps(Name, LiveRow)
      <3>1. providers \in Maps(Name, LiveRow)
        BY DEF TypeOK
      <3>2. stmt[a].name \in Name /\ stmt[a].row \in LiveRow
        BY <1>1, <1>2, StatementShape DEF WriteProvider
      <3>3. QED
        BY <3>1, <3>2, WithShape
    <2>2. QED
      BY <1>0, <1>2, <2>1 DEF WriteProvider, TypeOK, probing
  <1>3. CASE WriteProviderDelete(a)
    <2>1. Without(providers, stmt[a].name) \in Maps(Name, LiveRow)
      BY WithoutShape DEF TypeOK
    <2>2. [al \in {x \in DOMAIN routes : routes[x] # stmt[a].name} |-> routes[al]] \in Maps(Alias, Name)
      <3>1. routes \in Maps(Alias, Name)
        BY DEF TypeOK
      <3>2. QED
        BY <3>1, CascadeShape
    <2>3. QED
      BY <1>0, <1>3, <2>1, <2>2 DEF WriteProviderDelete, RemoveProvider, TypeOK, probing
  <1>4. CASE WriteRoute(a)
    <2>1. With(routes, stmt[a].alias, stmt[a].name) \in Maps(Alias, Name)
      <3>1. routes \in Maps(Alias, Name)
        BY DEF TypeOK
      <3>2. stmt[a].alias \in Alias /\ stmt[a].name \in Name
        BY <1>1, <1>4, StatementShape DEF WriteRoute
      <3>3. QED
        BY <3>1, <3>2, WithShape
    <2>2. QED
      BY <1>0, <1>4, <2>1 DEF WriteRoute, TypeOK, probing
  <1>5. CASE WriteRouteDelete(a)
    <2>1. Without(routes, stmt[a].alias) \in Maps(Alias, Name)
      BY WithoutShape DEF TypeOK
    <2>2. QED
      BY <1>0, <1>5, <2>1 DEF WriteRouteDelete, TypeOK, probing
  <1>6. CASE WriteFallback(a)
    <2>1. stmt[a].target \in Name \cup {None}
      BY <1>1, <1>6, StatementShape DEF WriteFallback
    <2>2. QED
      BY <1>0, <1>6, <2>1 DEF WriteFallback, TypeOK, probing
  <1>7. CASE WriteNothing(a)
    BY <1>0, <1>7 DEF WriteNothing, TypeOK, probing, tables
  <1>8. QED
    BY <1>2, <1>3, <1>4, <1>5, <1>6, <1>7 DEF Write

LEMMA EndTypeOK ==
    ASSUME TypeOK, NEW a \in Admin, EndHandler(a)
    PROVE  TypeOK'
  <1>1. at' \in [Admin -> AdminStep] /\ stmt' \in [Admin -> Statement \cup {NoStatement}]
    BY DEF EndHandler, MoveTo, TypeOK, AdminStep
  <1>2. load' \in [Admin -> Snapshot] /\ current' \in [Admin -> BOOLEAN]
    BY NoSnapshotShape DEF EndHandler, TypeOK
  <1>3. QED
    BY <1>1, <1>2 DEF EndHandler, TypeOK, tables, probing

\* A watcher per monitored provider.
LEMMA WatchersShape ==
    ASSUME NEW snap PROVE Watchers(snap) \in [Name -> {"off", "probing", "inserting"}]
  BY DEF Watchers

LEMMA ReloadTypeOK ==
    ASSUME TypeOK, NEW a \in Admin, Reload(a)
    PROVE  TypeOK'
  <1> USE DEF MoveTo, At, AdminStep
  <1>0. load[a] \in Snapshot /\ live \in Snapshot
    BY DEF TypeOK
  <1>1. CASE LoadProviders(a)
    <2>1. load' \in [Admin -> Snapshot] /\ current' \in [Admin -> BOOLEAN]
      BY <1>0, <1>1, LoadShape DEF LoadProviders, TypeOK
    <2>2. at' \in [Admin -> AdminStep]
      BY <1>1 DEF LoadProviders, TypeOK
    <2>3. QED
      BY <1>1, <2>1, <2>2 DEF LoadProviders, TypeOK, tables, probing
  <1>2. CASE LoadRoutes(a)
    <2>1. load' \in [Admin -> Snapshot]
      BY <1>0, <1>2, LoadShape DEF LoadRoutes, TypeOK
    <2>2. at' \in [Admin -> AdminStep]
      BY <1>2 DEF LoadRoutes, TypeOK
    <2>3. QED
      BY <1>2, <2>1, <2>2 DEF LoadRoutes, TypeOK, tables, probing
  <1>3. CASE LoadSetting(a)
    <2>1. load' \in [Admin -> Snapshot]
      BY <1>0, <1>3, LoadShape DEF LoadSetting, TypeOK
    <2>2. at' \in [Admin -> AdminStep]
      BY <1>3 DEF LoadSetting, TypeOK
    <2>3. QED
      BY <1>3, <2>1, <2>2 DEF LoadSetting, TypeOK, tables, probing
  <1>4. CASE Swap(a)
    BY <1>0, <1>4 DEF Swap, TypeOK, tables, probing
  <1>5. CASE Reconcile(a)
    <2>1. leftover' \subseteq Name /\ watch' \in [Name -> {"off", "probing", "inserting"}]
      BY <1>5, WatchersShape DEF Reconcile, TypeOK
    <2>2. QED
      BY <1>5, <2>1 DEF Reconcile, TypeOK, tables
  <1>6. CASE Retain(a)
    BY <1>6 DEF Retain, TypeOK, tables
  <1>7. CASE Reply(a)
    BY <1>7, EndTypeOK DEF Reply
  <1>8. QED
    BY <1>1, <1>2, <1>3, <1>4, <1>5, <1>6, <1>7 DEF Reload

LEMMA BackgroundTypeOK ==
    ASSUME TypeOK, NEW n \in Name, Background(n)
    PROVE  TypeOK'
  <1> USE DEF WriteStatus, config, handlers, tables
  <1>1. CASE WatcherPersists(n)
    <2>1. rows' \subseteq Name /\ watch' \in [Name -> {"off", "probing", "inserting"}]
      BY <1>1 DEF WatcherPersists, TypeOK
    <2>2. QED
      BY <1>1, <2>1 DEF WatcherPersists, TypeOK
  <1>2. CASE WatcherInserts(n)
    BY <1>2 DEF WatcherInserts, TypeOK
  <1>3. CASE LeftoverInserts(n)
    BY <1>3 DEF LeftoverInserts, TypeOK
  <1>4. CASE ReprobePersists(n)
    <2>1. rows' \subseteq Name
      BY <1>4 DEF ReprobePersists, TypeOK
    <2>2. reprobes' \subseteq [name : Name, at : {"probing", "inserting"}]
      BY <1>4 DEF ReprobePersists, TypeOK
    <2>3. QED
      BY <1>4, <2>1, <2>2 DEF ReprobePersists, TypeOK
  <1>5. CASE ReprobeInserts(n)
    BY <1>5 DEF ReprobeInserts, TypeOK
  <1>6. ASSUME NEW r \in Request, MarkDegraded(r, n) PROVE TypeOK'
    <2>1. reprobes' \subseteq [name : Name, at : {"probing", "inserting"}]
      BY <1>6 DEF MarkDegraded, TypeOK
    <2>2. QED
      BY <1>6, <2>1 DEF MarkDegraded, TypeOK
  <1>7. QED
    BY <1>1, <1>2, <1>3, <1>4, <1>5, <1>6 DEF Background

LEMMA RequestTypeOK ==
    ASSUME TypeOK, NEW r \in Request, TakeSnapshot(r) \/ DropSnapshot(r)
    PROVE  TypeOK'
  <1>1. NoRows \in Maps(Name, LiveRow) /\ live.providers \in Maps(Name, LiveRow)
    BY NoRowsShape DEF TypeOK, Snapshot
  <1>2. QED
    BY <1>1 DEF TakeSnapshot, DropSnapshot, TypeOK, tables, config, handlers

\* What is in the tables when main opens the door.
LEMMA ComeUpTypeOK ==
    ASSUME TypeOK, ComeUp,
           providers' \in Maps(Name, LiveRow), routes' \in Maps(Alias, Name),
           setting' \in Name \cup {None, Absent}, rows' \subseteq Name
    PROVE  TypeOK'
  <1>1. Overlay(providers') \in Maps(Name, LiveRow)
    BY OverlayShape
  <1>2. FallbackFrom(setting', FileFallback) \in Name \cup {None}
    BY ConfigAssumption DEF FallbackFrom
  <1>3. live' \in Snapshot
    BY <1>1, <1>2 DEF ComeUp, Loaded, Snapshot
  <1>4. watch' \in [Name -> {"off", "probing", "inserting"}]
    BY WatchersShape DEF ComeUp
  <1>5. QED
    BY <1>3, <1>4 DEF ComeUp, TypeOK, handlers

LEMMA ProcessTypeOK ==
    ASSUME TypeOK, Crash \/ Start \/ StartReseed \/ ReseedDies
    PROVE  TypeOK'
  <1>0. /\ NoRows \in Maps(Name, LiveRow)
        /\ NoRows \in Maps(Alias, Name)
    BY NoRowsShape
  <1>1. CASE Crash
    <2>1. at' \in [Admin -> AdminStep] /\ stmt' \in [Admin -> Statement \cup {NoStatement}]
      BY <1>1 DEF Crash, AdminStep
    <2>2. live' \in Snapshot /\ load' \in [Admin -> Snapshot]
      BY <1>1, NoSnapshotShape DEF Crash
    <2>3. crashes' \in 0..MaxCrashes
      BY <1>1, ConfigAssumption DEF Crash, TypeOK
    <2>4. watch' \in [Name -> {"off", "probing", "inserting"}] /\ current' \in [Admin -> BOOLEAN]
      BY <1>1 DEF Crash
    <2>5. held' \in [Request -> Maps(Name, LiveRow)]
      BY <1>0, <1>1 DEF Crash
    <2>6. UNCHANGED <<providers, routes, setting, rows, ops>>
      BY <1>1 DEF Crash, tables
    <2>7. proc' = "down" /\ inStep' = FALSE /\ status' = {} /\ leftover' = {} /\ reprobes' = {}
      BY <1>1 DEF Crash
    <2>8. QED
      BY <2>1, <2>2, <2>3, <2>4, <2>5, <2>6, <2>7 DEF TypeOK
  <1>2. CASE Start
    <2>1. /\ providers' \in Maps(Name, LiveRow)
          /\ routes' \in Maps(Alias, Name)
          /\ setting' \in Name \cup {None, Absent}
      BY <1>2, FileShape, ConfigAssumption DEF Start, Seed, TypeOK
    <2>2. QED
      BY <1>2, <2>1, ComeUpTypeOK DEF Start, TypeOK
  <1>3. CASE StartReseed
    <2>1. /\ providers' \in Maps(Name, LiveRow)
          /\ routes' \in Maps(Alias, Name)
          /\ setting' \in Name \cup {None, Absent}
      BY <1>3, FileShape, ConfigAssumption DEF StartReseed
    <2>2. QED
      BY <1>3, <2>1, ComeUpTypeOK DEF StartReseed
  <1>4. CASE ReseedDies
    <2>1. crashes' \in 0..MaxCrashes
      BY <1>4, ConfigAssumption DEF ReseedDies, TypeOK
    <2>2. /\ providers' \in Maps(Name, LiveRow)
          /\ setting' \in Name \cup {None, Absent}
          /\ rows' \subseteq Name
      BY <1>0, <1>4 DEF ReseedDies, TypeOK
    <2>3. QED
      BY <1>0, <1>4, <2>1, <2>2 DEF ReseedDies, TypeOK, config, handlers, probing
  <1>5. QED
    BY <1>1, <1>2, <1>3, <1>4

\* An accepted request only sets the handler on its way.
LEMMA HandlerCases ==
    ASSUME TypeOK, NEW a \in Admin, Handler(a)
    PROVE  \/ \E w \in Statement : Accept(a, w)
           \/ Write(a) \/ EndHandler(a) \/ Reload(a)
  BY AcceptedShape DEF Handler, Abandon

LEMMA NextTypeOK == TypeOK /\ [Next]_vars => TypeOK'
  <1> SUFFICES ASSUME TypeOK, [Next]_vars PROVE TypeOK'
    OBVIOUS
  <1>1. ASSUME NEW a \in Admin, Handler(a) PROVE TypeOK'
    BY <1>1, HandlerCases, AcceptTypeOK, WriteTypeOK, EndTypeOK, ReloadTypeOK
  <1>2. CASE UNCHANGED vars
    BY <1>2 DEF vars, TypeOK, tables, config, handlers, probing
  <1>3. QED
    BY <1>1, <1>2, BackgroundTypeOK, RequestTypeOK, ProcessTypeOK DEF Next

\* Tables, snapshot, handlers and tasks keep their types.
THEOREM TypeCorrect == Spec => []TypeOK
  BY InitTypeOK, NextTypeOK, PTL DEF Spec

\* What each statement makes of its table, value by value.
LEMMA WriteShape ==
    ASSUME NEW a \in Admin
    PROVE  /\ WriteProvider(a) =>
                /\ DOMAIN providers' = DOMAIN providers \cup {stmt[a].name}
                /\ \A n \in DOMAIN providers' :
                     providers'[n] = IF n = stmt[a].name THEN stmt[a].row ELSE providers[n]
           /\ WriteProviderDelete(a) =>
                /\ DOMAIN providers' = DOMAIN providers \ {stmt[a].name}
                /\ \A n \in DOMAIN providers' : providers'[n] = providers[n]
                /\ \A al \in DOMAIN routes' :
                     al \in DOMAIN routes /\ routes'[al] = routes[al] /\ routes'[al] # stmt[a].name
           /\ WriteRoute(a) =>
                /\ DOMAIN routes' = DOMAIN routes \cup {stmt[a].alias}
                /\ \A al \in DOMAIN routes' :
                     routes'[al] = IF al = stmt[a].alias THEN stmt[a].name ELSE routes[al]
           /\ WriteRouteDelete(a) =>
                \A al \in DOMAIN routes' : al \in DOMAIN routes /\ routes'[al] = routes[al]
  <1>1. ASSUME WriteProvider(a)
        PROVE  /\ DOMAIN providers' = DOMAIN providers \cup {stmt[a].name}
               /\ \A n \in DOMAIN providers' :
                     providers'[n] = IF n = stmt[a].name THEN stmt[a].row ELSE providers[n]
    BY <1>1 DEF WriteProvider, With
  <1>2. ASSUME WriteProviderDelete(a)
        PROVE  /\ DOMAIN providers' = DOMAIN providers \ {stmt[a].name}
               /\ \A n \in DOMAIN providers' : providers'[n] = providers[n]
               /\ \A al \in DOMAIN routes' :
                    al \in DOMAIN routes /\ routes'[al] = routes[al] /\ routes'[al] # stmt[a].name
    BY <1>2 DEF WriteProviderDelete, RemoveProvider, Without
  <1>3. ASSUME WriteRoute(a)
        PROVE  /\ DOMAIN routes' = DOMAIN routes \cup {stmt[a].alias}
               /\ \A al \in DOMAIN routes' :
                     routes'[al] = IF al = stmt[a].alias THEN stmt[a].name ELSE routes[al]
    BY <1>3 DEF WriteRoute, With
  <1>4. ASSUME WriteRouteDelete(a)
        PROVE  \A al \in DOMAIN routes' : al \in DOMAIN routes /\ routes'[al] = routes[al]
    BY <1>4 DEF WriteRouteDelete, Without
  <1>5. QED
    BY <1>1, <1>2, <1>3, <1>4

-----------------------------------------------------------------------------
(* The keys of the environment.                                             *)

\* What an accepted request may store was typed or is stored already.
LEMMA AcceptKeepsKeysOut ==
    ASSUME TypeOK, EnvKeysNeverPersisted, StatementsHoldNoEnvKey,
           NEW a \in Admin, NEW w \in Statement, Accept(a, w),
           w.on \in {"create", "update"} => w.row.key # EnvKey
    PROVE  EnvKeysNeverPersisted' /\ StatementsHoldNoEnvKey'
  <1>1. stmt'[a] = w /\ \A b \in Admin \ {a} : stmt'[b] = stmt[b]
    BY DEF Accept, TypeOK
  <1>2. providers' = providers
    BY DEF Accept, tables
  <1>3. QED
    BY <1>1, <1>2 DEF EnvKeysNeverPersisted, StatementsHoldNoEnvKey

LEMMA NextKeepsKeysOut ==
    ASSUME TypeOK, EnvKeysNeverPersisted, StatementsHoldNoEnvKey, [Next]_vars
    PROVE  EnvKeysNeverPersisted' /\ StatementsHoldNoEnvKey'
  <1> USE DEF EnvKeysNeverPersisted, StatementsHoldNoEnvKey
  <1>1. ASSUME NEW a \in Admin, NEW n \in Name, NEW form \in Row,
               CreateProvider(a, n, form) \/ UpdateProvider(a, n, form)
        PROVE  EnvKeysNeverPersisted' /\ StatementsHoldNoEnvKey'
    <2>1. form.key # EnvKey
      BY FormShape
    <2>2. n \in DOMAIN providers => KeyToStore(n, form) # EnvKey
      BY <2>1 DEF KeyToStore
    <2>3. PICK w \in Statement : Accept(a, w) /\ w.row.key # EnvKey
      BY <1>1, <2>1, <2>2, AcceptedShape
    <2>4. QED
      BY <2>3, AcceptKeepsKeysOut
  <1>2. ASSUME NEW a \in Admin,
               NEW w \in Statement, Accept(a, w), w.on \notin {"create", "update"}
        PROVE  EnvKeysNeverPersisted' /\ StatementsHoldNoEnvKey'
    BY <1>2, AcceptKeepsKeysOut
  <1>3. ASSUME NEW a \in Admin, Write(a)
        PROVE  EnvKeysNeverPersisted' /\ StatementsHoldNoEnvKey'
    <2>1. stmt' = stmt
      BY <1>3 DEF Write, WriteProvider, WriteProviderDelete, WriteRoute, WriteRouteDelete,
                  WriteFallback, WriteNothing, Wrote
    <2>2. CASE WriteProvider(a)
      <3>1. stmt[a].on \in {"create", "update"}
        BY <2>2 DEF WriteProvider
      <3>2. stmt[a].row.key # EnvKey
        BY <3>1
      <3>3. /\ DOMAIN providers' = DOMAIN providers \cup {stmt[a].name}
            /\ \A n \in DOMAIN providers' :
                 providers'[n] = IF n = stmt[a].name THEN stmt[a].row ELSE providers[n]
        BY <2>2, WriteShape
      <3>4. QED
        BY <2>1, <3>2, <3>3
    <2>3. CASE WriteProviderDelete(a)
      <3>1. \A n \in DOMAIN providers' : n \in DOMAIN providers /\ providers'[n] = providers[n]
        BY <2>3, WriteShape
      <3>2. QED
        BY <2>1, <3>1
    <2>4. CASE providers' = providers
      BY <2>1, <2>4
    <2>5. QED
      BY <1>3, <2>2, <2>3, <2>4
      DEF Write, WriteRoute, WriteRouteDelete, WriteFallback, WriteNothing, tables
  <1>4. ASSUME NEW a \in Admin, EndHandler(a)
        PROVE  EnvKeysNeverPersisted' /\ StatementsHoldNoEnvKey'
    <2>1. \A b \in Admin : stmt'[b] = stmt[b] \/ stmt'[b] = NoStatement
      BY <1>4 DEF EndHandler, TypeOK
    <2>2. QED
      BY <1>4, <2>1 DEF EndHandler, tables, NoStatement
  <1>5. CASE UNCHANGED <<providers, stmt>>
    BY <1>5
  <1>6. CASE Crash
    BY <1>6 DEF Crash, tables, NoStatement
  <1>7. CASE Start \/ StartReseed
    <2>1. stmt' = stmt
      BY <1>7 DEF Start, StartReseed, ComeUp, handlers
    <2>2. providers' \in {providers, FileProviders}
      BY <1>7 DEF Start, StartReseed, Seed
    <2>3. QED
      BY <2>1, <2>2, FileShape
  <1>8. CASE ReseedDies
    <2>1. stmt' = stmt /\ providers' \in {providers, NoRows}
      BY <1>8 DEF ReseedDies, config, handlers
    <2>2. DOMAIN NoRows = {}
      BY NoRowsShape
    <2>3. QED
      BY <2>1, <2>2
  <1>9. ASSUME NEW a \in Admin, Handler(a)
        PROVE  EnvKeysNeverPersisted' /\ StatementsHoldNoEnvKey'
    <2>1. ASSUME Reload(a) PROVE UNCHANGED <<providers, stmt>> \/ EndHandler(a)
      BY <2>1 DEF Reload, LoadProviders, LoadRoutes, LoadSetting, Swap, Reconcile, Retain, Reply, tables
    <2>2. QED
      BY <1>1, <1>2, <1>3, <1>4, <1>5, <1>9, <2>1, AcceptedShape DEF Handler, Abandon
  <1>10. ASSUME NEW n \in Name, Background(n) PROVE UNCHANGED <<providers, stmt>>
    BY <1>10 DEF Background, WatcherPersists, WatcherInserts, LeftoverInserts, ReprobePersists,
                 ReprobeInserts, MarkDegraded, tables, config, handlers
  <1>11. QED
    BY <1>5, <1>6, <1>7, <1>8, <1>9, <1>10
    DEF Next, TakeSnapshot, DropSnapshot, vars, tables, config, handlers

-----------------------------------------------------------------------------
(* The references between the tables.                                       *)

LEMMA NextKeepsReferences ==
    ASSUME TypeOK, RowsReferenceProviders, [Next]_vars
    PROVE  RowsReferenceProviders'
  <1> USE DEF RowsReferenceProviders
  <1>1. ASSUME NEW a \in Admin, Write(a) PROVE RowsReferenceProviders'
    <2>2. CASE WriteProvider(a)
      <3>1. DOMAIN providers' = DOMAIN providers \cup {stmt[a].name}
        BY <2>2, WriteShape
      <3>2. QED
        BY <2>2, <3>1 DEF WriteProvider
    <2>3. CASE WriteProviderDelete(a)
      <3>1. /\ DOMAIN providers' = DOMAIN providers \ {stmt[a].name}
            /\ \A al \in DOMAIN routes' :
                 al \in DOMAIN routes /\ routes'[al] = routes[al] /\ routes'[al] # stmt[a].name
        BY <2>3, WriteShape
      <3>2. rows' = rows \ {stmt[a].name}
        BY <2>3 DEF WriteProviderDelete, RemoveProvider
      <3>3. QED
        BY <3>1, <3>2
    <2>4. CASE WriteRoute(a)
      <3>1. /\ DOMAIN routes' = DOMAIN routes \cup {stmt[a].alias}
            /\ \A al \in DOMAIN routes' :
                 routes'[al] = IF al = stmt[a].alias THEN stmt[a].name ELSE routes[al]
        BY <2>4, WriteShape
      <3>2. QED
        BY <2>4, <3>1 DEF WriteRoute
    <2>5. CASE WriteRouteDelete(a)
      <3>1. \A al \in DOMAIN routes' : al \in DOMAIN routes /\ routes'[al] = routes[al]
        BY <2>5, WriteShape
      <3>2. QED
        BY <2>5, <3>1 DEF WriteRouteDelete
    <2>6. CASE WriteFallback(a) \/ WriteNothing(a)
      BY <2>6 DEF WriteFallback, WriteNothing, tables
    <2>7. QED
      BY <1>1, <2>2, <2>3, <2>4, <2>5, <2>6 DEF Write
  <1>2. CASE UNCHANGED tables
    BY <1>2 DEF tables
  <1>3. ASSUME NEW a \in Admin, Handler(a) PROVE Write(a) \/ UNCHANGED tables
    BY <1>3, HandlerCases DEF Accept, EndHandler, Reload, LoadProviders, LoadRoutes, LoadSetting,
                              Swap, Reconcile, Retain, Reply, tables
  <1>4. ASSUME NEW n \in Name, Background(n) PROVE RowsReferenceProviders'
    BY <1>4 DEF Background, WatcherPersists, WatcherInserts, LeftoverInserts, ReprobePersists,
                ReprobeInserts, MarkDegraded, WriteStatus, tables
  <1>5. CASE Start \/ StartReseed
    <2>1. CASE UNCHANGED <<providers, routes, rows>>
      BY <2>1
    <2>2. CASE providers' = FileProviders /\ routes' = FileRoutes /\ rows' = {}
      BY <2>2, FileShape
    <2>3. rows \subseteq DOMAIN providers /\ (providers = NoRows => rows = {})
      BY NoRowsShape
    <2>4. QED
      BY <1>5, <2>1, <2>2, <2>3 DEF Start, StartReseed, Seed
  <1>6. CASE ReseedDies
    BY <1>6, NoRowsShape DEF ReseedDies
  <1>7. QED
    BY <1>1, <1>2, <1>3, <1>4, <1>5, <1>6
    DEF Next, TakeSnapshot, DropSnapshot, Crash, vars

-----------------------------------------------------------------------------
(* The snapshot.                                                            *)

ReloadInv == LoadsAreCurrent /\ AbsentDefersToFile /\ DownIsIdle /\ ReloadMatchesTables

\* A written table makes every reload under way outdated, and the snapshot too.
LEMMA WriteKeepsReload ==
    ASSUME TypeOK, ReloadInv, NEW a \in Admin, Write(a)
    PROVE  ReloadInv'
  <1> USE DEF ReloadInv, At, MoveTo
  <1>0. proc = "up" /\ at[a] = "writing" /\ stmt[a] \in Statement \cup {NoStatement}
    BY DEF Write, WriteProvider, WriteProviderDelete, WriteRoute, WriteRouteDelete,
           WriteFallback, WriteNothing, TypeOK
  <1>1. /\ UNCHANGED <<proc, live, load>>
        /\ at'[a] = "reloading"
        /\ \A b \in Admin \ {a} : at'[b] = at[b]
    BY DEF Write, WriteProvider, WriteProviderDelete, WriteRoute, WriteRouteDelete,
           WriteFallback, WriteNothing, Wrote, TypeOK
  <1>2. setting' = setting \/ setting' # Absent
    <2>1. WriteFallback(a) => setting' \in Name \cup {None}
      BY <1>0, StatementShape DEF WriteFallback
    <2>2. QED
      BY <2>1, ConfigAssumption
      DEF Write, WriteProvider, WriteProviderDelete, WriteRoute, WriteRouteDelete,
          WriteNothing, tables
  <1>3. AbsentDefersToFile'
    BY <1>0, <1>1, <1>2 DEF AbsentDefersToFile
  <1>4. DownIsIdle'
    BY <1>0, <1>1 DEF DownIsIdle
  <1>5. CASE WriteNothing(a)
    <2>1. UNCHANGED <<providers, routes, setting, current, inStep>>
      BY <1>5 DEF WriteNothing, tables
    <2>2. ~current[a]
      BY <1>0 DEF LoadsAreCurrent
    <2>3. LoadsAreCurrent'
      BY <1>1, <2>1, <2>2 DEF LoadsAreCurrent
    <2>4. ReloadMatchesTables'
      BY <1>1, <2>1 DEF ReloadMatchesTables, Loaded
    <2>5. QED
      BY <1>3, <1>4, <2>3, <2>4
  <1>6. CASE ~WriteNothing(a)
    <2>1. Wrote
      BY <1>6 DEF Write, WriteProvider, WriteProviderDelete, WriteRoute, WriteRouteDelete, WriteFallback
    <2>2. LoadsAreCurrent' /\ ReloadMatchesTables'
      BY <2>1 DEF Wrote, LoadsAreCurrent, ReloadMatchesTables
    <2>3. QED
      BY <1>3, <1>4, <2>2
  <1>7. QED
    BY <1>5, <1>6

\* A handler that begins or ends holds nothing.
LEMMA EndsKeepReload ==
    ASSUME TypeOK, ReloadInv, NEW a \in Admin,
           EndHandler(a) \/ \E w \in Statement : Accept(a, w),
           proc = "up"
    PROVE  ReloadInv'
  <1> USE DEF ReloadInv, At, MoveTo
  <1>1. /\ UNCHANGED <<proc, tables, live, inStep>>
        /\ at'[a] \in {"idle", "writing"}
        /\ \A b \in Admin \ {a} : at'[b] = at[b] /\ load'[b] = load[b] /\ current'[b] = current[b]
    BY DEF EndHandler, Accept, TypeOK
  <1>2. ~current'[a]
    BY DEF EndHandler, Accept, TypeOK, LoadsAreCurrent
  <1>3. LoadsAreCurrent'
    BY <1>1, <1>2 DEF LoadsAreCurrent, tables
  <1>4. AbsentDefersToFile'
    BY <1>1 DEF AbsentDefersToFile, tables
  <1>5. ReloadMatchesTables' /\ DownIsIdle'
    BY <1>1 DEF ReloadMatchesTables, DownIsIdle, Loaded, tables
  <1>6. QED
    BY <1>3, <1>4, <1>5

LEMMA ReloadKeepsReload ==
    ASSUME TypeOK, ReloadInv, NEW a \in Admin, Reload(a)
    PROVE  ReloadInv'
  <1> USE DEF ReloadInv, At, MoveTo
  <1>0. proc = "up" /\ load[a] \in Snapshot /\ live \in Snapshot
    BY DEF Reload, LoadProviders, LoadRoutes, LoadSetting, Swap, Reconcile, Retain, Reply, TypeOK
  <1>1. CASE LoadProviders(a)
    <2>1. /\ at'[a] = "loading_routes" /\ at[a] = "reloading"
          /\ load'[a] = [live EXCEPT !.providers = Overlay(providers)]
          /\ \A b \in Admin \ {a} : at'[b] = at[b] /\ load'[b] = load[b] /\ current'[b] = current[b]
          /\ UNCHANGED <<proc, providers, routes, setting, live, inStep>>
      BY <1>1 DEF LoadProviders, TypeOK, tables
    <2>2. load'[a].providers = Overlay(providers) /\ load'[a].fallback = live.fallback
      BY <1>0, <2>1 DEF Snapshot
    <2>3. LoadsAreCurrent'
      BY <2>1, <2>2 DEF LoadsAreCurrent
    <2>4. AbsentDefersToFile'
      BY <2>1, <2>2 DEF AbsentDefersToFile
    <2>5. ReloadMatchesTables' /\ DownIsIdle'
      BY <1>0, <2>1 DEF ReloadMatchesTables, DownIsIdle, Loaded
    <2>6. QED
      BY <2>3, <2>4, <2>5
  <1>2. CASE LoadRoutes(a)
    <2>1. /\ at'[a] = "loading_setting" /\ at[a] = "loading_routes"
          /\ load'[a] = [load[a] EXCEPT !.routes = routes]
          /\ \A b \in Admin \ {a} : at'[b] = at[b] /\ load'[b] = load[b]
          /\ UNCHANGED <<proc, providers, routes, setting, live, inStep, current>>
      BY <1>2 DEF LoadRoutes, TypeOK, tables
    <2>2. /\ load'[a].providers = load[a].providers
          /\ load'[a].routes = routes
          /\ load'[a].fallback = load[a].fallback
      BY <1>0, <2>1 DEF Snapshot
    <2>3. LoadsAreCurrent'
      <3>1. current' = current /\ LoadsAreCurrent
        BY <2>1
      <3>2. \A b \in Admin : b # a => at'[b] = at[b] /\ load'[b] = load[b]
        BY <2>1
      <3> SUFFICES ASSUME NEW b \in Admin, current'[b]
                   PROVE  /\ at'[b] \notin {"idle", "writing", "reloading"}
                          /\ load'[b].providers = Overlay(providers')
                          /\ at'[b] # "loading_routes" => load'[b].routes = routes'
                          /\ at'[b] \notin {"loading_routes", "loading_setting"} =>
                                load'[b].fallback = FallbackFrom(setting', FileFallback)
        BY DEF LoadsAreCurrent
      <3>3. CASE b = a
        BY <2>1, <2>2, <3>1, <3>3 DEF LoadsAreCurrent
      <3>4. CASE b # a
        BY <2>1, <3>1, <3>2, <3>4 DEF LoadsAreCurrent
      <3>5. QED
        BY <3>3, <3>4
    <2>4. AbsentDefersToFile'
      BY <2>1, <2>2 DEF AbsentDefersToFile
    <2>5. ReloadMatchesTables' /\ DownIsIdle'
      BY <1>0, <2>1 DEF ReloadMatchesTables, DownIsIdle, Loaded
    <2>6. QED
      BY <2>3, <2>4, <2>5
  <1>3. CASE LoadSetting(a)
    <2>1. /\ at'[a] = "swapping" /\ at[a] = "loading_setting"
          /\ load'[a] = [load[a] EXCEPT !.fallback = FallbackFrom(setting, load[a].fallback)]
          /\ \A b \in Admin \ {a} : at'[b] = at[b] /\ load'[b] = load[b]
          /\ UNCHANGED <<proc, providers, routes, setting, live, inStep, current>>
      BY <1>3 DEF LoadSetting, LoadFallbackRoute, TypeOK, tables
    <2>2. /\ load'[a].providers = load[a].providers
          /\ load'[a].routes = load[a].routes
          /\ load'[a].fallback = FallbackFrom(setting, load[a].fallback)
      BY <1>0, <2>1 DEF Snapshot
    <2>3. setting = Absent => load[a].fallback = FileFallback
      BY <1>0, <2>1 DEF AbsentDefersToFile
    <2>4. load'[a].fallback = FallbackFrom(setting, FileFallback)
      BY <2>2, <2>3 DEF FallbackFrom
    <2>5. LoadsAreCurrent'
      BY <2>1, <2>2, <2>4 DEF LoadsAreCurrent
    <2>6. AbsentDefersToFile'
      BY <2>1, <2>4 DEF AbsentDefersToFile, FallbackFrom
    <2>7. ReloadMatchesTables' /\ DownIsIdle'
      BY <1>0, <2>1 DEF ReloadMatchesTables, DownIsIdle, Loaded
    <2>8. QED
      BY <2>5, <2>6, <2>7
  <1>4. CASE Swap(a)
    <2>1. /\ at'[a] = "reconciling" /\ at[a] = "swapping"
          /\ live' = load[a] /\ inStep' = current[a]
          /\ \A b \in Admin \ {a} : at'[b] = at[b]
          /\ UNCHANGED <<proc, providers, routes, setting, load, current>>
      BY <1>4 DEF Swap, TypeOK, tables
    <2>2. current[a] => load[a] = Loaded
      BY <1>0, <2>1 DEF LoadsAreCurrent, Loaded, Snapshot
    <2>3. ReloadMatchesTables'
      BY <2>1, <2>2 DEF ReloadMatchesTables, Loaded
    <2>4. LoadsAreCurrent'
      BY <2>1 DEF LoadsAreCurrent
    <2>5. AbsentDefersToFile' /\ DownIsIdle'
      BY <1>0, <2>1 DEF AbsentDefersToFile, DownIsIdle
    <2>6. QED
      BY <2>3, <2>4, <2>5
  <1>5. CASE Reconcile(a) \/ Retain(a)
    <2>1. /\ at'[a] \in {"retaining", "replying"} /\ at[a] \in {"reconciling", "retaining"}
          /\ \A b \in Admin \ {a} : at'[b] = at[b]
          /\ UNCHANGED <<proc, providers, routes, setting, live, load, current, inStep>>
      BY <1>5 DEF Reconcile, Retain, TypeOK, tables
    <2>2. LoadsAreCurrent'
      BY <2>1 DEF LoadsAreCurrent
    <2>3. AbsentDefersToFile'
      BY <2>1 DEF AbsentDefersToFile
    <2>4. ReloadMatchesTables' /\ DownIsIdle'
      BY <1>0, <2>1 DEF ReloadMatchesTables, DownIsIdle, Loaded
    <2>5. QED
      BY <2>2, <2>3, <2>4
  <1>6. CASE Reply(a)
    BY <1>0, <1>6, EndsKeepReload DEF Reply
  <1>7. QED
    BY <1>1, <1>2, <1>3, <1>4, <1>5, <1>6 DEF Reload

LEMMA ProcessKeepsReload ==
    ASSUME TypeOK, ReloadInv, Crash \/ Start \/ StartReseed \/ ReseedDies
    PROVE  ReloadInv'
  <1> USE DEF ReloadInv
  <1>1. CASE Crash
    BY <1>1 DEF Crash, LoadsAreCurrent, AbsentDefersToFile, DownIsIdle, ReloadMatchesTables
  <1>2. CASE Start \/ StartReseed
    <2>1. proc = "down" /\ proc' = "up" /\ live' = Loaded' /\ UNCHANGED <<at, current>>
      BY <1>2 DEF Start, StartReseed, ComeUp, handlers
    <2>2. \A a \in Admin : at[a] = "idle" /\ ~current[a]
      BY <2>1 DEF DownIsIdle
    <2>3. live'.fallback = FallbackFrom(setting', FileFallback)
      BY <2>1 DEF Loaded
    <2>4. QED
      BY <2>1, <2>2, <2>3
      DEF LoadsAreCurrent, AbsentDefersToFile, DownIsIdle, ReloadMatchesTables, FallbackFrom
  <1>3. CASE ReseedDies
    BY <1>3 DEF ReseedDies, LoadsAreCurrent, AbsentDefersToFile, DownIsIdle, ReloadMatchesTables,
                config, handlers
  <1>4. QED
    BY <1>1, <1>2, <1>3

LEMMA NextKeepsReload ==
    ASSUME TypeOK, ReloadInv, [Next]_vars
    PROVE  ReloadInv'
  <1>1. ASSUME NEW a \in Admin, Handler(a) PROVE ReloadInv'
    <2>1. EndHandler(a) \/ (\E w \in Statement : Accept(a, w)) => proc = "up" \/ Reload(a) \/ Write(a)
      BY <1>1, AcceptedShape DEF Handler, Abandon, Accept, At
    <2>2. QED
      BY <1>1, <2>1, HandlerCases, WriteKeepsReload, EndsKeepReload, ReloadKeepsReload
  <1>2. CASE UNCHANGED <<proc, providers, routes, setting, config>>
    BY <1>2 DEF ReloadInv, LoadsAreCurrent, AbsentDefersToFile, DownIsIdle, ReloadMatchesTables,
                Loaded, config, handlers
  <1>3. ASSUME NEW n \in Name, Background(n)
        PROVE  UNCHANGED <<proc, providers, routes, setting, config>>
    BY <1>3 DEF Background, WatcherPersists, WatcherInserts, LeftoverInserts, ReprobePersists,
                ReprobeInserts, MarkDegraded, tables
  <1>4. QED
    BY <1>1, <1>2, <1>3, ProcessKeepsReload DEF Next, TakeSnapshot, DropSnapshot, vars, tables

-----------------------------------------------------------------------------
(* The theorems.                                                            *)

LEMMA InitIInv == Init => IInv
  <1> SUFFICES ASSUME Init PROVE IInv
    OBVIOUS
  <1>1. providers = NoRows /\ routes = NoRows /\ DOMAIN NoRows = {} /\ rows = {}
    BY NoRowsShape DEF Init
  <1>2. EnvKeysNeverPersisted /\ RowsReferenceProviders
    BY <1>1 DEF EnvKeysNeverPersisted, RowsReferenceProviders
  <1>3. StatementsHoldNoEnvKey
    BY DEF Init, StatementsHoldNoEnvKey, NoStatement
  <1>4. LoadsAreCurrent /\ AbsentDefersToFile /\ DownIsIdle /\ ReloadMatchesTables
    BY DEF Init, LoadsAreCurrent, AbsentDefersToFile, DownIsIdle, ReloadMatchesTables
  <1>5. QED
    BY <1>2, <1>3, <1>4, InitTypeOK DEF IInv

LEMMA NextIInv == IInv /\ [Next]_vars => IInv'
  <1> SUFFICES ASSUME IInv, [Next]_vars PROVE IInv'
    OBVIOUS
  <1>1. TypeOK'
    BY NextTypeOK DEF IInv
  <1>2. EnvKeysNeverPersisted' /\ StatementsHoldNoEnvKey'
    BY NextKeepsKeysOut DEF IInv
  <1>3. RowsReferenceProviders'
    BY NextKeepsReferences DEF IInv
  <1>4. ReloadInv'
    BY NextKeepsReload DEF IInv, ReloadInv
  <1>5. QED
    BY <1>1, <1>2, <1>3, <1>4 DEF IInv, ReloadInv

THEOREM Invariance == Spec => []IInv
  BY InitIInv, NextIInv, PTL DEF Spec

\* No sequence of seeds, edits, reloads, crashes and restarts stores a key that
\* is only in the environment.
THEOREM EnvKeysStayOut == Spec => []EnvKeysNeverPersisted
  BY Invariance, PTL DEF IInv

\* Routes and status rows never outlive their provider.
THEOREM TablesStayWhole == Spec => []RowsReferenceProviders
  BY Invariance, PTL DEF IInv

\* With any number of admins: a swap of what was read after the last write
\* makes the snapshot exact, until the next write.
THEOREM UndisturbedReloadIsExact == Spec => []ReloadMatchesTables
  BY Invariance, PTL DEF IInv

-----------------------------------------------------------------------------
(* One admin at a time.                                                     *)

LEMMA InitSolo == Init => SoloInv
  <1> SUFFICES ASSUME Init PROVE SoloInv
    OBVIOUS
  <1>1. DOMAIN NoRows = {}
    BY DEF NoRows
  <1>2. {n \in Name : watch[n] # "off"} = Monitored(live)
    BY <1>1 DEF Init, Monitored, NoSnapshot
  <1>3. QED
    BY <1>2 DEF Init, SoloInv, ReloadsOwnWrite, StoredKeyIsFresh, TasksLagBySwap, ReconcilesLive

\* What is accepted is fresh, and no reload begins by it.
LEMMA AcceptKeepsSolo ==
    ASSUME TypeOK, SoloInv, NEW a \in Admin, NEW w \in Statement, Accept(a, w),
           w.on = "update" /\ ~w.typed =>
              w.name \in DOMAIN providers /\ w.row.key = providers[w.name].key
    PROVE  SoloInv'
  <1> USE DEF At, MoveTo, SoloInv
  <1>1. /\ at[a] = "idle" /\ at'[a] = "writing" /\ stmt'[a] = w
        /\ \A b \in Admin \ {a} : at'[b] = at[b] /\ stmt'[b] = stmt[b]
        /\ UNCHANGED <<providers, live, load, current, inStep, watch>>
    BY DEF Accept, TypeOK, tables, probing
  <1>2. StoredKeyIsFresh'
    BY <1>1 DEF StoredKeyIsFresh
  <1>3. ReloadsOwnWrite' /\ ReconcilesLive'
    BY <1>1 DEF ReloadsOwnWrite, ReconcilesLive
  <1>4. TasksLagBySwap'
    BY <1>1 DEF TasksLagBySwap, Monitored
  <1>5. QED
    BY <1>2, <1>3, <1>4

\* A write and the end of a handler leave the only admin with no reload.
LEMMA WriteKeepsSolo ==
    ASSUME OneAdmin, TypeOK, SoloInv, NEW a \in Admin, Write(a) \/ EndHandler(a),
           at[a] # "reconciling"
    PROVE  SoloInv'
  <1>1. /\ at'[a] \in {"idle", "reloading"}
        /\ UNCHANGED <<live, watch>>
    BY DEF Write, WriteProvider, WriteProviderDelete, WriteRoute, WriteRouteDelete,
           WriteFallback, WriteNothing, Wrote, EndHandler, MoveTo, TypeOK, probing
  <1>2. \A b \in Admin : b = a
    BY DEF OneAdmin
  <1>3. QED
    BY <1>1, <1>2 DEF SoloInv, ReloadsOwnWrite, StoredKeyIsFresh, TasksLagBySwap, ReconcilesLive,
                      Monitored

LEMMA ReloadKeepsSolo ==
    ASSUME OneAdmin, IInv, SoloInv, NEW a \in Admin, Reload(a)
    PROVE  SoloInv'
  <1> USE DEF At, MoveTo
  <1>0. (\A b \in Admin : b = a) /\ TypeOK
    BY DEF OneAdmin, IInv
  <1>1. CASE LoadProviders(a)
    <2>1. /\ at'[a] = "loading_routes" /\ at[a] = "reloading" /\ current'[a]
          /\ UNCHANGED <<live, watch>>
      BY <1>0, <1>1 DEF LoadProviders, TypeOK, probing
    <2>2. QED
      BY <1>0, <2>1
      DEF SoloInv, ReloadsOwnWrite, StoredKeyIsFresh, TasksLagBySwap, ReconcilesLive, Monitored
  <1>2. CASE LoadRoutes(a) \/ LoadSetting(a)
    <2>1. /\ at'[a] \in {"loading_setting", "swapping"} /\ at[a] \in {"loading_routes", "loading_setting"}
          /\ UNCHANGED <<live, watch, current>>
      BY <1>0, <1>2 DEF LoadRoutes, LoadSetting, TypeOK, probing
    <2>2. QED
      BY <1>0, <2>1
      DEF SoloInv, ReloadsOwnWrite, StoredKeyIsFresh, TasksLagBySwap, ReconcilesLive, Monitored
  <1>3. CASE Swap(a)
    <2>1. /\ at'[a] = "reconciling" /\ at[a] = "swapping"
          /\ live' = load[a] /\ inStep' = current[a] /\ UNCHANGED <<load, current>>
      BY <1>0, <1>3 DEF Swap, TypeOK
    <2>2. QED
      BY <1>0, <2>1
      DEF SoloInv, ReloadsOwnWrite, StoredKeyIsFresh, TasksLagBySwap, ReconcilesLive
  <1>4. CASE Reconcile(a)
    <2>1. /\ at'[a] = "retaining" /\ at[a] = "reconciling"
          /\ watch' = Watchers(load[a]) /\ UNCHANGED <<live, current, inStep>>
      BY <1>0, <1>4 DEF Reconcile, TypeOK
    <2>2. load[a] = live
      BY <2>1 DEF SoloInv, ReconcilesLive
    <2>3. Monitored(live) \subseteq Name
      <3>1. live.providers \in Maps(Name, LiveRow)
        BY <1>0 DEF TypeOK, Snapshot
      <3>2. QED
        BY <3>1, MapsShape DEF Monitored
    <2>4. {n \in Name : watch'[n] # "off"} = Monitored(live')
      BY <2>1, <2>2, <2>3 DEF Watchers, Monitored
    <2>5. QED
      BY <1>0, <2>1, <2>4
      DEF SoloInv, ReloadsOwnWrite, StoredKeyIsFresh, TasksLagBySwap, ReconcilesLive
  <1>5. CASE Retain(a)
    <2>1. /\ at'[a] = "replying" /\ at[a] = "retaining"
          /\ UNCHANGED <<live, watch, current, inStep>>
      BY <1>0, <1>5 DEF Retain, TypeOK
    <2>2. QED
      BY <1>0, <2>1
      DEF SoloInv, ReloadsOwnWrite, StoredKeyIsFresh, TasksLagBySwap, ReconcilesLive, Monitored
  <1>6. CASE Reply(a)
    BY <1>0, <1>6, WriteKeepsSolo DEF Reply
  <1>7. QED
    BY <1>1, <1>2, <1>3, <1>4, <1>5, <1>6 DEF Reload

\* A watcher goes from one step to another, and stays on or off.
LEMMA BackgroundKeepsSolo ==
    ASSUME TypeOK, SoloInv, NEW n \in Name, Background(n)
    PROVE  SoloInv'
  <1>1. UNCHANGED <<providers, live, at, stmt, load, current, inStep>>
    BY DEF Background, WatcherPersists, WatcherInserts, LeftoverInserts, ReprobePersists,
           ReprobeInserts, MarkDegraded, tables, config, handlers
  <1>2. \A m \in Name : watch'[m] # "off" <=> watch[m] # "off"
    BY DEF Background, WatcherPersists, WatcherInserts, LeftoverInserts, ReprobePersists,
           ReprobeInserts, MarkDegraded, TypeOK
  <1>3. {m \in Name : watch'[m] # "off"} = {m \in Name : watch[m] # "off"}
    BY <1>2
  <1>4. QED
    BY <1>1, <1>3
    DEF SoloInv, ReloadsOwnWrite, StoredKeyIsFresh, TasksLagBySwap, ReconcilesLive, Monitored

\* A new process has no handler, and the tasks of its snapshot.
LEMMA ProcessKeepsSolo ==
    ASSUME IInv, IInv', SoloInv, Crash \/ Start \/ StartReseed \/ ReseedDies
    PROVE  SoloInv'
  <1>1. CASE Crash
    <2>1. DOMAIN NoRows = {}
      BY DEF NoRows
    <2>2. {n \in Name : watch'[n] # "off"} = Monitored(live')
      BY <1>1, <2>1 DEF Crash, Monitored, NoSnapshot
    <2>3. \A a \in Admin : at'[a] = "idle"
      BY <1>1 DEF Crash
    <2>4. QED
      BY <2>2, <2>3
      DEF SoloInv, ReloadsOwnWrite, StoredKeyIsFresh, TasksLagBySwap, ReconcilesLive
  <1>2. CASE Start \/ StartReseed
    <2>1. proc = "down" /\ watch' = Watchers(live') /\ UNCHANGED at
      BY <1>2 DEF Start, StartReseed, ComeUp, handlers
    <2>2. \A a \in Admin : at'[a] = "idle"
      BY <2>1 DEF IInv, DownIsIdle
    <2>3. Monitored(live') \subseteq Name
      <3>1. live'.providers \in Maps(Name, LiveRow)
        BY DEF IInv, TypeOK, Snapshot
      <3>2. QED
        BY <3>1, MapsShape DEF Monitored
    <2>4. {n \in Name : watch'[n] # "off"} = Monitored(live')
      BY <2>1, <2>3 DEF Watchers
    <2>5. QED
      BY <2>2, <2>4
      DEF SoloInv, ReloadsOwnWrite, StoredKeyIsFresh, TasksLagBySwap, ReconcilesLive
  <1>3. CASE ReseedDies
    <2>1. proc = "down" /\ UNCHANGED <<at, live, watch>>
      BY <1>3 DEF ReseedDies, config, handlers, probing
    <2>2. \A a \in Admin : at'[a] = "idle"
      BY <2>1 DEF IInv, DownIsIdle
    <2>3. QED
      BY <2>1, <2>2
      DEF SoloInv, ReloadsOwnWrite, StoredKeyIsFresh, TasksLagBySwap, ReconcilesLive, Monitored
  <1>4. QED
    BY <1>1, <1>2, <1>3

LEMMA NextSolo ==
    ASSUME OneAdmin, IInv, IInv', SoloInv, [Next]_vars
    PROVE  SoloInv'
  <1>0. TypeOK
    BY DEF IInv
  <1>1. ASSUME NEW a \in Admin, Handler(a) PROVE SoloInv'
    <2>1. ASSUME NEW n \in Name, NEW form \in Row, UpdateProvider(a, n, form) PROVE SoloInv'
      <3>1. PICK w \in Statement : /\ Accept(a, w)
                                   /\ w.row.key = KeyToStore(n, form)
                                   /\ w.name = n /\ w.typed = (form.key # NoKey)
                                   /\ n \in DOMAIN providers
        BY <1>0, <2>1, AcceptedShape
      <3>2. ~w.typed => w.row.key = providers[w.name].key
        BY <3>1 DEF KeyToStore
      <3>3. QED
        BY <1>0, <3>1, <3>2, AcceptKeepsSolo
    <2>2. ASSUME NEW w \in Statement, Accept(a, w), w.on # "update" PROVE SoloInv'
      BY <1>0, <2>2, AcceptKeepsSolo
    <2>3. CASE Write(a) \/ Abandon(a)
      <3>1. at[a] # "reconciling"
        BY <2>3 DEF Write, WriteProvider, WriteProviderDelete, WriteRoute, WriteRouteDelete,
                    WriteFallback, WriteNothing, Abandon, At
      <3>2. QED
        BY <1>0, <2>3, <3>1, WriteKeepsSolo DEF Abandon
    <2>4. \/ \E n \in Name, form \in Row : UpdateProvider(a, n, form)
          \/ \E w \in Statement : Accept(a, w) /\ w.on # "update"
          \/ Write(a) \/ Abandon(a) \/ Reload(a)
      <3>1. CASE \E n \in Name : DeleteProvider(a, n)
        <4>1. PICK w \in Statement : Accept(a, w) /\ w.on = "delete"
          BY <1>0, <3>1, AcceptedShape
        <4>2. QED
          BY <4>1
      <3>2. CASE \E n \in Name, form \in Row : CreateProvider(a, n, form)
        <4>1. PICK w \in Statement : Accept(a, w) /\ w.on = "create"
          BY <1>0, <3>2, AcceptedShape
        <4>2. QED
          BY <4>1
      <3>3. CASE \E al \in Alias, n \in Name : CreateRoute(a, al, n) \/ UpdateRoute(a, al, n)
        <4>1. PICK w \in Statement : Accept(a, w) /\ w.on \in {"create_route", "update_route"}
          BY <1>0, <3>3, AcceptedShape
        <4>2. QED
          BY <4>1
      <3>4. CASE \E al \in Alias : DeleteRoute(a, al)
        <4>1. PICK w \in Statement : Accept(a, w) /\ w.on = "delete_route"
          BY <1>0, <3>4, AcceptedShape
        <4>2. QED
          BY <4>1
      <3>5. CASE \E t \in Name \cup {None} : SetFallbackRoute(a, t)
        <4>1. PICK w \in Statement : Accept(a, w) /\ w.on = "fallback"
          BY <1>0, <3>5, AcceptedShape
        <4>2. QED
          BY <4>1
      <3>6. QED
        BY <1>1, <3>1, <3>2, <3>3, <3>4, <3>5 DEF Handler
    <2>5. QED
      BY <2>1, <2>2, <2>3, <2>4, ReloadKeepsSolo
  <1>2. CASE UNCHANGED <<providers, live, at, stmt, load, current, inStep, watch>>
    BY <1>2
    DEF SoloInv, ReloadsOwnWrite, StoredKeyIsFresh, TasksLagBySwap, ReconcilesLive, Monitored
  <1>3. QED
    BY <1>0, <1>1, <1>2, BackgroundKeepsSolo, ProcessKeepsSolo
    DEF Next, TakeSnapshot, DropSnapshot, vars, tables, config, handlers, probing

\* The invariant that holds while no two admins write at the same time.
THEOREM SoloInvariance == ASSUME OneAdmin PROVE Spec => []SoloInv
  <1>1. IInv /\ IInv' /\ SoloInv /\ [Next]_vars => SoloInv'
    BY NextSolo
  <1>2. QED
    BY <1>1, InitSolo, Invariance, PTL DEF Spec

\* With one admin at a time a completed write is in force, environment keys
\* included, when its reply is sent, whatever was abandoned or crashed before.
THEOREM RepliedWritesAreLive == ASSUME OneAdmin PROVE Spec => []WritesTakeEffect
  <1>1. IInv /\ SoloInv => WritesTakeEffect
    BY DEF IInv, SoloInv, ReloadsOwnWrite, ReloadMatchesTables, WritesTakeEffect
  <1>2. QED
    BY <1>1, SoloInvariance, Invariance, PTL

\* With one admin at a time the tasks are those of the live providers with the
\* probe enabled, except between a swap and the end of its reload.
THEOREM TasksFollowSnapshot == ASSUME OneAdmin PROVE Spec => []WatchersFollowLive
  <1>1. SoloInv => WatchersFollowLive
    BY DEF SoloInv, TasksLagBySwap, WatchersFollowLive
  <1>2. QED
    BY <1>1, SoloInvariance, PTL

\* With one admin at a time an edit that leaves the key field blank stores the
\* key that was in the table.
THEOREM BlankKeepsKey == ASSUME OneAdmin PROVE Spec => BlankEditKeepsKey
  <1>1. ASSUME IInv, SoloInv, [Next]_vars
        PROVE  [\A a \in Admin, n \in Name :
                  /\ At(a, "writing") /\ at'[a] = "reloading"
                  /\ stmt[a].on = "update" /\ ~stmt[a].typed /\ stmt[a].name = n
                  /\ n \in DOMAIN providers
                  => providers'[n].key = providers[n].key]_vars
    <2> SUFFICES ASSUME NEW a \in Admin, NEW n \in Name,
                        At(a, "writing"), at'[a] = "reloading",
                        stmt[a].on = "update", ~stmt[a].typed, stmt[a].name = n,
                        n \in DOMAIN providers
                 PROVE  providers'[n].key = providers[n].key
      OBVIOUS
    <2>0. TypeOK /\ (\A b \in Admin : b = a) /\ proc = "up" /\ at[a] = "writing"
      BY <1>1 DEF OneAdmin, IInv, At
    <2>1. CASE providers' = providers
      BY <2>1
    <2>2. CASE WriteProvider(a)
      <3>1. /\ n \in DOMAIN providers'
            /\ providers'[n] = stmt[a].row
        BY <2>2, WriteShape
      <3>2. stmt[a].row.key = providers[n].key
        BY <1>1, <2>0 DEF SoloInv, StoredKeyIsFresh
      <3>3. QED
        BY <3>1, <3>2
    <2>3. providers' = providers \/ WriteProvider(a)
      <3>1. ASSUME Handler(a) PROVE providers' = providers \/ WriteProvider(a)
        <4>1. ~WriteProviderDelete(a)
          BY DEF WriteProviderDelete
        <4>2. QED
          BY <2>0, <3>1, <4>1, HandlerCases
          DEF Accept, Write, WriteRoute, WriteRouteDelete, WriteFallback, WriteNothing, EndHandler,
              Reload, LoadProviders, LoadRoutes, LoadSetting, Swap, Reconcile, Retain, Reply, tables
      <3>2. ASSUME NEW m \in Name, Background(m) PROVE providers' = providers
        BY <3>2 DEF Background, WatcherPersists, WatcherInserts, LeftoverInserts, ReprobePersists,
                    ReprobeInserts, MarkDegraded, tables
      <3>3. QED
        BY <1>1, <2>0, <3>1, <3>2
        DEF Next, TakeSnapshot, DropSnapshot, Crash, Start, StartReseed, ReseedDies, vars, tables
    <2>4. QED
      BY <2>1, <2>2, <2>3
  <1>2. QED
    BY <1>1, SoloInvariance, Invariance, PTL DEF Spec, BlankEditKeepsKey
=============================================================================
