--------------------------- MODULE SnapshotStore ---------------------------
(***************************************************************************)
(* What an account remembers of the world between captures: refresh,       *)
(* captureWave, applyCapture and finishGroup of internal/engine/snapshot.go,*)
(* saveSnapshot of internal/engine/snapshot_save.go, and SaveSnapshot and  *)
(* Snapshot of internal/store with the per-Store cache of what the         *)
(* snapshot_routes table holds.                                            *)
(*                                                                         *)
(* Routes are the dataset that outlives a capture: they are fetched once,  *)
(* trusted for days, and only a new unlocked phase of the world makes them *)
(* wrong.  A route's value is the phase it was fetched in.  Several runners *)
(* may be alive, in the same process or in another, and only the newest    *)
(* commits (AccountLease): of the others only their failing save is left.  *)
(***************************************************************************)
EXTENDS Integers, FiniteSets

CONSTANTS
    Stores,         \* processes
    RouteKeys,
    NoRoute,        \* no value, no phase, no digest map, no fingerprint
    MaxPhase, MaxOwners

ASSUME SnapshotAssumption ==
    /\ MaxPhase \in Nat \ {0} /\ MaxOwners \in Nat
    /\ NoRoute \notin Stores /\ NoRoute \notin [RouteKeys -> 0..MaxPhase \cup {NoRoute}]

VARIABLES
    gamePhase,      \* the phase the world has unlocked
    db,             \* the snapshots row and the snapshot_routes rows
    cache,          \* snapshotRouteCache of each Store
    runner,         \* the runner of the newest owner: pass, snapshot, metadata
    superseded,     \* Stores where an older runner is still alive
    owners,         \* ownership generations so far
    saved           \* the routes of the last acknowledged save; history

ssvars == <<gamePhase, db, cache, runner, superseded, owners, saved>>

NoRoutes == [k \in RouteKeys |-> NoRoute]
NoMeta == [k \in RouteKeys |-> "none"]
Fresh(meta, k) == meta[k] = "fresh"
Emptied == [digests |-> NoRoute, fingerprint |-> NoRoute]
Dead == [at |-> "dead", store |-> NoRoute, routes |-> NoRoutes, phase |-> NoRoute, meta |-> NoMeta, image |-> NoMeta]
Alive == runner.at # "dead"

SnapshotInit ==
    /\ gamePhase = 1 /\ saved = NoRoute /\ runner = Dead /\ superseded = {} /\ owners = 0
    /\ db = [routes |-> NoRoutes, phase |-> NoRoute, meta |-> NoMeta]
    /\ cache = [s \in Stores |-> Emptied]

-----------------------------------------------------------------------------
\* After an error nothing is known of the table.
ErrorIgnored(s) == cache
AfterError(s) == [cache EXCEPT ![s] = Emptied]

\* AcquireLease fences the owner before and empties the Store's cache; Run then
\* restores the row and the routes it was committed with.
KeptCache(s) == cache
Cleared(s) == [cache EXCEPT ![s] = Emptied]
Acquire(s) ==
    /\ owners < MaxOwners /\ owners' = owners + 1
    /\ cache' = Cleared(s)
    /\ superseded' = superseded \cup (IF Alive THEN {runner.store} ELSE {})
    /\ runner' = [at |-> "idle", store |-> s, routes |-> db.routes, phase |-> db.phase, meta |-> db.meta, image |-> db.meta]
    /\ UNCHANGED <<gamePhase, db, saved>>
\* Its save is fenced off, which also empties the cache it shares.
SupersededSave(s) ==
    /\ s \in superseded /\ superseded' = superseded \ {s} /\ cache' = AfterError(s)
    /\ UNCHANGED <<gamePhase, db, runner, owners, saved>>

-----------------------------------------------------------------------------
\* refresh, first wave: the clock, or its last good copy when the read failed.
\* A phase that moved, or a new version of the game, discards every cached route.
RelabelledOnly(r, seen, newVersion) == [r EXCEPT !.phase = seen]
SnapshotDiscarded(r, seen, newVersion) ==
    IF r.phase = seen /\ ~newVersion THEN r
    ELSE [r EXCEPT !.phase = seen, !.routes = NoRoutes, !.meta = NoMeta]
FirstWave ==
    /\ runner.at = "idle"
    /\ \E seen \in {gamePhase, IF runner.phase = NoRoute THEN 0 ELSE runner.phase}, newVersion \in BOOLEAN :
         runner' = [SnapshotDiscarded(runner, seen, newVersion) EXCEPT !.at = "routes"]
    /\ UNCHANGED <<gamePhase, db, cache, superseded, owners, saved>>

\* The route waves: the keys the fleet needs and some it explores are fetched
\* when they are missing or too old.  Nothing is published before all workers
\* are done, and a failed request is one dataset's failure.
Needed(r, keys) == {k \in keys : r.routes[k] = NoRoute \/ ~Fresh(r.meta, k)}
Explored(keys) == SUBSET (RouteKeys \ keys)
Fetched(r, keys) == SUBSET Needed(r, keys)
\* applyCapture: a failed key keeps its last good value, marked stale.
SnapshotCaptured(r, keys, fetched) ==
    [r EXCEPT
      !.routes = [k \in RouteKeys |-> IF k \in fetched THEN gamePhase ELSE @[k]],
      !.meta = [k \in RouteKeys |-> IF k \in fetched THEN "fresh" ELSE IF k \in Needed(r, keys) THEN "stale" ELSE @[k]]]
\* Fresh routes beyond the needed ones may be kept as history; finishGroup drops
\* every other key with its metadata.
History(r, keys) == {k \in RouteKeys \ keys : r.routes[k] # NoRoute /\ Fresh(r.meta, k)}
Group(r, keys) ==
    [r EXCEPT !.routes = [k \in RouteKeys |-> IF k \in keys THEN @[k] ELSE NoRoute],
              !.meta = [k \in RouteKeys |-> IF k \in keys THEN @[k] ELSE "none"]]
RouteWaves ==
    /\ runner.at = "routes"
    /\ \E keys \in SUBSET RouteKeys : \E explored \in Explored(keys) :
       \E fetched \in Fetched(runner, keys \cup explored) :
       \E captured \in {SnapshotCaptured(runner, keys \cup explored, fetched)} : \E kept \in SUBSET History(captured, keys) :
         runner' = [Group(captured, keys \cup kept) EXCEPT !.at = "fetched"]
    /\ UNCHANGED <<gamePhase, db, cache, superseded, owners, saved>>

\* The pass ends with _meta encoded into the snapshot and a save.
Encode ==
    /\ runner.at = "fetched"
    /\ runner' = [runner EXCEPT !.image = runner.meta, !.at = "encoded"]
    /\ UNCHANGED <<gamePhase, db, cache, superseded, owners, saved>>

\* RouteGeometryTTL.
Expire(k) ==
    /\ Fresh(runner.meta, k)
    /\ runner' = [runner EXCEPT !.meta[k] = "stale"] /\ UNCHANGED <<gamePhase, db, cache, superseded, owners, saved>>

-----------------------------------------------------------------------------
\* saveSnapshotRoutes: upsert what differs from the digests, delete what is gone.
RouteDigests(s) == IF cache[s].digests = NoRoute THEN db.routes ELSE cache[s].digests
Written(s, routes) ==
    [k \in RouteKeys |-> IF RouteDigests(s)[k] # routes[k] THEN routes[k] ELSE db.routes[k]]
Unchanged(s, routes) == cache[s].fingerprint = routes
\* SaveSnapshot, one transaction; saveSnapshot drops datasets that can be fetched
\* again from a row that is too large, and never routes.
Row ==
    [routes |-> IF Unchanged(runner.store, runner.routes) THEN db.routes ELSE Written(runner.store, runner.routes),
     phase |-> runner.phase, meta |-> runner.image]
Cached ==
    [digests |-> IF Unchanged(runner.store, runner.routes) THEN cache[runner.store].digests ELSE runner.routes,
     fingerprint |-> runner.routes]
\* The save at the end of a pass, and those that other work makes within one.
Save ==
    /\ Alive /\ db' = Row /\ saved' = runner.routes
    /\ cache' = [cache EXCEPT ![runner.store] = Cached]
    /\ runner' = [runner EXCEPT !.at = IF @ = "encoded" THEN "idle" ELSE @] /\ UNCHANGED <<gamePhase, superseded, owners>>
\* Rolled back, or committed with the acknowledgement lost. The runner ends, but
\* for some of the saves within a pass.
SaveFails ==
    /\ Alive /\ (UNCHANGED <<db, saved>> \/ (db' = Row /\ saved' = NoRoute))
    /\ cache' = AfterError(runner.store) /\ (runner' = Dead \/ (runner.at # "encoded" /\ UNCHANGED runner))
    /\ UNCHANGED <<gamePhase, superseded, owners>>

Stop == Alive /\ runner' = Dead /\ UNCHANGED <<gamePhase, db, cache, superseded, owners, saved>>
Unlock == gamePhase < MaxPhase /\ gamePhase' = gamePhase + 1 /\ UNCHANGED <<db, cache, runner, superseded, owners, saved>>

SnapshotNext ==
    \/ Unlock \/ FirstWave \/ RouteWaves \/ Encode \/ Save \/ SaveFails \/ Stop
    \/ \E s \in Stores : Acquire(s) \/ SupersededSave(s)
    \/ \E k \in RouteKeys : Expire(k)
SnapshotSpec == SnapshotInit /\ [][SnapshotNext]_ssvars

-----------------------------------------------------------------------------
\* The table holds exactly the routes of the last acknowledged save: no cache of
\* any Store hides a row that a rollback or another owner changed.
RoutesStored == saved # NoRoute => db.routes = saved

\* Why it holds: what the cache of the newest owner's Store believes of the
\* table is so, as nobody else writes after AcquireLease emptied it.
Routes == [RouteKeys -> 0..MaxPhase \cup {NoRoute}]
CacheTrue ==
    Alive => /\ cache[runner.store].digests \in {NoRoute, db.routes}
             /\ cache[runner.store].fingerprint \in {NoRoute, db.routes}
Meta == [RouteKeys -> {"none", "fresh", "stale"}]
Phases == 0..MaxPhase \cup {NoRoute}
SnapshotTypes ==
    /\ gamePhase \in 1..MaxPhase /\ saved \in Routes \cup {NoRoute}
    /\ db \in [routes : Routes, phase : Phases, meta : Meta]
    /\ runner \in [at : {"dead", "idle", "routes", "fetched", "encoded"}, store : Stores \cup {NoRoute},
                   routes : Routes, phase : Phases, meta : Meta, image : Meta]
    /\ Alive => runner.store \in Stores
    /\ cache \in [Stores -> [digests : Routes \cup {NoRoute}, fingerprint : Routes \cup {NoRoute}]]
RoutesInv == SnapshotTypes /\ CacheTrue /\ RoutesStored

\* A route the planner may use was fetched in the phase the runner last saw or
\* a later one, across saves in the middle of a pass, crashes and restarts.
RoutesOfPhase ==
    \A k \in RouteKeys :
      Fresh(runner.meta, k) /\ runner.routes[k] # NoRoute /\ runner.phase # NoRoute => runner.routes[k] >= runner.phase
=============================================================================
