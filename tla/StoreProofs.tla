---------------------------- MODULE StoreProofs -----------------------------
(***************************************************************************)
(* What an owner stores, for any processes, routes, frames, payloads,      *)
(* ports and keys: the routes of an acknowledged save are in the table,    *)
(* every event is recorded or counted as lost, every payload that a kept   *)
(* frame names is on the tape, no futures contract is forgotten or asked   *)
(* for twice, and only the current owner of an account writes.             *)
(***************************************************************************)
EXTENDS AccountLease, SnapshotStore, ReplayRecorder, ReplayTape, Futures, SumLemmas

-----------------------------------------------------------------------------
(* Routes *)

LEMMA RouteFacts ==
    /\ MaxPhase \in Nat \ {0} /\ NoRoute \notin Stores /\ NoRoute \notin Routes
    /\ NoRoutes \in Routes /\ NoMeta \in Meta /\ 0 \in Phases /\ NoRoute \in Phases
    /\ Emptied \in [digests : Routes \cup {NoRoute}, fingerprint : Routes \cup {NoRoute}]
BY SnapshotAssumption DEF Routes, NoRoutes, Emptied, NoMeta, Meta, Phases

Runners == [at : {"dead", "idle", "routes", "fetched", "encoded"}, store : Stores \cup {NoRoute},
            routes : Routes, phase : Phases, meta : Meta, image : Meta]

\* A wave of captures is a phase and a set of keys away from the last one.
LEMMA GroupTypes ==
    ASSUME SnapshotTypes, NEW keys, NEW all, NEW fetched
    PROVE  LET g == Group(SnapshotCaptured(runner, all, fetched), keys)
           IN  [g EXCEPT !.at = "fetched"] \in Runners /\ g.store = runner.store
<1> DEFINE captured == SnapshotCaptured(runner, all, fetched)
           routes == [k \in RouteKeys |-> IF k \in fetched THEN gamePhase ELSE runner.routes[k]]
           meta == [k \in RouteKeys |-> IF k \in fetched THEN "fresh" ELSE IF k \in Needed(runner, all) THEN "stale"
                                        ELSE runner.meta[k]]
           grouped == [k \in RouteKeys |-> IF k \in keys THEN routes[k] ELSE NoRoute]
           kept == [k \in RouteKeys |-> IF k \in keys THEN meta[k] ELSE "none"]
<1>1. runner \in Runners /\ gamePhase \in 1..MaxPhase
    BY DEF SnapshotTypes, Runners
<1>2. captured = [runner EXCEPT !.routes = routes, !.meta = meta]
    BY <1>1 DEF SnapshotCaptured, Runners
<1>3. routes \in Routes /\ meta \in Meta /\ grouped \in Routes /\ kept \in Meta
    BY <1>1, RouteFacts DEF Runners, Routes, Meta
<1>4. captured.routes = routes /\ captured.meta = meta
    BY <1>1, <1>2 DEF Runners
<1>5. Group(captured, keys) = [captured EXCEPT !.routes = grouped, !.meta = kept]
    BY <1>4 DEF Group
<1>6. [Group(captured, keys) EXCEPT !.at = "fetched"]
         = [runner EXCEPT !.routes = grouped, !.meta = kept, !.at = "fetched"]
      /\ Group(captured, keys).store = runner.store
    BY <1>1, <1>2, <1>5 DEF Runners
<1> HIDE DEF routes, meta, grouped, kept, captured
<1>7. QED
    BY <1>1, <1>3, <1>6 DEF Runners, captured

\* A step of a pass leaves the table and what is known of it alone.
LEMMA PassRoutes ==
    ASSUME SnapshotTypes, FirstWave \/ RouteWaves \/ Encode \/ (\E k \in RouteKeys : Expire(k))
    PROVE  /\ runner' \in Runners /\ runner'.store = runner.store /\ (Alive' => Alive)
           /\ UNCHANGED <<gamePhase, db, cache, saved>>
<1>0. runner \in Runners
    BY DEF SnapshotTypes, Runners
<1>1. CASE FirstWave
  <2>1. PICK seen \in {gamePhase, IF runner.phase = NoRoute THEN 0 ELSE runner.phase}, newVersion \in BOOLEAN :
            runner' = [SnapshotDiscarded(runner, seen, newVersion) EXCEPT !.at = "routes"]
      BY <1>1 DEF FirstWave
  <2>2. seen \in Phases
      BY <1>0, RouteFacts DEF SnapshotTypes, Runners, Phases
  <2>3. SnapshotDiscarded(runner, seen, newVersion) \in Runners
        /\ SnapshotDiscarded(runner, seen, newVersion).store = runner.store
      BY <1>0, <2>2, RouteFacts DEF SnapshotDiscarded, Runners
  <2>4. runner' \in Runners /\ runner'.store = runner.store
      BY <2>1, <2>3 DEF Runners
  <2>5. QED
      BY <1>1, <2>4 DEF FirstWave, Alive
<1>2. CASE RouteWaves
  <2>1. PICK keys \in SUBSET RouteKeys : \E explored \in Explored(keys) :
            \E fetched \in Fetched(runner, keys \cup explored) :
            \E captured \in {SnapshotCaptured(runner, keys \cup explored, fetched)} :
            \E kept \in SUBSET History(captured, keys) :
               runner' = [Group(captured, keys \cup kept) EXCEPT !.at = "fetched"]
      BY <1>2 DEF RouteWaves
  <2>2. PICK explored, fetched, kept :
            runner' = [Group(SnapshotCaptured(runner, keys \cup explored, fetched), keys \cup kept) EXCEPT !.at = "fetched"]
      BY <2>1
  <2>3. runner' \in Runners /\ runner'.store = runner.store
      BY <2>2, GroupTypes DEF Runners
  <2>4. QED
      BY <1>2, <2>3 DEF RouteWaves, Alive
<1>3. CASE Encode
    BY <1>0, <1>3 DEF Encode, Runners, Alive
<1>4. ASSUME NEW k \in RouteKeys, Expire(k)
      PROVE  runner' \in Runners /\ runner'.store = runner.store /\ runner'.at = runner.at
             /\ UNCHANGED <<gamePhase, db, cache, saved>>
  <2>1. runner' = [runner EXCEPT !.meta = [@ EXCEPT ![k] = "stale"]]
      BY <1>4 DEF Expire
  <2>2. [runner.meta EXCEPT ![k] = "stale"] \in Meta
      BY <1>0 DEF Runners, Meta
  <2>3. QED
      BY <1>0, <1>4, <2>1, <2>2 DEF Expire, Runners
<1>5. QED
    BY <1>1, <1>2, <1>3, <1>4 DEF Alive


\* SaveSnapshot leaves the pass's routes in the table, whichever rows it skips,
\* and the cache says so.
LEMMA SaveRoutes ==
    ASSUME SnapshotTypes, CacheTrue, Alive
    PROVE  /\ Row \in [routes : Routes, phase : Phases, meta : Meta] /\ Row.routes = runner.routes
           /\ Cached \in [digests : {NoRoute, runner.routes}, fingerprint : {runner.routes}]
<1>0. runner \in Runners /\ db \in [routes : Routes, phase : Phases, meta : Meta] /\ runner.store \in Stores
    BY DEF SnapshotTypes, Runners
<1>1. cache[runner.store].digests \in {NoRoute, db.routes} /\ cache[runner.store].fingerprint \in {NoRoute, db.routes}
    BY DEF CacheTrue
<1>2. runner.routes \in Routes /\ db.routes \in Routes /\ runner.routes # NoRoute
    BY <1>0, RouteFacts DEF Runners
<1>3. CASE Unchanged(runner.store, runner.routes)
  <2>1. db.routes = runner.routes
      BY <1>1, <1>2, <1>3 DEF Unchanged
  <2>2. QED
      BY <1>0, <1>1, <1>2, <1>3, <2>1 DEF Row, Cached, Runners
<1>4. CASE ~Unchanged(runner.store, runner.routes)
  <2>1. RouteDigests(runner.store) = db.routes
      BY <1>1 DEF RouteDigests
  <2>2. Written(runner.store, runner.routes) = runner.routes
      BY <1>2, <2>1 DEF Written, Routes
  <2>3. QED
      BY <1>0, <1>2, <1>4, <2>2 DEF Row, Cached, Runners
<1>5. QED
    BY <1>3, <1>4

\* The inductive invariant: the newest owner's cache believes nothing false of
\* the table, because AcquireLease emptied it and nobody else commits.
THEOREM RoutesInvHolds == SnapshotSpec => []RoutesInv
<1>1. SnapshotInit => RoutesInv
    BY RouteFacts DEF SnapshotInit, RoutesInv, SnapshotTypes, CacheTrue, RoutesStored, Dead, Alive, Phases
<1>2. RoutesInv /\ [SnapshotNext]_ssvars => RoutesInv'
  <2> SUFFICES ASSUME RoutesInv, [SnapshotNext]_ssvars PROVE RoutesInv'
      OBVIOUS
  <2> DEFINE Beliefs == [digests : Routes \cup {NoRoute}, fingerprint : Routes \cup {NoRoute}]
             Table == [routes : Routes, phase : Phases, meta : Meta]
  <2>0. /\ SnapshotTypes /\ CacheTrue /\ RoutesStored /\ runner \in Runners /\ (Alive => runner.store \in Stores)
        /\ cache \in [Stores -> Beliefs] /\ Emptied \in Beliefs /\ db \in Table
        /\ gamePhase \in 1..MaxPhase /\ saved \in Routes \cup {NoRoute}
      BY RouteFacts DEF RoutesInv, SnapshotTypes, Runners
  <2>1. CASE UNCHANGED ssvars
      BY <2>0, <2>1 DEF ssvars, RoutesInv, SnapshotTypes, CacheTrue, RoutesStored, Alive
  <2>2. CASE Unlock
    <3>1. gamePhase' \in 1..MaxPhase
        BY <2>0, <2>2, RouteFacts DEF Unlock
    <3>2. QED
        BY <2>0, <2>2, <3>1 DEF Unlock, RoutesInv, SnapshotTypes, CacheTrue, RoutesStored, Alive
  <2>3. CASE FirstWave \/ RouteWaves \/ Encode \/ (\E k \in RouteKeys : Expire(k))
    <3>1. /\ runner' \in Runners /\ runner'.store = runner.store /\ (Alive' => Alive)
          /\ UNCHANGED <<gamePhase, db, cache, saved>>
        BY <2>0, <2>3, PassRoutes
    <3>2. QED
        BY <2>0, <3>1 DEF RoutesInv, SnapshotTypes, CacheTrue, RoutesStored, Runners
  <2>4. CASE Save
    <3>1. /\ Row \in Table /\ Row.routes = runner.routes /\ runner.store \in Stores /\ runner.routes \in Routes
          /\ Cached \in [digests : {NoRoute, runner.routes}, fingerprint : {runner.routes}]
        BY <2>0, <2>4, SaveRoutes DEF Save, Runners
    <3>2. runner' \in Runners /\ runner'.store = runner.store
        BY <2>0, <2>4 DEF Save, Runners
    <3>3. cache' \in [Stores -> Beliefs] /\ cache'[runner.store] = Cached
        BY <2>0, <2>4, <3>1 DEF Save
    <3>4. QED
        BY <2>0, <2>4, <3>1, <3>2, <3>3 DEF Save, RoutesInv, SnapshotTypes, CacheTrue, RoutesStored, Runners
  <2>5. CASE SaveFails
    <3>1. Row \in Table /\ runner.store \in Stores
        BY <2>0, <2>5, SaveRoutes DEF SaveFails
    <3>2. cache' \in [Stores -> Beliefs] /\ cache'[runner.store] = Emptied
        BY <2>0, <2>5, <3>1 DEF SaveFails, AfterError
    <3>3. runner' \in Runners /\ (Alive' => runner'.store = runner.store)
        BY <2>0, <2>5, RouteFacts DEF SaveFails, Dead, Runners, Alive
    <3>4. db' \in Table /\ saved' \in Routes \cup {NoRoute} /\ (saved' # NoRoute => db'.routes = saved')
        BY <2>0, <2>5, <3>1 DEF SaveFails, RoutesStored
    <3>5. gamePhase' = gamePhase
        BY <2>5 DEF SaveFails
    <3>6. QED
        BY <2>0, <3>1, <3>2, <3>3, <3>4, <3>5 DEF RoutesInv, SnapshotTypes, CacheTrue, RoutesStored, Runners, Emptied
  <2>6. CASE Stop
      BY <2>0, <2>6, RouteFacts DEF Stop, RoutesInv, SnapshotTypes, CacheTrue, RoutesStored, Runners, Dead, Alive
  <2>7. ASSUME NEW s \in Stores, Acquire(s) PROVE RoutesInv'
    <3>1. cache' \in [Stores -> Beliefs] /\ cache'[s] = Emptied
        BY <2>0, <2>7 DEF Acquire, Cleared
    <3>2. runner' \in Runners /\ runner'.store = s /\ UNCHANGED <<gamePhase, db, saved>>
        BY <2>0, <2>7 DEF Acquire, Runners
    <3>3. QED
        BY <2>0, <3>1, <3>2 DEF RoutesInv, SnapshotTypes, CacheTrue, RoutesStored, Runners, Emptied
  <2>8. ASSUME NEW s \in Stores, SupersededSave(s) PROVE RoutesInv'
    <3>1. cache' \in [Stores -> Beliefs] /\ (\A t \in Stores : cache'[t] \in {cache[t], Emptied})
        BY <2>0, <2>8 DEF SupersededSave, AfterError
    <3>2. UNCHANGED <<gamePhase, db, runner, saved>>
        BY <2>8 DEF SupersededSave
    <3>3. QED
        BY <2>0, <3>1, <3>2 DEF RoutesInv, SnapshotTypes, CacheTrue, RoutesStored, Runners, Emptied, Alive
  <2>9. QED
      BY <2>1, <2>2, <2>3, <2>4, <2>5, <2>6, <2>7, <2>8 DEF SnapshotNext
<1>3. QED
    BY <1>1, <1>2, PTL DEF SnapshotSpec

\* Every route an acknowledged save contained is in the table, whatever a
\* rollback, an unheard commit or another owner did to the digest caches.
THEOREM RoutesStoredHolds == SnapshotSpec => []RoutesStored
BY RoutesInvHolds, PTL DEF RoutesInv


-----------------------------------------------------------------------------
(* The recorder *)

\* A nonempty set of numbers up to n has a greatest one.
LEMMA GreatestNumber ==
    ASSUME NEW n \in Nat, NEW B \in SUBSET (1..n), B # {}
    PROVE  Max(B) \in B /\ \A x \in B : Max(B) >= x
<1> DEFINE above == {m \in 0..n : \A x \in B : m >= x}
<1>1. above \in SUBSET Nat /\ n \in above
    OBVIOUS
<1>2. PICK m \in above : \A k \in above : m <= k
    BY <1>1, LeastNumber
<1>3. m \in B
    <2>1. SUFFICES ASSUME m \notin B PROVE FALSE
        OBVIOUS
    <2>2. m # 0
        <3>1. PICK x \in B : TRUE
            OBVIOUS
        <3> QED BY <1>2, <3>1
    <2>3. m - 1 \in above
        BY <1>2, <2>1, <2>2
    <2> QED BY <1>2, <2>3
<1> QED BY <1>2, <1>3 DEF Max

Frame == [n : Nat, dropped : Nat]
LEMMA FrameSizes ==
    ASSUME NEW s \in Seq(Frame)
    PROVE  Len(s) \in Nat /\ DOMAIN s = 1..Len(s) /\ \A i \in 1..Len(s) : s[i] \in Frame /\ Size(s[i]) \in Nat
<1>1. Len(s) \in Nat /\ DOMAIN s = 1..Len(s) /\ \A i \in 1..Len(s) : s[i] \in Frame
    OBVIOUS
<1>2. \A c \in Frame : Size(c) \in Nat
    BY DEF Size, Frame
<1> QED BY <1>1, <1>2

\* The equation of the fold that adds up the sizes of some frames.
Added(g, s) == g = [u \in SUBSET DOMAIN s |-> IF u = {} THEN 0 ELSE g[u \ {Max(u)}] + Size(s[Max(u)])]

LEMMA AddedDefined ==
    ASSUME NEW s \in Seq(Frame)
    PROVE  \E g : Added(g, s)
<1> DEFINE D == DOMAIN s
           Step(g, u) == IF u = {} THEN 0 ELSE g[u \ {Max(u)}] + Size(s[Max(u)])
           Upto(k) == \E g \in [SUBSET D -> Nat] : \A u \in SUBSET D : (\A x \in u : x <= k) => g[u] = Step(g, u)
<1>1. Len(s) \in Nat /\ D = 1..Len(s) /\ \A i \in D : Size(s[i]) \in Nat
    BY FrameSizes
<1>2. \A u \in SUBSET D : u # {} => Max(u) \in u /\ \A x \in u : Max(u) >= x
    BY <1>1, GreatestNumber
<1>3. \A g \in [SUBSET D -> Nat], u \in SUBSET D : Step(g, u) \in Nat
    BY <1>1, <1>2
<1> HIDE DEF D
<1>4. Upto(0)
    <2>1. [u \in SUBSET D |-> 0] \in [SUBSET D -> Nat]
        OBVIOUS
    <2>2. \A u \in SUBSET D : (\A x \in u : x <= 0) => u = {}
        BY <1>1
    <2> QED BY <2>1, <2>2
<1>5. ASSUME NEW n \in Nat, Upto(n) PROVE Upto(n + 1)
    <2>1. PICK g \in [SUBSET D -> Nat] : \A u \in SUBSET D : (\A x \in u : x <= n) => g[u] = Step(g, u)
        BY <1>5
    <2> DEFINE h == [u \in SUBSET D |-> IF \A x \in u : x <= n THEN g[u] ELSE Step(g, u)]
    <2>2. h \in [SUBSET D -> Nat]
        BY <1>3
    <2>3. ASSUME NEW u \in SUBSET D, \A x \in u : x <= n + 1 PROVE h[u] = Step(h, u)
        <3>1. h[u] = Step(g, u)
            BY <2>1
        <3>2. u # {} => h[u \ {Max(u)}] = g[u \ {Max(u)}]
            <4>1. SUFFICES ASSUME u # {} PROVE \A x \in u \ {Max(u)} : x <= n
                OBVIOUS
            <4>2. PICK m \in u : m = Max(u) /\ \A x \in u : m >= x
                BY <1>2, <4>1
            <4>3. \A x \in u : x \in Nat /\ x <= n + 1
                BY <1>1, <2>3
            <4> QED BY <4>2, <4>3
        <3> QED BY <3>1, <3>2
    <2> HIDE DEF h, Step
    <2> QED BY <2>2, <2>3
<1> HIDE DEF Upto
<1>6. Upto(Len(s))
    <2> DEFINE bad == {n \in Nat : ~Upto(n)}
    <2>1. bad = {}
        <3>1. SUFFICES ASSUME bad # {} PROVE FALSE
            OBVIOUS
        <3>2. PICK n \in bad : \A m \in bad : n <= m
            BY <3>1, LeastNumber
        <3>3. n # 0
            BY <1>4, <3>2
        <3>4. n - 1 \in Nat /\ n - 1 \notin bad
            BY <3>2, <3>3
        <3>5. Upto((n - 1) + 1)
            BY <1>5, <3>4
        <3>6. (n - 1) + 1 = n
            BY <3>2
        <3> QED BY <3>2, <3>5, <3>6
    <2> QED BY <1>1, <2>1
<1>7. PICK g \in [SUBSET D -> Nat] : \A u \in SUBSET D : (\A x \in u : x <= Len(s)) => g[u] = Step(g, u)
    BY <1>6 DEF Upto
<1>8. \A u \in SUBSET D : g[u] = Step(g, u)
    <2> HIDE DEF Step
    <2>1. \A u \in SUBSET D : \A x \in u : x <= Len(s)
        BY <1>1
    <2> QED BY <1>7, <2>1
<1> QED BY <1>8 DEF Added, D

\* The sizes are added up from the first frame to the last.
Running(q, s) ==
    /\ q \in [0..Len(s) -> Nat] /\ q[0] = 0
    /\ \A k \in 1..Len(s) : q[k] = q[k - 1] + Size(s[k])
LEMMA SizesIs ==
    ASSUME NEW s \in Seq(Frame)
    PROVE  \E q : Running(q, s) /\ Sizes(s) = q[Len(s)]
<1> DEFINE it == CHOOSE g : Added(g, s)
           q == [k \in 0..Len(s) |-> it[1..k]]
<1>1. Sizes(s) = it[DOMAIN s]
    BY DEF Sizes, FoldLeft, MapThenFoldSet, Added
<1>2. Added(it, s)
    BY AddedDefined
<1>3. Len(s) \in Nat /\ DOMAIN s = 1..Len(s) /\ \A i \in 1..Len(s) : Size(s[i]) \in Nat
    BY FrameSizes
<1> HIDE DEF it
<1>4. q[0] = 0
    BY <1>2, <1>3 DEF Added
<1>5. ASSUME NEW k \in 1..Len(s) PROVE q[k] = q[k - 1] + Size(s[k])
    <2>1. 1..k \in SUBSET DOMAIN s /\ 1..k # {} /\ 1..k \in SUBSET (1..k)
        BY <1>3
    <2>2. Max(1..k) \in 1..k /\ \A x \in 1..k : Max(1..k) >= x
        <3>1. PICK n \in Nat, B \in SUBSET Nat : n = k /\ B = 1..k
            BY <1>3
        <3>2. B \in SUBSET (1..n) /\ B # {}
            BY <2>1, <3>1
        <3> QED BY <3>1, <3>2, GreatestNumber
    <2>3. Max(1..k) = k
        BY <2>2
    <2>4. it[1..k] = it[(1..k) \ {Max(1..k)}] + Size(s[Max(1..k)])
        BY <1>2, <2>1 DEF Added
    <2>5. (1..k) \ {k} = 1..(k - 1) /\ k \in 0..Len(s) /\ k - 1 \in 0..Len(s)
        BY <1>3
    <2> QED BY <2>3, <2>4, <2>5
<1> HIDE DEF q
<1>6. q = [k \in 0..Len(s) |-> q[k]]
    BY DEF q
<1>7. \A k \in 0..Len(s) : q[k] \in Nat
    <2> DEFINE bad == {k \in 0..Len(s) : q[k] \notin Nat}
    <2>1. SUFFICES ASSUME bad # {} PROVE FALSE
        OBVIOUS
    <2>2. PICK k \in bad : \A m \in bad : k <= m
        <3>1. bad \in SUBSET Nat
            BY <1>3
        <3> HIDE DEF bad
        <3> QED BY <2>1, <3>1, LeastNumber
    <2>3. k # 0
        BY <1>4, <2>2
    <2>4. k \in 1..Len(s) /\ k - 1 \in 0..Len(s) /\ k - 1 \notin bad
        BY <1>3, <2>2, <2>3
    <2> QED BY <1>3, <1>5, <2>2, <2>4
<1>8. Sizes(s) = q[Len(s)]
    BY <1>1, <1>3 DEF q
<1> QED BY <1>3, <1>4, <1>5, <1>6, <1>7, <1>8 DEF Running

LEMMA SizesType == ASSUME NEW s \in Seq(Frame) PROVE Sizes(s) \in Nat
<1>1. PICK q : Running(q, s) /\ Sizes(s) = q[Len(s)]
    BY SizesIs
<1> QED BY <1>1 DEF Running

LEMMA SizesEmpty == Sizes(<< >>) = 0
<1>1. << >> \in Seq(Frame) /\ Len(<< >>) = 0
    OBVIOUS
<1>2. PICK q : Running(q, << >>) /\ Sizes(<< >>) = q[Len(<< >>)]
    BY <1>1, SizesIs
<1> QED BY <1>1, <1>2 DEF Running

\* A frame put behind the others adds its size ...
LEMMA SizesAppend ==
    ASSUME NEW s \in Seq(Frame), NEW c \in Frame
    PROVE  Sizes(Append(s, c)) = Sizes(s) + Size(c)
<1>1. PICK t : t = Append(s, c) /\ t \in Seq(Frame)
    <2>1. Append(s, c) \in Seq(Frame)
        OBVIOUS
    <2> QED BY <2>1
<1>2. PICK q : Running(q, s) /\ Sizes(s) = q[Len(s)]
    BY SizesIs
<1>3. PICK r : Running(r, t) /\ Sizes(t) = r[Len(t)]
    BY <1>1, SizesIs
<1>4. Len(s) \in Nat /\ Len(t) = Len(s) + 1 /\ t[Len(t)] = c /\ \A k \in 1..Len(s) : t[k] = s[k]
    BY <1>1
<1>5. \A k \in 0..Len(s) : r[k] = q[k]
    <2> DEFINE bad == {k \in 0..Len(s) : r[k] # q[k]}
    <2>1. SUFFICES ASSUME bad # {} PROVE FALSE
        OBVIOUS
    <2>2. PICK k \in bad : \A m \in bad : k <= m
        <3>1. bad \in SUBSET Nat
            BY <1>4
        <3> HIDE DEF bad
        <3> QED BY <2>1, <3>1, LeastNumber
    <2>3. k # 0
        BY <1>2, <1>3, <2>2 DEF Running
    <2>4. k \in 1..Len(s) /\ k \in 1..Len(t) /\ k - 1 \in 0..Len(s) /\ k - 1 \notin bad
        BY <1>4, <2>2, <2>3
    <2>5. r[k] = r[k - 1] + Size(t[k]) /\ q[k] = q[k - 1] + Size(s[k])
        BY <1>2, <1>3, <2>4 DEF Running
    <2> QED BY <1>4, <2>2, <2>4, <2>5
<1>6. Len(t) \in 1..Len(t) /\ Len(t) - 1 = Len(s)
    BY <1>4
<1>7. r[Len(t)] = r[Len(t) - 1] + Size(t[Len(t)])
    BY <1>3, <1>6 DEF Running
<1> QED BY <1>1, <1>2, <1>3, <1>4, <1>5, <1>6, <1>7

\* ... and the frame at the head is counted once.
LEMMA SizesHead ==
    ASSUME NEW s \in Seq(Frame), s # << >>
    PROVE  Sizes(s) = Size(Head(s)) + Sizes(Tail(s))
<1>1. PICK t : t = Tail(s) /\ t \in Seq(Frame)
    <2>1. Tail(s) \in Seq(Frame)
        OBVIOUS
    <2> QED BY <2>1
<1>2. PICK q : Running(q, s) /\ Sizes(s) = q[Len(s)]
    BY SizesIs
<1>3. PICK r : Running(r, t) /\ Sizes(t) = r[Len(t)]
    BY <1>1, SizesIs
<1>4. /\ Len(t) \in Nat /\ Len(s) = Len(t) + 1 /\ Head(s) = s[1] /\ \A k \in 1..Len(t) : t[k] = s[k + 1]
      /\ Size(s[1]) \in Nat /\ \A k \in 1..Len(t) : Size(t[k]) \in Nat
    BY <1>1, FrameSizes
<1>5. \A k \in 0..Len(t) : q[k + 1] = Size(s[1]) + r[k]
    <2> DEFINE bad == {k \in 0..Len(t) : q[k + 1] # Size(s[1]) + r[k]}
    <2>1. SUFFICES ASSUME bad # {} PROVE FALSE
        OBVIOUS
    <2>2. PICK k \in bad : \A m \in bad : k <= m
        <3>1. bad \in SUBSET Nat
            BY <1>4
        <3> HIDE DEF bad
        <3> QED BY <2>1, <3>1, LeastNumber
    <2>3. k # 0
        <3>1. SUFFICES ASSUME k = 0 PROVE FALSE
            OBVIOUS
        <3>2. 1 \in 1..Len(s) /\ q[0] = 0 /\ r[0] = 0
            BY <1>2, <1>3, <1>4 DEF Running
        <3>3. q[1] = q[1 - 1] + Size(s[1])
            BY <1>2, <3>2 DEF Running
        <3> QED BY <1>4, <2>2, <3>1, <3>2, <3>3
    <2>4. k \in 1..Len(t) /\ k + 1 \in 1..Len(s) /\ k - 1 \in 0..Len(t) /\ k - 1 \notin bad
        BY <1>4, <2>2, <2>3
    <2>5. r[k] = r[k - 1] + Size(t[k]) /\ q[k + 1] = q[(k + 1) - 1] + Size(s[k + 1])
        BY <1>2, <1>3, <2>4 DEF Running
    <2>6. (k + 1) - 1 = k /\ (k - 1) + 1 = k
        BY <2>4
    <2>7. q[k] = Size(s[1]) + r[k - 1]
        BY <2>4, <2>6
    <2>8. r[k - 1] \in Nat
        BY <1>3, <2>4 DEF Running
    <2> QED BY <1>4, <2>2, <2>4, <2>5, <2>6, <2>7, <2>8
<1>6. Len(t) \in 0..Len(t)
    BY <1>4
<1> QED BY <1>1, <1>2, <1>3, <1>4, <1>5, <1>6

-----------------------------------------------------------------------------
\* A frame alone, which is what the writer holds at a time.
LEMMA SizesOne ==
    ASSUME NEW s \in Seq(Frame), Len(s) = 1
    PROVE  Sizes(s) = Size(Head(s)) /\ Head(s) \in Frame /\ s = <<Head(s)>>
<1>1. s # << >> /\ Tail(s) = << >> /\ Head(s) \in Frame /\ s = <<Head(s)>>
    <2>1. s # << >> /\ Tail(s) \in Seq(Frame) /\ Len(Tail(s)) = 0 /\ Head(s) \in Frame /\ Head(s) = s[1]
        OBVIOUS
    <2>2. Tail(s) = << >>
        <3>1. \A t \in Seq(Frame) : Len(t) = 0 => t = << >>
            OBVIOUS
        <3> QED BY <2>1, <3>1
    <2>3. s = <<s[1]>>
        OBVIOUS
    <2> QED BY <2>1, <2>2, <2>3
<1>2. Size(Head(s)) \in Nat
    BY <1>1 DEF Size, Frame
<1>3. Sizes(s) = Size(Head(s)) + 0
    BY <1>1, SizesHead, SizesEmpty
<1> QED BY <1>1, <1>2, <1>3

RecorderTypes ==
    /\ DOMAIN rec = {"kept", "list", "frames", "wake", "n", "dropped", "stopped", "cancelled", "ended"}
    /\ DOMAIN wri = {"pc", "then", "hand", "cap"}
    /\ DOMAIN tape = {"stored", "n", "dropped", "seen", "lost", "lostFrames", "errors"}
    /\ rec.n \in Nat /\ rec.dropped \in Nat /\ rec.frames \in Seq(Frame) /\ rec.list \in Seq(Evidence)
    /\ wri.cap \in Seq(Frame)
    /\ tape.seen \in Nat /\ tape.n \in Nat /\ tape.dropped \in Nat /\ tape.lost \in Nat
    /\ tape.lostFrames \in Nat /\ tape.errors \in Nat
\* The writer holds one frame from its taking until its write has ended.
InHand ==
    IF wri.pc = "frame" \/ (wri.pc = "flush" /\ wri.then = "frame") THEN Len(wri.cap) = 1 ELSE wri.cap = << >>
RecorderInv == RecorderTypes /\ InHand /\ EventsAccounted

LEMMA Discarding ==
    ASSUME RecorderTypes
    PROVE  /\ DOMAIN Discarded(rec) = DOMAIN rec /\ Discarded(rec).n = rec.n /\ Discarded(rec).dropped = rec.dropped
           /\ Discarded(rec).list = << >> /\ Discarded(rec).frames = << >>
           /\ Discarded(rec).stopped = rec.stopped
           /\ DOMAIN DiscardTape(tape, rec) = DOMAIN tape
           /\ DiscardTape(tape, rec).seen = tape.seen /\ DiscardTape(tape, rec).n = tape.n
           /\ DiscardTape(tape, rec).dropped = tape.dropped
           /\ DiscardTape(tape, rec).lost = tape.lost + Sizes(rec.frames)
           /\ DiscardTape(tape, rec).lostFrames = tape.lostFrames + Len(rec.frames)
           /\ DiscardTape(tape, rec).errors = tape.errors + (Len(rec.list) + Len(rec.frames))
BY DEF RecorderTypes, Discarded, DiscardTape, FramesLost, Counted

\* Every step moves an event to one other place at most.
LEMMA RecorderNext1 == RecorderInv /\ [RecorderNext]_rvars => RecorderInv'
<1> SUFFICES ASSUME RecorderInv, [RecorderNext]_rvars PROVE RecorderInv'
    OBVIOUS
<1>t. RecorderTypes /\ InHand /\ EventsAccounted
    BY DEF RecorderInv
<1>n. /\ Sizes(rec.frames) \in Nat /\ Sizes(wri.cap) \in Nat /\ Sizes(<< >>) = 0
      /\ Len(rec.list) \in Nat /\ Len(rec.frames) \in Nat
    BY <1>t, SizesType, SizesEmpty DEF RecorderTypes
<1>s. << >> \in Seq(Frame) /\ << >> \in Seq(Evidence) /\ Len(<< >>) = 0
    OBVIOUS
<1>c. wri.pc = "frame" \/ (wri.pc = "flush" /\ wri.then = "frame") =>
        Sizes(wri.cap) = Size(Head(wri.cap)) /\ Head(wri.cap) \in Frame
    BY <1>t, SizesOne DEF RecorderTypes, InHand
\* Sequences of frames as they grow and shrink.
<1>h. ASSUME rec.frames # << >>
      PROVE  /\ Tail(rec.frames) \in Seq(Frame) /\ <<Head(rec.frames)>> \in Seq(Frame) /\ Len(<<Head(rec.frames)>>) = 1
             /\ Sizes(<<Head(rec.frames)>>) \in Nat /\ Sizes(Tail(rec.frames)) \in Nat
             /\ Sizes(rec.frames) = Sizes(<<Head(rec.frames)>>) + Sizes(Tail(rec.frames))
    <2>1. PICK s : s = <<Head(rec.frames)>> /\ s \in Seq(Frame) /\ Len(s) = 1 /\ Head(s) = Head(rec.frames)
        <3>1. PICK h \in Frame : h = Head(rec.frames)
            BY <1>t, <1>h DEF RecorderTypes
        <3>2. <<h>> \in Seq(Frame) /\ Len(<<h>>) = 1 /\ Head(<<h>>) = h
            OBVIOUS
        <3> QED BY <3>1, <3>2
    <2>2. Tail(rec.frames) \in Seq(Frame)
        BY <1>t, <1>h DEF RecorderTypes
    <2>3. Sizes(s) = Size(Head(s))
        BY <2>1, SizesOne
    <2>4. Sizes(rec.frames) = Size(Head(rec.frames)) + Sizes(Tail(rec.frames))
        BY <1>t, <1>h, SizesHead DEF RecorderTypes
    <2>5. Sizes(s) \in Nat /\ Sizes(Tail(rec.frames)) \in Nat
        BY <2>1, <2>2, SizesType
    <2> QED BY <2>1, <2>2, <2>3, <2>4, <2>5
<1>a. /\ DOMAIN Captured = DOMAIN rec /\ Captured.n = 0 /\ Captured.dropped = 0 /\ Captured.list = rec.list
      /\ Captured.frames \in Seq(Frame) /\ Sizes(Captured.frames) = Sizes(rec.frames) + Size(rec)
    <2>1. PICK c \in Frame : c = [n |-> rec.n, dropped |-> rec.dropped]
        BY <1>t DEF RecorderTypes, Frame
    <2>2. Size(c) = Size(rec)
        BY <2>1 DEF Size
    <2>3. Captured.frames = Append(rec.frames, c)
        BY <1>t, <2>1 DEF RecorderTypes, Captured
    <2>4. Sizes(Captured.frames) = Sizes(rec.frames) + Size(rec) /\ Captured.frames \in Seq(Frame)
        BY <1>t, <2>2, <2>3, SizesAppend DEF RecorderTypes
    <2> QED BY <1>t, <2>4 DEF RecorderTypes, Captured
<1>z. Size(rec) \in Nat /\ Size(tape) \in Nat
    BY <1>t DEF RecorderTypes, Size
<1>p. PICK a \in Nat, b \in Nat, c \in Nat, d \in Nat, e \in Nat, f \in Nat, g \in Nat :
        /\ Size(rec) = a /\ Sizes(rec.frames) = b /\ Sizes(wri.cap) = c /\ Size(tape) = d
        /\ tape.lost = e /\ tape.lostFrames = f /\ tape.errors = g
    BY <1>t, <1>n, <1>z DEF RecorderTypes
<1>r. PICK h \in Nat, k \in Nat : Len(rec.list) = h /\ Len(rec.frames) = k
    BY <1>n
<1>q. tape.seen = a + b + c + d + e /\ f <= g
    BY <1>t, <1>p DEF EventsAccounted
<1>y. /\ tape.lost + Sizes(rec.frames) \in Nat /\ tape.lostFrames + Len(rec.frames) \in Nat
      /\ tape.errors + (Len(rec.list) + Len(rec.frames)) + 1 \in Nat
    BY <1>p, <1>r
\* A failure that loses no frame changes no account.
<1>f. ASSUME rec' = rec, wri' = wri, tape' = [tape EXCEPT !.errors = @ + 1] PROVE RecorderTypes' /\ EventsAccounted'
    <2>1. /\ DOMAIN tape' = DOMAIN tape /\ tape'.seen = tape.seen /\ tape'.n = tape.n /\ tape'.dropped = tape.dropped
          /\ tape'.lost = tape.lost /\ tape'.lostFrames = tape.lostFrames /\ tape'.errors = tape.errors + 1
        BY <1>t, <1>f DEF RecorderTypes
    <2>2. Size(tape') = Size(tape)
        BY <2>1 DEF Size
    <2>3. RecorderTypes'
        <3>1. tape'.errors \in Nat
            BY <1>p, <2>1
        <3> QED BY <1>t, <1>f, <2>1, <3>1 DEF RecorderTypes
    <2>4. EventsAccounted'
        BY <1>p, <1>q, <1>f, <2>1, <2>2 DEF EventsAccounted
    <2> QED BY <2>3, <2>4
<1>1. ASSUME NEW v \in Evidence, RecordEvidence(v) PROVE RecorderInv'
    <2>1. wri' = wri
        BY <1>1 DEF RecordEvidence
    <2>2. CASE wri.pc = "done" \/ Len(rec.list) >= EvidenceLimit
        <3>1. rec' = rec /\ tape' = [tape EXCEPT !.errors = @ + 1]
            BY <1>1, <2>2 DEF RecordEvidence, Counted
        <3> QED BY <1>t, <1>f, <2>1, <3>1 DEF RecorderInv, InHand
    <2>3. CASE ~(wri.pc = "done" \/ Len(rec.list) >= EvidenceLimit)
        <3>1. tape' = tape /\ rec' = [rec EXCEPT !.kept[v[1]] = v[2], !.list = Append(@, v), !.wake = TRUE]
            BY <1>1, <2>3 DEF RecordEvidence
        <3>2. /\ DOMAIN rec' = DOMAIN rec /\ rec'.n = rec.n /\ rec'.dropped = rec.dropped /\ rec'.frames = rec.frames
              /\ rec'.list = Append(rec.list, v)
            BY <1>t, <3>1 DEF RecorderTypes
        <3>3. Append(rec.list, v) \in Seq(Evidence)
            BY <1>t DEF RecorderTypes
        <3> QED BY <1>t, <2>1, <3>1, <3>2, <3>3 DEF RecorderInv, RecorderTypes, InHand, EventsAccounted, Size
    <2> QED BY <2>2, <2>3
<1>2. CASE ReplayEvent
    <2>1. /\ rec' = IF rec.n >= EventLimit THEN [rec EXCEPT !.dropped = @ + 1] ELSE [rec EXCEPT !.n = @ + 1]
          /\ tape' = [tape EXCEPT !.seen = @ + 1] /\ wri' = wri
        BY <1>2 DEF ReplayEvent
    <2>2. /\ DOMAIN rec' = DOMAIN rec /\ rec'.frames = rec.frames /\ rec'.list = rec.list
          /\ (rec'.n = rec.n + 1 /\ rec'.dropped = rec.dropped) \/ (rec'.n = rec.n /\ rec'.dropped = rec.dropped + 1)
        BY <1>t, <2>1 DEF RecorderTypes
    <2>3. /\ DOMAIN tape' = DOMAIN tape /\ tape'.seen = tape.seen + 1 /\ tape'.n = tape.n /\ tape'.dropped = tape.dropped
          /\ tape'.lost = tape.lost /\ tape'.lostFrames = tape.lostFrames /\ tape'.errors = tape.errors
        BY <1>t, <2>1 DEF RecorderTypes
    <2>4. RecorderTypes' /\ InHand'
        <3>1. PICK x \in Nat, y \in Nat, z \in Nat : rec.n = x /\ rec.dropped = y /\ tape.seen = z
            BY <1>t DEF RecorderTypes
        <3>2. rec'.n \in Nat /\ rec'.dropped \in Nat /\ tape'.seen \in Nat
            BY <2>2, <2>3, <3>1
        <3> QED BY <1>t, <2>1, <2>2, <2>3, <3>2 DEF RecorderTypes, InHand
    <2>5. Size(rec') = Size(rec) + 1 /\ Size(tape') = Size(tape)
        BY <1>t, <2>2, <2>3 DEF Size, RecorderTypes
    <2>6. EventsAccounted'
        <3>1. /\ Size(rec') = a + 1 /\ Sizes(rec'.frames) = b /\ Sizes(wri'.cap) = c /\ Size(tape') = d
              /\ tape'.lost = e /\ tape'.seen = (a + b + c + d + e) + 1 /\ tape'.lostFrames = f /\ tape'.errors = g
            BY <1>p, <1>q, <2>1, <2>2, <2>3, <2>5
        <3> QED BY <1>q, <3>1 DEF EventsAccounted
    <2> QED BY <2>4, <2>6 DEF RecorderInv
<1>3. CASE FlushReplay
    <2>1. wri' = wri
        BY <1>3 DEF FlushReplay
    <2>2. CASE Full
        <3>1. rec' = rec /\ tape' = [tape EXCEPT !.errors = @ + 1]
            BY <1>3, <2>2 DEF FlushReplay, Counted
        <3> QED BY <1>t, <1>f, <2>1, <3>1 DEF RecorderInv, InHand
    <2>3. CASE ~Full
        <3>1. rec' = Captured /\ tape' = tape
            BY <1>3, <2>3 DEF FlushReplay
        <3>2. Size(rec') = 0
            BY <1>a, <3>1 DEF Size
        <3>3. EventsAccounted'
            BY <1>t, <1>n, <1>z, <1>a, <2>1, <3>1, <3>2 DEF EventsAccounted
        <3> QED BY <1>t, <1>a, <2>1, <3>1, <3>3 DEF RecorderInv, RecorderTypes, InHand
    <2> QED BY <2>2, <2>3
<1>4. CASE StopReplay
    <2>1. wri' = wri
        BY <1>4 DEF StopReplay
    <2>2. CASE Size(rec) = 0
        BY <1>4, <1>t, <1>n, <1>z, <2>1, <2>2 DEF StopReplay, RecorderInv, RecorderTypes, InHand, EventsAccounted, Size
    <2>3. CASE Size(rec) # 0 /\ Full
        <3>1. /\ tape' = [Counted(tape, 2) EXCEPT !.lost = @ + Size(rec), !.lostFrames = @ + 1]
              /\ rec' = [rec EXCEPT !.stopped = TRUE, !.n = 0, !.dropped = 0]
            BY <1>4, <2>3 DEF StopReplay
        <3>2. /\ DOMAIN rec' = DOMAIN rec /\ rec'.frames = rec.frames /\ rec'.list = rec.list /\ rec'.n = 0 /\ rec'.dropped = 0
            BY <1>t, <3>1 DEF RecorderTypes
        <3>3. /\ DOMAIN tape' = DOMAIN tape /\ tape'.seen = tape.seen /\ tape'.n = tape.n /\ tape'.dropped = tape.dropped
              /\ tape'.lost = tape.lost + Size(rec) /\ tape'.lostFrames = tape.lostFrames + 1 /\ tape'.errors = tape.errors + 2
            BY <1>t, <3>1 DEF RecorderTypes, Counted
        <3>4. RecorderTypes' /\ InHand'
            <4>1. tape'.lost \in Nat /\ tape'.lostFrames \in Nat /\ tape'.errors \in Nat
                BY <1>p, <3>3
            <4> QED BY <1>t, <2>1, <3>2, <3>3, <4>1 DEF RecorderTypes, InHand
        <3>5. Size(rec') = 0 /\ Size(tape') = Size(tape)
            BY <3>2, <3>3 DEF Size
        <3>6. EventsAccounted'
            BY <1>n, <1>p, <1>q, <1>r, <2>1, <3>2, <3>3, <3>5 DEF EventsAccounted
        <3> QED BY <3>4, <3>6 DEF RecorderInv
    <2>4. CASE Size(rec) # 0 /\ ~Full
        <3>1. rec' = [Captured EXCEPT !.stopped = TRUE] /\ tape' = tape
            BY <1>4, <2>4 DEF StopReplay
        <3>2. /\ DOMAIN rec' = DOMAIN rec /\ rec'.n = 0 /\ rec'.dropped = 0 /\ rec'.frames = Captured.frames
              /\ rec'.list = rec.list
            BY <1>t, <1>a, <3>1 DEF RecorderTypes
        <3>3. Size(rec') = 0
            BY <3>2 DEF Size
        <3>4. EventsAccounted'
            <4>1. /\ Size(rec') = 0 /\ Sizes(rec'.frames) = b + a /\ Sizes(wri'.cap) = c /\ Size(tape') = d
                  /\ tape'.lost = e /\ tape'.seen = a + b + c + d + e /\ tape'.lostFrames = f /\ tape'.errors = g
                BY <1>p, <1>q, <1>a, <2>1, <3>1, <3>2, <3>3
            <4> QED BY <1>q, <4>1 DEF EventsAccounted
        <3>5. tape' = tape /\ rec'.frames \in Seq(Frame) /\ rec'.n \in Nat /\ rec'.dropped \in Nat
            BY <1>a, <3>1, <3>2
        <3>6. RecorderTypes' /\ InHand'
            BY <1>t, <2>1, <3>2, <3>5 DEF RecorderTypes, InHand
        <3> QED BY <3>4, <3>6 DEF RecorderInv
    <2> QED BY <2>2, <2>3, <2>4
<1>5. CASE StopWaited
    <2>1. wri' = wri
        BY <1>5 DEF StopWaited
    <2>2. CASE wri.pc = "done"
        BY <1>5, <1>t, <1>n, <1>z, <2>1, <2>2 DEF StopWaited, RecorderInv, RecorderTypes, InHand, EventsAccounted, Size
    <2>3. CASE wri.pc # "done"
        <3>1. rec' = [Discarded(rec) EXCEPT !.ended = TRUE, !.cancelled = TRUE] /\ tape' = Counted(DiscardTape(tape, rec), 1)
            BY <1>5, <2>3 DEF StopWaited
        <3>2. /\ DOMAIN rec' = DOMAIN rec /\ rec'.n = rec.n /\ rec'.dropped = rec.dropped /\ rec'.frames = << >>
              /\ rec'.list = << >>
            BY <1>t, <3>1, Discarding DEF RecorderTypes
        <3>3. /\ DOMAIN tape' = DOMAIN tape /\ tape'.seen = tape.seen /\ tape'.n = tape.n /\ tape'.dropped = tape.dropped
              /\ tape'.lost = tape.lost + Sizes(rec.frames) /\ tape'.lostFrames = tape.lostFrames + Len(rec.frames)
              /\ tape'.errors = tape.errors + (Len(rec.list) + Len(rec.frames)) + 1
            BY <1>t, <3>1, Discarding DEF RecorderTypes, Counted
        <3>4. RecorderTypes' /\ InHand'
            BY <1>t, <1>n, <1>s, <2>1, <3>2, <3>3, <1>y DEF RecorderTypes, InHand
        <3>5. Size(rec') = Size(rec) /\ Size(tape') = Size(tape)
            BY <3>2, <3>3 DEF Size
        <3>6. EventsAccounted'
            BY <1>n, <1>p, <1>q, <1>r, <2>1, <3>2, <3>3, <3>5 DEF EventsAccounted
        <3> QED BY <3>4, <3>6 DEF RecorderInv
    <2> QED BY <1>5, <2>2, <2>3 DEF StopWaited
<1>6. CASE Woken
    <2>1. /\ wri' = [pc |-> "flush", then |-> "idle", hand |-> rec.list, cap |-> << >>] /\ tape' = tape
          /\ rec' = [rec EXCEPT !.wake = FALSE, !.list = << >>] /\ wri.pc = "idle"
        BY <1>6 DEF Woken, TakeEvidence
    <2>2. wri.cap = << >>
        BY <1>t, <2>1 DEF InHand
    <2> QED BY <1>t, <1>n, <1>s, <1>z, <2>1, <2>2 DEF RecorderInv, RecorderTypes, InHand, EventsAccounted, Size
<1>7. CASE TakeFrame
    <2>1. /\ wri' = [pc |-> "flush", then |-> "frame", hand |-> rec.list, cap |-> <<Head(rec.frames)>>] /\ tape' = tape
          /\ rec' = [rec EXCEPT !.frames = Tail(@), !.list = << >>] /\ wri.pc = "idle" /\ rec.frames # << >>
        BY <1>7 DEF TakeFrame, TakeEvidence
    <2>2. wri.cap = << >>
        BY <1>t, <2>1 DEF InHand
    <2>3. /\ DOMAIN rec' = DOMAIN rec /\ rec'.n = rec.n /\ rec'.dropped = rec.dropped /\ rec'.frames = Tail(rec.frames)
          /\ rec'.list = << >> /\ wri'.cap = <<Head(rec.frames)>> /\ Size(rec') = Size(rec)
        BY <1>t, <2>1 DEF RecorderTypes, Size
    <2>4. EventsAccounted'
        BY <1>t, <1>n, <1>z, <1>h, <2>1, <2>2, <2>3 DEF EventsAccounted
    <2> QED BY <1>t, <1>n, <1>h, <2>1, <2>3, <2>4 DEF RecorderInv, RecorderTypes, InHand
<1>8. CASE Stopping
    <2>1. wri.pc = "idle" /\ wri.cap = << >>
        BY <1>8, <1>t DEF Stopping, InHand
    <2>2. CASE rec.cancelled
        <3>1. rec' = Discarded(rec) /\ tape' = DiscardTape(tape, rec) /\ wri' = [wri EXCEPT !.pc = "done"]
            BY <1>8, <2>2 DEF Stopping
        <3>2. /\ DOMAIN rec' = DOMAIN rec /\ rec'.n = rec.n /\ rec'.dropped = rec.dropped /\ rec'.frames = << >>
              /\ rec'.list = << >>
            BY <1>t, <3>1, Discarding DEF RecorderTypes
        <3>3. /\ DOMAIN tape' = DOMAIN tape /\ tape'.seen = tape.seen /\ tape'.n = tape.n /\ tape'.dropped = tape.dropped
              /\ tape'.lost = tape.lost + Sizes(rec.frames) /\ tape'.lostFrames = tape.lostFrames + Len(rec.frames)
              /\ tape'.errors = tape.errors + (Len(rec.list) + Len(rec.frames))
            BY <1>t, <3>1, Discarding DEF RecorderTypes, Counted
        <3>4. DOMAIN wri' = DOMAIN wri /\ wri'.cap = << >> /\ wri'.pc = "done" /\ wri.cap = << >>
            BY <1>t, <2>1, <3>1 DEF RecorderTypes
        <3>5. RecorderTypes' /\ InHand'
            BY <1>t, <1>n, <1>s, <3>2, <3>3, <3>4 DEF RecorderTypes, InHand
        <3>6. Size(rec') = Size(rec) /\ Size(tape') = Size(tape)
            BY <3>2, <3>3 DEF Size
        <3>7. EventsAccounted'
            BY <1>n, <1>p, <1>q, <1>r, <3>2, <3>3, <3>4, <3>6 DEF EventsAccounted
        <3> QED BY <3>5, <3>7 DEF RecorderInv
    <2>3. CASE ~rec.cancelled
        <3>1. /\ wri' = [pc |-> "flush", then |-> "drain", hand |-> rec.list, cap |-> << >>]
              /\ rec' = [rec EXCEPT !.list = << >>] /\ tape' = tape
            BY <1>8, <2>3 DEF Stopping, TakeEvidence
        <3> QED BY <1>t, <1>n, <1>s, <1>z, <2>1, <3>1 DEF RecorderInv, RecorderTypes, InHand, EventsAccounted, Size
    <2> QED BY <2>2, <2>3
<1>9. CASE WriteEvidence
    <2>1. wri.pc = "flush" /\ wri' = [wri EXCEPT !.hand = Tail(@)]
        BY <1>9 DEF WriteEvidence
    <2>2. /\ DOMAIN rec' = DOMAIN rec /\ rec'.n = rec.n /\ rec'.dropped = rec.dropped /\ rec'.frames = rec.frames
          /\ rec'.list = rec.list
        BY <1>9, <1>t DEF WriteEvidence, RecorderTypes
    <2>3. /\ DOMAIN tape' = DOMAIN tape /\ tape'.seen = tape.seen /\ tape'.n = tape.n /\ tape'.dropped = tape.dropped
          /\ tape'.lost = tape.lost /\ tape'.lostFrames = tape.lostFrames /\ tape'.errors \in {tape.errors, tape.errors + 1}
        <3>1. \/ tape' = [tape EXCEPT !.stored = @ \cup {Head(wri.hand)}] 
              \/ tape' = [tape EXCEPT !.errors = @ + 1]
            BY <1>9 DEF WriteEvidence, Counted
        <3> QED BY <1>t, <3>1 DEF RecorderTypes
    <2>4. DOMAIN wri' = DOMAIN wri /\ wri'.cap = wri.cap /\ wri'.pc = wri.pc /\ wri'.then = wri.then
        BY <1>t, <2>1 DEF RecorderTypes
    <2>5. RecorderTypes' /\ InHand'
        BY <1>t, <2>2, <2>3, <2>4 DEF RecorderTypes, InHand
    <2>6. Size(rec') = Size(rec) /\ Size(tape') = Size(tape)
        BY <2>2, <2>3 DEF Size
    <2>7. EventsAccounted'
        BY <1>n, <1>p, <1>q, <1>r, <2>2, <2>3, <2>4, <2>6 DEF EventsAccounted
    <2> QED BY <2>5, <2>7 DEF RecorderInv
<1>10. CASE Flushed
    BY <1>10, <1>t DEF Flushed, RecorderInv, RecorderTypes, InHand, EventsAccounted, Size
<1>11. CASE WriteFrame
    <2>1. /\ wri.pc = "frame" /\ rec' = rec
          /\ wri' = [wri EXCEPT !.pc = IF wri.then = "frame" THEN "idle" ELSE "drain", !.cap = << >>]
        BY <1>11 DEF WriteFrame
    <2>2. Sizes(wri.cap) = Head(wri.cap).n + Head(wri.cap).dropped /\ Head(wri.cap).n \in Nat /\ Head(wri.cap).dropped \in Nat
        BY <1>c, <2>1 DEF Size, Frame
    <2>3. Len(wri.cap) = 1 /\ wri'.cap = << >> /\ wri'.pc \in {"idle", "drain"} /\ DOMAIN wri' = DOMAIN wri
        BY <1>t, <2>1 DEF InHand, RecorderTypes
    <2>4. CASE tape' = [tape EXCEPT !.n = @ + Head(wri.cap).n, !.dropped = @ + Head(wri.cap).dropped]
        <3>1. /\ DOMAIN tape' = DOMAIN tape /\ tape'.seen = tape.seen /\ tape'.lost = tape.lost
              /\ tape'.n = tape.n + Head(wri.cap).n /\ tape'.dropped = tape.dropped + Head(wri.cap).dropped
              /\ tape'.lostFrames = tape.lostFrames /\ tape'.errors = tape.errors
            BY <1>t, <2>4 DEF RecorderTypes
        <3>2. RecorderTypes' /\ InHand'
            <4>1. tape.n + Head(wri.cap).n \in Nat /\ tape.dropped + Head(wri.cap).dropped \in Nat
                <5>1. PICK x \in Nat, y \in Nat, z \in Nat, t \in Nat :
                        tape.n = x /\ tape.dropped = y /\ Head(wri.cap).n = z /\ Head(wri.cap).dropped = t
                    BY <1>t, <2>2 DEF RecorderTypes
                <5> QED BY <5>1
            <4> QED BY <1>t, <1>s, <2>1, <2>3, <3>1, <4>1 DEF RecorderTypes, InHand
        <3>3. Size(tape') = Size(tape) + Sizes(wri.cap)
            <4>1. PICK p \in Nat, q \in Nat, r \in Nat, t \in Nat :
                    tape.n = p /\ tape.dropped = q /\ Head(wri.cap).n = r /\ Head(wri.cap).dropped = t
                BY <1>t, <2>2 DEF RecorderTypes
            <4>2. tape'.n = p + r /\ tape'.dropped = q + t /\ Sizes(wri.cap) = r + t
                BY <2>2, <3>1, <4>1
            <4>3. Size(tape') = (p + r) + (q + t) /\ Size(tape) = p + q
                BY <4>1, <4>2 DEF Size
            <4> QED BY <4>1, <4>2, <4>3
        <3>4. EventsAccounted'
            BY <1>n, <1>p, <1>q, <1>r, <2>1, <2>3, <3>1, <3>3 DEF EventsAccounted
        <3> QED BY <3>2, <3>4 DEF RecorderInv
    <2>5. CASE tape' = FramesLost(Counted(tape, 1), wri.cap)
        <3>1. /\ DOMAIN tape' = DOMAIN tape /\ tape'.seen = tape.seen /\ tape'.n = tape.n /\ tape'.dropped = tape.dropped
              /\ tape'.lost = tape.lost + Sizes(wri.cap) /\ tape'.lostFrames = tape.lostFrames + Len(wri.cap)
              /\ tape'.errors = tape.errors + 1
            BY <1>t, <2>5 DEF RecorderTypes, FramesLost, Counted
        <3>2. RecorderTypes' /\ InHand'
            <4>1. tape'.lost \in Nat /\ tape'.lostFrames \in Nat /\ tape'.errors \in Nat
                BY <1>p, <2>3, <3>1
            <4> QED BY <1>t, <1>s, <2>1, <2>3, <3>1, <4>1 DEF RecorderTypes, InHand
        <3>3. Size(tape') = Size(tape)
            BY <3>1 DEF Size
        <3>4. EventsAccounted'
            BY <1>n, <1>p, <1>q, <1>r, <2>1, <2>3, <3>1, <3>3 DEF EventsAccounted
        <3> QED BY <3>2, <3>4 DEF RecorderInv
    <2> QED BY <1>11, <2>4, <2>5 DEF WriteFrame
<1>12. CASE Drain
    <2>1. wri.pc = "drain" /\ wri.cap = << >>
        BY <1>12, <1>t DEF Drain, InHand
    <2>2. CASE rec' = Discarded(rec) /\ tape' = DiscardTape(tape, rec) /\ wri' = [wri EXCEPT !.pc = "done"]
        <3>1. /\ DOMAIN rec' = DOMAIN rec /\ rec'.n = rec.n /\ rec'.dropped = rec.dropped /\ rec'.frames = << >>
              /\ rec'.list = << >>
            BY <1>t, <2>2, Discarding DEF RecorderTypes
        <3>2. /\ DOMAIN tape' = DOMAIN tape /\ tape'.seen = tape.seen /\ tape'.n = tape.n /\ tape'.dropped = tape.dropped
              /\ tape'.lost = tape.lost + Sizes(rec.frames) /\ tape'.lostFrames = tape.lostFrames + Len(rec.frames)
              /\ tape'.errors = tape.errors + (Len(rec.list) + Len(rec.frames))
            BY <1>t, <2>2, Discarding DEF RecorderTypes, Counted
        <3>3. DOMAIN wri' = DOMAIN wri /\ wri'.cap = << >> /\ wri'.pc = "done" /\ wri.cap = << >>
            BY <1>t, <2>1, <2>2 DEF RecorderTypes
        <3>4. RecorderTypes' /\ InHand'
            BY <1>t, <1>n, <1>s, <3>1, <3>2, <3>3 DEF RecorderTypes, InHand
        <3>5. Size(rec') = Size(rec) /\ Size(tape') = Size(tape)
            BY <3>1, <3>2 DEF Size
        <3>6. EventsAccounted'
            BY <1>n, <1>p, <1>q, <1>r, <3>1, <3>2, <3>3, <3>5 DEF EventsAccounted
        <3> QED BY <3>4, <3>6 DEF RecorderInv
    <2>3. CASE /\ rec.frames # << >> /\ wri' = [wri EXCEPT !.pc = "frame", !.cap = <<Head(rec.frames)>>]
               /\ rec' = [rec EXCEPT !.frames = Tail(@)] /\ tape' = tape
        <3>1. /\ DOMAIN rec' = DOMAIN rec /\ rec'.n = rec.n /\ rec'.dropped = rec.dropped /\ rec'.frames = Tail(rec.frames)
              /\ rec'.list = rec.list /\ Size(rec') = Size(rec)
              /\ DOMAIN wri' = DOMAIN wri /\ wri'.cap = <<Head(rec.frames)>> /\ wri'.pc = "frame"
            BY <1>t, <2>3 DEF RecorderTypes, Size
        <3>2. EventsAccounted'
            BY <1>t, <1>n, <1>z, <1>h, <2>1, <2>3, <3>1 DEF EventsAccounted
        <3> QED BY <1>t, <1>n, <1>h, <2>3, <3>1, <3>2 DEF RecorderInv, RecorderTypes, InHand
    <2>4. CASE wri' = [wri EXCEPT !.pc = "done"] /\ rec' = rec /\ tape' = tape
        BY <1>t, <1>n, <1>s, <1>z, <2>1, <2>4 DEF RecorderInv, RecorderTypes, InHand, EventsAccounted, Size
    <2> QED BY <1>12, <2>2, <2>3, <2>4 DEF Drain
<1>13. CASE WriterPanics
    <2>1. wri.pc \in {"idle", "drain"} /\ wri.cap = << >>
        BY <1>13, <1>t DEF WriterPanics, InHand
    <2>2. rec' = Discarded(rec) /\ tape' = Counted(DiscardTape(tape, rec), 1) /\ wri' = [wri EXCEPT !.pc = "done"]
        BY <1>13 DEF WriterPanics
    <2>3. /\ DOMAIN rec' = DOMAIN rec /\ rec'.n = rec.n /\ rec'.dropped = rec.dropped /\ rec'.frames = << >>
          /\ rec'.list = << >>
        BY <1>t, <2>2, Discarding DEF RecorderTypes
    <2>4. /\ DOMAIN tape' = DOMAIN tape /\ tape'.seen = tape.seen /\ tape'.n = tape.n /\ tape'.dropped = tape.dropped
          /\ tape'.lost = tape.lost + Sizes(rec.frames) /\ tape'.lostFrames = tape.lostFrames + Len(rec.frames)
          /\ tape'.errors = tape.errors + (Len(rec.list) + Len(rec.frames)) + 1
        BY <1>t, <2>2, Discarding DEF RecorderTypes, Counted
    <2>5. DOMAIN wri' = DOMAIN wri /\ wri'.cap = << >> /\ wri'.pc = "done" /\ wri.cap = << >>
        BY <1>t, <2>1, <2>2 DEF RecorderTypes
    <2>6. RecorderTypes' /\ InHand'
        BY <1>t, <1>n, <1>s, <2>3, <2>4, <2>5 DEF RecorderTypes, InHand
    <2>7. Size(rec') = Size(rec) /\ Size(tape') = Size(tape)
        BY <2>3, <2>4 DEF Size
    <2>8. EventsAccounted'
        <3>1. /\ Size(rec') = a /\ Sizes(rec'.frames) = 0 /\ Sizes(wri'.cap) = 0 /\ Size(tape') = d /\ c = 0
              /\ tape'.lost = e + b /\ tape'.seen = a + b + c + d + e /\ tape'.lostFrames = f + k /\ tape'.errors = g + (h + k) + 1
            BY <1>n, <1>p, <1>q, <1>r, <2>3, <2>4, <2>5, <2>7
        <3> QED BY <1>q, <3>1 DEF EventsAccounted
    <2> QED BY <2>6, <2>8 DEF RecorderInv
<1>14. CASE UNCHANGED rvars
    BY <1>14, <1>t DEF rvars, RecorderInv, RecorderTypes, InHand, EventsAccounted, Size
<1> QED BY <1>1, <1>2, <1>3, <1>4, <1>5, <1>6, <1>7, <1>8, <1>9, <1>10, <1>11, <1>12, <1>13, <1>14 DEF RecorderNext

\* No event vanishes between the stream and the tape (replayEvent, flushReplay,
\* stopReplay, writeReplay): it is buffered, in a frame, stored, counted as
\* dropped by its frame, or lost with a frame whose loss was an error.
THEOREM EventsAccountedHolds == RecorderSpec => []EventsAccounted
<1>1. RecorderInit => RecorderInv
    <2>1. << >> \in Seq(Frame) /\ << >> \in Seq(Evidence)
        OBVIOUS
    <2> QED BY <2>1, SizesEmpty DEF RecorderInit, RecorderInv, RecorderTypes, InHand, EventsAccounted, Size
<1>2. RecorderInv => EventsAccounted
    BY DEF RecorderInv
<1> QED BY <1>1, <1>2, RecorderNext1, PTL DEF RecorderSpec

-----------------------------------------------------------------------------
(* The tape *)

Transactions == [at : 0..MaxTime, names : SUBSET Digests, locked : SUBSET Digests, mine : SUBSET Digests,
                 step : {"none", "insert", "touch"}]
Prunings == [step : {"none", "payloads", "delete"}, cutoff : Nat, cut : Nat, left : SUBSET Digests]

LEMMA TapeBounds ==
    /\ MaxTime \in Nat /\ Slack \in Nat /\ Gone \in Nat /\ Gone > MaxTime + Slack
    /\ NoFrameTx \in Transactions
BY TapeAssumption DEF Gone, NoFrameTx, Transactions

\* A transaction begins: it holds only what is stored and not being inserted.
LEMMA BeginTape ==
    ASSUME TapeInv, NEW w \in Writers, BeginFrame(w)
    PROVE  TapeInv'
<1>1. PICK at \in 0..MaxTime, names \in SUBSET Digests \ {{}} :
          tx' = [tx EXCEPT ![w] = [at |-> at, names |-> names, locked |-> names \cap Stored, mine |-> {},
                                   step |-> "insert"]]
    BY DEF BeginFrame
<1>2. UNCHANGED <<tf, tp, pn>> /\ Stored' = Stored
    BY DEF BeginFrame, Stored
<1>3. tx \in [Writers -> Transactions] /\ tx' \in [Writers -> Transactions]
    BY <1>1 DEF TapeInv, TapeTypes, Transactions
<1>4. \A v \in Writers : tx[v].mine \cap Stored = {}
    BY DEF TapeInv, TransactionsHold
<1>5. TransactionsHold'
  <2> SUFFICES ASSUME NEW u \in Writers
               PROVE  /\ tx'[u].locked \subseteq tx'[u].names /\ tx'[u].mine = tx'[u].locked \ Stored
                      /\ IF tx'[u].step = "touch" THEN tx'[u].locked = tx'[u].names ELSE tx'[u].mine = {}
                      /\ \A v \in Writers \ {u} : tx'[v].mine \cap tx'[u].locked = {}
      BY <1>2 DEF TransactionsHold
  <2>1. QED
      BY <1>1, <1>3, <1>4 DEF TapeInv, TransactionsHold
<1>6. QED
    BY <1>2, <1>3, <1>5 DEF TapeInv, TapeTypes, SeenLately, Transactions


\* What is missing is inserted, and nobody else names it until the commit.
LEMMA InsertTape ==
    ASSUME TapeInv, NEW w \in Writers, InsertPayloads(w)
    PROVE  TapeInv'
<1> DEFINE missing == tx[w].names \ tx[w].locked
<1>1. missing \cap Inserting(w) = {} /\ tx[w].step = "insert"
      /\ tx' = [tx EXCEPT ![w].locked = tx[w].names, ![w].mine = missing \ Stored, ![w].step = "touch"]
    BY DEF InsertPayloads
<1>2. UNCHANGED <<tf, tp, pn>> /\ Stored' = Stored
    BY DEF InsertPayloads, Stored
<1>3. tx \in [Writers -> Transactions]
    BY DEF TapeInv, TapeTypes, Transactions
<1>4. tx' = [tx EXCEPT ![w] = [at |-> tx[w].at, names |-> tx[w].names, locked |-> tx[w].names,
                               mine |-> missing \ Stored, step |-> "touch"]]
    BY <1>1, <1>3 DEF Transactions
<1>5. tx' \in [Writers -> Transactions]
    BY <1>3, <1>4 DEF Transactions
<1>6. \A v \in Writers \ {w} : tx[v].mine \cap tx[w].names = {}
  <2>1. \A v \in Writers \ {w} : tx[v].mine \cap missing = {}
      BY <1>1 DEF Inserting
  <2>2. QED
      BY <2>1 DEF TapeInv, TransactionsHold
<1>7. \A v \in Writers \ {w} : (missing \ Stored) \cap tx[v].locked = {}
  <2> SUFFICES ASSUME NEW v \in Writers \ {w}, NEW d \in missing \ Stored, d \in tx[v].locked PROVE FALSE
      OBVIOUS
  <2>0. tx[v].mine = tx[v].locked \ Stored
      BY DEF TapeInv, TransactionsHold
  <2>1. d \in tx[v].mine
      BY <2>0
  <2>2. QED
      BY <2>1, <1>6
<1>8. missing \ Stored = tx[w].names \ Stored
  <2>1. tx[w].mine = {} /\ tx[w].mine = tx[w].locked \ Stored
      BY <1>1 DEF TapeInv, TransactionsHold
  <2>2. QED
      BY <2>1
<1>9. TransactionsHold'
  <2> SUFFICES ASSUME NEW u \in Writers
               PROVE  /\ tx'[u].locked \subseteq tx'[u].names /\ tx'[u].mine = tx'[u].locked \ Stored
                      /\ IF tx'[u].step = "touch" THEN tx'[u].locked = tx'[u].names ELSE tx'[u].mine = {}
                      /\ \A v \in Writers \ {u} : tx'[v].mine \cap tx'[u].locked = {}
      BY <1>2 DEF TransactionsHold
  <2>1. CASE u = w
      BY <2>1, <1>3, <1>4, <1>6, <1>8
  <2>2. CASE u # w
      BY <2>2, <1>3, <1>4, <1>7 DEF TapeInv, TransactionsHold
  <2>3. QED
      BY <2>1, <2>2
<1>10. QED
    BY <1>2, <1>5, <1>9 DEF TapeInv, TapeTypes, SeenLately, Transactions

\* The commit stores what was missing and has seen all it names.
LEMMA CommitTape ==
    ASSUME TapeInv, NEW w \in Writers, CommitFrame(w)
    PROVE  TapeInv'
<1> DEFINE at == tx[w].at
           names == tx[w].names
           frame == [at |-> at, names |-> names]
<1>1. /\ tp' = [d \in Digests |-> IF d \in tx[w].mine THEN at ELSE IF d \in names THEN Touched(tp[d], at) ELSE tp[d]]
      /\ tf' = tf \cup {frame} /\ tx' = [tx EXCEPT ![w] = NoFrameTx] /\ UNCHANGED pn /\ tx[w].step = "touch"
    BY DEF CommitFrame
<1>2. /\ tx \in [Writers -> Transactions] /\ tp \in [Digests -> 0..MaxTime \cup {Gone}]
      /\ tf \subseteq [at : 0..MaxTime, names : SUBSET Digests] /\ at \in 0..MaxTime /\ names \in SUBSET Digests
    BY DEF TapeInv, TapeTypes, Transactions
<1>3. tx[w].locked = names /\ tx[w].mine = names \ Stored
    BY <1>1 DEF TapeInv, TransactionsHold
<1>4. \A d \in names : tp'[d] \in 0..MaxTime /\ tp'[d] + Slack >= at /\ (tp[d] # Gone => tp'[d] >= tp[d])
  <2> SUFFICES ASSUME NEW d \in names PROVE tp'[d] \in 0..MaxTime /\ tp'[d] + Slack >= at /\ (tp[d] # Gone => tp'[d] >= tp[d])
      OBVIOUS
  <2>1. CASE tp[d] = Gone
      BY <2>1, <1>1, <1>2, <1>3, TapeBounds DEF Stored
  <2>2. CASE tp[d] # Gone
    <3>1. tp[d] \in 0..MaxTime /\ tp'[d] = Touched(tp[d], at)
        BY <2>2, <1>1, <1>2, <1>3 DEF Stored
    <3>2. QED
        BY <3>1, <1>2, TapeBounds DEF Touched
  <2>3. QED
      BY <2>1, <2>2
<1>5. \A d \in Digests \ names : tp'[d] = tp[d]
    BY <1>1, <1>3
<1>6. tp' \in [Digests -> 0..MaxTime \cup {Gone}] /\ Stored' = Stored \cup names
  <2>1. \A d \in Digests : tp'[d] \in 0..MaxTime \cup {Gone}
      BY <1>2, <1>4, <1>5
  <2>2. \A d \in names : tp'[d] # Gone
      BY <1>4, TapeBounds
  <2>3. QED
      BY <1>1, <1>2, <1>5, <2>1, <2>2 DEF Stored
<1>7. SeenLately'
  <2> SUFFICES ASSUME NEW f \in tf', f.at >= pn.cut, NEW d \in f.names PROVE tp'[d] # Gone /\ tp'[d] + Slack >= f.at
      BY <1>1 DEF SeenLately
  <2>1. CASE f = frame
      BY <2>1, <1>4, TapeBounds
  <2>2. CASE f \in tf
    <3>1. tp[d] # Gone /\ tp[d] + Slack >= f.at /\ f.at \in 0..MaxTime /\ d \in Digests
        BY <2>2, <1>2 DEF TapeInv, SeenLately
    <3>2. tp[d] \in 0..MaxTime
        BY <3>1, <1>2
    <3>3. QED
        BY <3>1, <3>2, <1>4, <1>5, TapeBounds
  <2>3. QED
      BY <2>1, <2>2, <1>1
<1>8. TransactionsHold'
  <2> SUFFICES ASSUME NEW u \in Writers
               PROVE  /\ tx'[u].locked \subseteq tx'[u].names /\ tx'[u].mine = tx'[u].locked \ (Stored \cup names)
                      /\ IF tx'[u].step = "touch" THEN tx'[u].locked = tx'[u].names ELSE tx'[u].mine = {}
                      /\ \A v \in Writers \ {u} : tx'[v].mine \cap tx'[u].locked = {}
      BY <1>6 DEF TransactionsHold
  <2>1. CASE u = w
      BY <2>1, <1>1, <1>2 DEF NoFrameTx
  <2>2. CASE u # w
    <3>1. tx[u].mine = tx[u].locked \ Stored /\ tx[w].mine \cap tx[u].locked = {} /\ tx[u].mine \cap tx[w].locked = {}
        BY <2>2 DEF TapeInv, TransactionsHold
    <3>2. tx[u].mine = tx[u].locked \ (Stored \cup names)
        BY <3>1, <1>3
    <3>3. QED
        BY <2>2, <3>2, <1>1, <1>2 DEF NoFrameTx, TapeInv, TransactionsHold
  <2>3. QED
      BY <2>1, <2>2
<1>9. tf' \subseteq [at : 0..MaxTime, names : SUBSET Digests] /\ tx' \in [Writers -> Transactions]
    BY <1>1, <1>2, TapeBounds
<1>10. QED
    BY <1>1, <1>6, <1>7, <1>8, <1>9 DEF TapeInv, TapeTypes, Transactions


\* Pruning frames lowers nothing that a kept frame names.
LEMMA CutTape ==
    ASSUME TapeInv, PruneFrames
    PROVE  TapeInv'
<1>1. PICK c \in 1..MaxTime :
          tf' = {f \in tf : f.at >= c} /\ pn' = [step |-> "payloads", cutoff |-> c, cut |-> Max({pn.cut, c}), left |-> {}]
    BY DEF PruneFrames
<1>2. UNCHANGED <<tp, tx>>
    BY DEF PruneFrames
<1>3. pn.cut \in Nat /\ c \in Nat
    BY <1>1, TapeBounds DEF TapeInv, TapeTypes
<1>4. Max({pn.cut, c}) \in Nat /\ Max({pn.cut, c}) >= pn.cut /\ Max({pn.cut, c}) >= c
  <2>1. \E x \in {pn.cut, c} : \A y \in {pn.cut, c} : x >= y
      BY <1>3
  <2>2. Max({pn.cut, c}) \in {pn.cut, c} /\ \A y \in {pn.cut, c} : Max({pn.cut, c}) >= y
      BY <2>1 DEF Max
  <2>3. QED
      BY <2>2, <1>3
<1>5. pn' \in Prunings /\ pn'.cutoff <= pn'.cut /\ pn'.cut >= pn.cut
    BY <1>1, <1>3, <1>4 DEF Prunings
<1>6. SeenLately'
  <2> SUFFICES ASSUME NEW f \in tf', f.at >= pn'.cut, NEW d \in f.names PROVE tp[d] # Gone /\ tp[d] + Slack >= f.at
      BY <1>2 DEF SeenLately, Gone
  <2>1. f \in tf /\ f.at \in Nat /\ f.at >= pn.cut
      BY <1>1, <1>3, <1>5, TapeBounds DEF TapeInv, TapeTypes, Prunings
  <2>2. QED
      BY <2>1 DEF TapeInv, SeenLately
<1>7. TransactionsHold' /\ tf' \subseteq tf
    BY <1>1, <1>2 DEF TapeInv, TransactionsHold, Stored, Gone
<1>8. QED
    BY <1>2, <1>5, <1>6, <1>7 DEF TapeInv, TapeTypes, Prunings, Gone

\* A payload goes only when no transaction holds it and no kept frame was
\* recorded within Slack of the last time it was seen.
LEMMA DropTape ==
    ASSUME TapeInv, PrunePayload
    PROVE  TapeInv'
<1>1. PICK d \in pn.left : /\ \A w \in Writers : d \notin tx[w].locked
                           /\ tp' = IF StaleFrame(d) THEN [tp EXCEPT ![d] = Gone] ELSE tp
                           /\ pn' = [pn EXCEPT !.left = @ \ {d}]
    BY DEF PrunePayload
<1>2. UNCHANGED <<tf, tx>> /\ pn' = [pn EXCEPT !.left = pn.left \ {d}]
    BY <1>1 DEF PrunePayload
<1>3. pn \in Prunings /\ d \in Digests /\ tp \in [Digests -> 0..MaxTime \cup {Gone}]
    BY <1>1 DEF TapeInv, TapeTypes, Prunings
<1>4. pn' \in Prunings /\ pn'.cutoff = pn.cutoff /\ pn'.cut = pn.cut
    BY <1>2, <1>3 DEF Prunings
<1>5. CASE ~StaleFrame(d)
    BY <1>1, <1>2, <1>4, <1>5 DEF TapeInv, TapeTypes, SeenLately, TransactionsHold, Stored, Prunings, Gone
<1>6. CASE StaleFrame(d)
  <2>1. tp' = [tp EXCEPT ![d] = Gone]
      BY <1>1, <1>6
  <2>2. tp' \in [Digests -> 0..MaxTime \cup {Gone}] /\ (\A e \in Digests \ {d} : tp'[e] = tp[e]) /\ Stored' = Stored \ {d}
      BY <1>3, <2>1 DEF Stored, Gone
  <2>3. \A f \in tf : f.at >= pn.cut => d \notin f.names
    <3> SUFFICES ASSUME NEW f \in tf, f.at >= pn.cut, d \in f.names PROVE FALSE
        OBVIOUS
    <3>1. tp[d] # Gone /\ tp[d] + Slack >= f.at /\ f.at \in Nat /\ pn.cutoff <= pn.cut /\ pn.cut \in Nat /\ pn.cutoff \in Nat
        BY TapeBounds, <1>3 DEF TapeInv, TapeTypes, SeenLately, Prunings
    <3>2. tp[d] + Slack < pn.cutoff /\ tp[d] \in Nat
        BY <1>6, <1>3, TapeBounds DEF StaleFrame
    <3>3. QED
        BY <3>1, <3>2, TapeBounds
  <2>4. SeenLately'
    <3> SUFFICES ASSUME NEW f \in tf, f.at >= pn.cut, NEW e \in f.names PROVE tp'[e] # Gone /\ tp'[e] + Slack >= f.at
        BY <1>2, <1>4 DEF SeenLately, Gone
    <3>1. e \in Digests \ {d}
        BY <2>3 DEF TapeInv, TapeTypes
    <3>2. QED
        BY <2>2, <3>1 DEF TapeInv, SeenLately
  <2>5. TransactionsHold'
    <3> SUFFICES ASSUME NEW u \in Writers
                 PROVE  /\ tx[u].locked \subseteq tx[u].names /\ tx[u].mine = tx[u].locked \ (Stored \ {d})
                        /\ IF tx[u].step = "touch" THEN tx[u].locked = tx[u].names ELSE tx[u].mine = {}
                        /\ \A v \in Writers \ {u} : tx[v].mine \cap tx[u].locked = {}
        BY <1>2, <2>2 DEF TransactionsHold
    <3>1. QED
        BY <1>1 DEF TapeInv, TransactionsHold
  <2>6. QED
      BY <1>2, <1>4, <2>2, <2>4, <2>5 DEF TapeInv, TapeTypes, Prunings, Gone
<1>7. QED
    BY <1>5, <1>6

\* The inductive invariant of recording beside pruning: what a frame names was
\* seen at most Slack before it, and a transaction holds what it names.
THEOREM TapeInvHolds == TapeSpec => []TapeInv
<1>1. TapeInit => TapeInv
    BY TapeBounds DEF TapeInit, TapeInv, TapeTypes, SeenLately, TransactionsHold, NoFrameTx, Stored
<1>2. TapeInv /\ [TapeNext]_tvars => TapeInv'
  <2> SUFFICES ASSUME TapeInv, [TapeNext]_tvars PROVE TapeInv'
      OBVIOUS
  <2>1. CASE UNCHANGED tvars
      BY <2>1 DEF tvars, TapeInv, TapeTypes, SeenLately, TransactionsHold, Stored, Gone
  <2>2. ASSUME NEW w \in Writers, BeginFrame(w) \/ InsertPayloads(w) \/ CommitFrame(w) PROVE TapeInv'
      BY <2>2, BeginTape, InsertTape, CommitTape
  <2>3. ASSUME NEW w \in Writers, AbortFrame(w) PROVE TapeInv'
    <3>1. tx' = [tx EXCEPT ![w] = NoFrameTx] /\ UNCHANGED <<tf, tp, pn>>
        BY <2>3 DEF AbortFrame
    <3>2. tx \in [Writers -> Transactions] /\ tx' \in [Writers -> Transactions]
        BY <3>1, TapeBounds DEF TapeInv, TapeTypes, Transactions
    <3>3. TransactionsHold'
        BY <3>1, <3>2 DEF TapeInv, TransactionsHold, NoFrameTx, Stored, Gone
    <3>4. QED
        BY <3>1, <3>2, <3>3 DEF TapeInv, TapeTypes, SeenLately, Transactions, Gone
  <2>4. CASE PruneFrames \/ PrunePayload
      BY <2>4, CutTape, DropTape
  <2>5. CASE PruneCandidates \/ PruneEnds
    <3>1. pn' \in Prunings /\ pn'.cut = pn.cut /\ pn'.cutoff = pn.cutoff /\ UNCHANGED <<tf, tp, tx>>
      <4>1. pn \in Prunings
          BY DEF TapeInv, TapeTypes, Prunings
      <4>2. CASE PruneCandidates
          BY <4>1, <4>2 DEF PruneCandidates, Prunings
      <4>3. CASE PruneEnds
          BY <4>1, <4>3 DEF PruneEnds, Prunings
      <4>4. QED
          BY <2>5, <4>2, <4>3
    <3>2. QED
        BY <3>1 DEF TapeInv, TapeTypes, SeenLately, TransactionsHold, Stored, Prunings, Gone
  <2>6. QED
      BY <2>1, <2>2, <2>3, <2>4, <2>5 DEF TapeNext
<1>3. QED
    BY <1>1, <1>2, PTL DEF TapeSpec

\* Every payload a kept frame names is stored, although two writers record
\* frames while pruning deletes payloads.
THEOREM TapeWholeHolds == TapeSpec => []TapeWhole
<1>1. TapeInv => TapeWhole
    BY DEF TapeInv, TapeTypes, SeenLately, TapeWhole, Stored
<1>2. QED
    BY <1>1, TapeInvHolds, PTL


-----------------------------------------------------------------------------
(* Futures *)

Records == [w : Views \cup {NoAct}, gone : SUBSET Leg, ev : SUBSET Leg]
Missions == [act : Action \cup {NoAct}, hold : [base : Nat, target : Nat] \cup {NoAct}, change : Change \cup {NoAct},
             exits : [Cohort -> Nat], latch : SUBSET (Leg \X ({"open", "taken"} \cup Standing))]
Keys1 == [Cohort -> [key : 1..MaxKeys, st : {"none", "pending", "neversent", "terms", "throttled", "closed"}]]

\* What is known of a contract stays known.
Grown ==
    /\ rows' \in [Leg -> IntentRow]
    /\ \A l \in Leg : RowKnown(rows'[l]) /\ (rows[l].fid => rows'[l].fid)

LEMMA FuturesTyped ==
    ASSUME FuturesInv
    PROVE  /\ fw \in World /\ fcap \in Records /\ rows \in [Leg -> IntentRow] /\ fj \in Keys1 /\ fm \in Missions
           /\ (fm.act # NoAct => fm.act \in Action)
           /\ (fcap.w # NoAct => fcap.w \in Views)
BY DEF FuturesInv, FuturesTypes, FuturesTypeOK, Records, Missions, Keys1

LEMMA LegsTyped ==
    /\ \A c \in Cohort : LegsOf(c) \subseteq Leg /\ (\A l \in LegsOf(c) : CohortOf(l) = c)
    /\ \A l \in Leg : CohortOf(l) \in Cohort /\ l \in LegsOf(CohortOf(l))
BY DEF LegsOf, CohortOf, Cohort, Leg

\* One row after the list, a rejection or a receipt.
LEMMA ObservedRow ==
    ASSUME NEW row \in IntentRow, RowKnown(row), NEW status \in Standing
    PROVE  /\ ObserveFuturesContract(row, status) \in IntentRow
           /\ RowKnown(ObserveFuturesContract(row, status)) /\ ObserveFuturesContract(row, status).fid
<1>1. CASE row.status \in Terminal \ {"rejected"} /\ row.status # status
    BY <1>1 DEF ObserveFuturesContract, RowKnown, Terminal
<1>2. CASE ~(row.status \in Terminal \ {"rejected"} /\ row.status # status)
  <2>1. PICK s \in {"active", "settled", "defaulted"} :
            ObserveFuturesContract(row, status) = [row EXCEPT !.fid = TRUE, !.status = s]
      BY <1>2 DEF ObserveFuturesContract, Standing
  <2> DEFINE new == [row EXCEPT !.fid = TRUE, !.status = s]
  <2>2. new \in IntentRow
      BY DEF IntentRow, Terminal
  <2>3. new.status = s
      BY DEF IntentRow
  <2>4. new.fid
      BY DEF IntentRow
  <2>5. QED
      BY <2>1, <2>2, <2>3, <2>4 DEF RowKnown
<1>3. QED
    BY <1>1, <1>2

LEMMA ReceiptRow ==
    ASSUME fw \in World, NEW l \in Ended
    PROVE  Receipt(fw, l) \in IntentRow /\ RowKnown(Receipt(fw, l)) /\ Receipt(fw, l).fid
<1>1. fw.list[l] \in {"settled", "defaulted"} /\ l \in Leg
    BY DEF Ended
<1>2. PICK s \in {"settled", "defaulted"} : s = fw.list[l]
    BY <1>1
<1>3. PICK t \in 0..1 : t = fw.tons[l]
    BY <1>1 DEF World
<1>4. PICK k \in 0..1 : k = IF fw.list[l] = "defaulted" /\ l \in fw.owed THEN 1 ELSE 0
    OBVIOUS
<1>5. Receipt(fw, l) = [status |-> s, fid |-> TRUE, rec |-> TRUE, tons |-> t, claim |-> k]
    BY <1>2, <1>3, <1>4 DEF Receipt
<1>6. QED
    BY <1>2, <1>5 DEF IntentRow, RowKnown, Terminal

LEMMA RejectedRow ==
    ASSUME NEW row \in IntentRow, NEW s \in {"rejected", "intent"}, s = "intent" => ~row.fid
    PROVE  /\ [row EXCEPT !.status = s] \in IntentRow /\ RowKnown([row EXCEPT !.status = s])
           /\ [row EXCEPT !.status = s].fid = row.fid
<1>1. [row EXCEPT !.status = s] = [status |-> s, fid |-> row.fid, rec |-> row.rec, tons |-> row.tons, claim |-> row.claim]
    BY DEF IntentRow
<1>2. row.fid \in BOOLEAN /\ row.rec \in BOOLEAN /\ row.tons \in 0..1 /\ row.claim \in 0..1
    BY DEF IntentRow
<1>3. QED
    BY <1>1, <1>2 DEF IntentRow, RowKnown, Terminal

\* The rows after a refusal, and after an intent is found unsent.
LEMMA RejectedGrown ==
    ASSUME FuturesInv, NEW c \in Cohort
    PROVE  /\ rows' = Rejected(c) => Grown
           /\ rows' = [l \in Leg |-> IF l \in LegsOf(c) THEN RejectUnsent(l) ELSE rows[l]] => Grown
           /\ \A l \in Leg : rows' = [rows EXCEPT ![l] = RejectUnsent(l)] => Grown
           /\ UNCHANGED rows => Grown
<1>1. rows \in [Leg -> IntentRow] /\ \A l \in Leg : rows[l] \in IntentRow /\ RowKnown(rows[l])
    BY FuturesTyped DEF FuturesInv
<1>2. \A l \in Leg : /\ [rows[l] EXCEPT !.status = "rejected"] \in IntentRow
                     /\ RowKnown([rows[l] EXCEPT !.status = "rejected"])
                     /\ [rows[l] EXCEPT !.status = "rejected"].fid = rows[l].fid
    BY <1>1, RejectedRow
<1>3. \A l \in Leg : RejectUnsent(l) \in IntentRow /\ RowKnown(RejectUnsent(l)) /\ (rows[l].fid => RejectUnsent(l).fid)
    BY <1>1, <1>2 DEF RejectUnsent
<1>4. rows' = Rejected(c) => Grown
    BY <1>1, <1>2 DEF Rejected, Grown
<1>5. rows' = [l \in Leg |-> IF l \in LegsOf(c) THEN RejectUnsent(l) ELSE rows[l]] => Grown
    BY <1>1, <1>3 DEF Grown
<1>6. \A l \in Leg : rows' = [rows EXCEPT ![l] = RejectUnsent(l)] => Grown
    BY <1>1, <1>3 DEF Grown
<1>7. UNCHANGED rows => Grown
    BY <1>1 DEF Grown
<1>8. QED
    BY <1>4, <1>5, <1>6, <1>7

-----------------------------------------------------------------------------
\* What the server does by itself ends contracts and takes none of ours.
LEMMA ServerFutures ==
    ASSUME FuturesInv, fw' \in World, UNCHANGED <<fcap, rows, fj, fm>>, Ended \subseteq Ended',
           \A l \in Leg : fw'.list[l] \in Standing <=> fw.list[l] \in Standing
    PROVE  FuturesInv'
<1>1. FuturesTypes'
    BY DEF FuturesInv, FuturesTypes, FuturesTypeOK
<1>2. RequestShape'
    BY DEF FuturesInv, RequestShape, Acting
<1>3. AcceptedWhole'
  <2>1. \A l \in Leg : Mine(l)' <=> Mine(l)
      BY DEF Mine
  <2>2. Acting("accept") => fm.act.c \in Cohort
      BY FuturesTyped DEF Acting, Action
  <2>3. QED
      BY <2>1, <2>2, LegsTyped DEF FuturesInv, AcceptedWhole, Acting
<1>4. NoForgottenContract'
    BY DEF FuturesInv, NoForgottenContract, Standing
<1>5. QED
    BY <1>1, <1>2, <1>3, <1>4 DEF FuturesInv, ProofAfterGrace, Acting

LEMMA SettlementWorld ==
    ASSUME fw \in World, NEW l \in Leg, fw.list[l] = "ours", NEW w \in Settlement(fw, l)
    PROVE  /\ w \in World
           /\ \E s \in {"settled", "defaulted"} : w.list = [fw.list EXCEPT ![l] = s]
<1>1. /\ fw.list \in [Leg -> {"open", "taken"} \cup Standing] /\ fw.mature \in SUBSET Leg /\ fw.stock \in Nat
      /\ fw.leased \in Nat /\ fw.tons \in [Leg -> 0..1] /\ fw.owed \in SUBSET Leg /\ fw.may \in Nat /\ fw.spoiled \in Nat
    BY DEF World
<1>2. /\ [fw.list EXCEPT ![l] = "settled"] \in [Leg -> {"open", "taken"} \cup Standing]
      /\ [fw.list EXCEPT ![l] = "defaulted"] \in [Leg -> {"open", "taken"} \cup Standing]
      /\ [fw.tons EXCEPT ![l] = 1] \in [Leg -> 0..1] /\ fw.owed \cup {l} \in SUBSET Leg
    BY <1>1 DEF Standing
<1>3. ASSUME NEW n \in Nat, w = [fw EXCEPT !.list = [fw.list EXCEPT ![l] = "settled"],
                                         !.tons = [fw.tons EXCEPT ![l] = 1], !.stock = n]
      PROVE  w \in World /\ w.list = [fw.list EXCEPT ![l] = "settled"]
    BY <1>1, <1>2, <1>3 DEF World
<1>4. ASSUME NEW o \in SUBSET Leg, w = [fw EXCEPT !.list = [fw.list EXCEPT ![l] = "defaulted"], !.owed = o]
      PROVE  w \in World /\ w.list = [fw.list EXCEPT ![l] = "defaulted"]
    BY <1>1, <1>2, <1>4 DEF World
<1>5. CASE w = [fw EXCEPT !.list[l] = "settled", !.tons[l] = 1, !.stock = @ - 1] /\ fw.stock > 0
  <2>1. fw.stock - 1 \in Nat
      BY <1>1, <1>5
  <2>2. w = [fw EXCEPT !.list = [fw.list EXCEPT ![l] = "settled"], !.tons = [fw.tons EXCEPT ![l] = 1],
                       !.stock = fw.stock - 1]
      BY <1>5
  <2>3. QED
      BY <1>3, <2>1, <2>2
<1>6. CASE w = [fw EXCEPT !.list[l] = "settled", !.tons[l] = 1, !.stock = @ + 1]
  <2>1. fw.stock + 1 \in Nat
      BY <1>1
  <2>2. w = [fw EXCEPT !.list = [fw.list EXCEPT ![l] = "settled"], !.tons = [fw.tons EXCEPT ![l] = 1],
                       !.stock = fw.stock + 1]
      BY <1>6
  <2>3. QED
      BY <1>3, <2>1, <2>2
<1>7. CASE w = [fw EXCEPT !.list[l] = "defaulted"]
  <2>2. w = [fw EXCEPT !.list = [fw.list EXCEPT ![l] = "defaulted"], !.owed = fw.owed]
      BY <1>7 DEF World
  <2>3. QED
      BY <1>1, <1>4, <2>2
<1>8. CASE w = [fw EXCEPT !.list[l] = "defaulted", !.owed = @ \cup {l}]
  <2>2. w = [fw EXCEPT !.list = [fw.list EXCEPT ![l] = "defaulted"], !.owed = fw.owed \cup {l}]
      BY <1>8
  <2>3. QED
      BY <1>2, <1>4, <2>2
<1>9. QED
    BY <1>5, <1>6, <1>7, <1>8 DEF Settlement

LEMMA ServerStep ==
    ASSUME FuturesInv,
           (\E l \in Leg : Taken(l) \/ Matures(l) \/ CounterpartySettles(l) \/ ClaimPaid(l)) \/ Spoils
    PROVE  FuturesInv'
<1>0. fw \in World
    BY FuturesTyped
<1>1. ASSUME NEW l \in Leg, Taken(l) PROVE FuturesInv'
  <2>1. fw' = [fw EXCEPT !.list = [@ EXCEPT ![l] = "taken"]] /\ fw.list[l] = "open" /\ UNCHANGED <<fcap, rows, fj, fm>>
      BY <1>1 DEF Taken
  <2>2. [fw.list EXCEPT ![l] = "taken"] \in [Leg -> {"open", "taken"} \cup Standing]
      BY <1>0 DEF World
  <2>3. fw' \in World /\ fw'.list = [fw.list EXCEPT ![l] = "taken"]
      BY <1>0, <2>1, <2>2 DEF World
  <2>4. Ended \subseteq Ended' /\ \A k \in Leg : fw'.list[k] \in Standing <=> fw.list[k] \in Standing
      BY <1>0, <2>1, <2>3 DEF Ended, World, Standing
  <2>5. QED
      BY <2>1, <2>3, <2>4, ServerFutures
<1>2. ASSUME NEW l \in Leg, CounterpartySettles(l) PROVE FuturesInv'
  <2>1. fw' \in Settlement(fw, l) /\ fw.list[l] = "ours" /\ UNCHANGED <<fcap, rows, fj, fm>>
      BY <1>2 DEF CounterpartySettles
  <2>2. PICK w \in Settlement(fw, l) : fw' = w
      BY <2>1
  <2>3. PICK s \in {"settled", "defaulted"} : fw'.list = [fw.list EXCEPT ![l] = s]
      BY <1>0, <2>1, <2>2, SettlementWorld
  <2>4. fw' \in World
      BY <1>0, <2>1, <2>2, SettlementWorld
  <2>5. Ended \subseteq Ended' /\ \A k \in Leg : fw'.list[k] \in Standing <=> fw.list[k] \in Standing
      BY <1>0, <2>1, <2>3 DEF Ended, World, Standing
  <2>6. QED
      BY <2>1, <2>4, <2>5, ServerFutures
<1>3. ASSUME NEW l \in Leg, Matures(l) \/ ClaimPaid(l) PROVE FuturesInv'
  <2>1. /\ fw' = [fw EXCEPT !.mature = fw.mature \cup {l}] \/ fw' = [fw EXCEPT !.owed = fw.owed \ {l}]
        /\ UNCHANGED <<fcap, rows, fj, fm>>
      BY <1>3 DEF Matures, ClaimPaid
  <2>2. fw' \in World /\ fw'.list = fw.list
      BY <1>0, <2>1 DEF World
  <2>3. QED
      BY <2>1, <2>2, ServerFutures DEF Ended
<1>4. CASE Spoils
  <2>1. /\ fw' = [fw EXCEPT !.stock = fw.stock - 1, !.spoiled = fw.spoiled + 1] /\ fw.stock > 0
        /\ UNCHANGED <<fcap, rows, fj, fm>>
      BY <1>4 DEF Spoils
  <2>2. fw.stock - 1 \in Nat /\ fw.spoiled + 1 \in Nat
      BY <1>0, <2>1 DEF World
  <2>3. fw' \in World /\ fw'.list = fw.list
      BY <1>0, <2>1, <2>2 DEF World
  <2>4. QED
      BY <2>1, <2>3, ServerFutures DEF Ended
<1>5. QED
    BY <1>1, <1>2, <1>3, <1>4

-----------------------------------------------------------------------------
LEMMA RowsFutures ==
    ASSUME FuturesInv, Grown, UNCHANGED <<fw, fcap, fj, fm>>
    PROVE  FuturesInv'
<1>1. FuturesTypes'
    BY DEF FuturesInv, FuturesTypes, FuturesTypeOK, Grown
<1>2. RequestShape' /\ AcceptedWhole' /\ ProofAfterGrace' /\ (fcap.ev \subseteq Ended)'
    BY DEF FuturesInv, RequestShape, AcceptedWhole, ProofAfterGrace, Acting, Mine, Ended
<1>3. NoForgottenContract'
    BY DEF FuturesInv, NoForgottenContract, Grown
<1>4. QED
    BY <1>1, <1>2, <1>3 DEF FuturesInv, Grown

\* The list, the ledger and the events only add to what the rows know.
LEMMA ContractRow ==
    ASSUME FuturesInv, NEW c, c.w.list = fw.list, c.ev \subseteq Ended, NEW l \in Leg
    PROVE  /\ ContractObserved(c, l) \in IntentRow /\ RowKnown(ContractObserved(c, l))
           /\ rows[l].fid => ContractObserved(c, l).fid
<1>1. rows[l] \in IntentRow /\ RowKnown(rows[l]) /\ fw \in World
    BY FuturesTyped DEF FuturesInv
<1> DEFINE seen == IF rows[l].status # "none" /\ l \notin c.gone /\ c.w.list[l] \in Standing
                   THEN ObserveFuturesContract(rows[l], c.w.list[l]) ELSE rows[l]
<1>2. seen \in IntentRow /\ RowKnown(seen) /\ (rows[l].fid => seen.fid)
    BY <1>1, ObservedRow
<1>3. ContractObserved(c, l) = seen \/ (l \in Ended /\ ContractObserved(c, l) = Receipt(fw, l))
    BY DEF ContractObserved, Standing
<1>4. QED
    BY <1>1, <1>2, <1>3, ReceiptRow

LEMMA ObserveStep ==
    ASSUME FuturesInv, ObserveFutures
    PROVE  FuturesInv'
<1>1. PICK c \in {[w |-> View, gone |-> {}, ev |-> fcap.ev], [w |-> View, gone |-> Ended, ev |-> Ended]} :
          fcap' = c /\ rows' = [l \in Leg |-> ContractObserved(c, l)]
    BY DEF ObserveFutures
<1>2. fm' = [fm EXCEPT !.latch = {x \in @ : x[2] = fw.list[x[1]]}] /\ UNCHANGED <<fw, fj>>
    BY DEF ObserveFutures
<1>3. fw \in World /\ fcap \in Records /\ fm \in Missions /\ fcap.ev \subseteq Ended
    BY FuturesTyped DEF FuturesInv
<1>4. View \in Views /\ View.list = fw.list
    BY <1>3 DEF View, Views, World
<1>5. c \in Records /\ c.w = View /\ c.ev \subseteq Ended
    BY <1>1, <1>3, <1>4 DEF Records, Ended
<1>6. Grown
    BY <1>1, <1>4, <1>5, ContractRow DEF Grown
<1>7. fm' \in Missions /\ fm'.act = fm.act /\ fm'.change = fm.change
    BY <1>2, <1>3 DEF Missions
<1>8. FuturesTypes'
    BY <1>1, <1>2, <1>5, <1>6, <1>7 DEF FuturesInv, FuturesTypes, FuturesTypeOK, Grown, Records, Missions
<1>9. RequestShape' /\ AcceptedWhole' /\ (fcap.ev \subseteq Ended)'
    BY <1>1, <1>2, <1>5, <1>7 DEF FuturesInv, RequestShape, AcceptedWhole, Acting, Mine, Ended
<1>10. ProofAfterGrace'
  <2> SUFFICES ASSUME Acting("accept"), fm.act.st \in {"unknown", "garbled"}, fm.act.after = "passed"
               PROVE  ~fm.act.wire /\ (fm.act.done => \A l \in LegsOf(fm.act.c) : View.list[l] \in Standing)
      BY <1>1, <1>5, <1>7 DEF ProofAfterGrace, Acting
  <2>1. ~fm.act.wire
      BY DEF FuturesInv, ProofAfterGrace
  <2>2. fm.act.done => \A l \in LegsOf(fm.act.c) : fw.list[l] \in Standing
      BY DEF FuturesInv, AcceptedWhole, Mine
  <2>3. QED
      BY <2>1, <2>2, <1>4
<1>11. NoForgottenContract'
    BY <1>2, <1>6, <1>7 DEF FuturesInv, NoForgottenContract, Grown
<1>12. QED
    BY <1>6, <1>8, <1>9, <1>10, <1>11 DEF FuturesInv, Grown

-----------------------------------------------------------------------------
\* A request is staged while there is none; an admission, when a leg of its
\* cohort is an intent whose contract is not known.
LEMMA StageFutures ==
    ASSUME FuturesInv, fm.act = NoAct, UNCHANGED <<fw, fcap, rows, fj>>, fm' \in Missions, fm'.act \in Action,
           fm'.act.st = "staged", fm'.act.after = "no", ~fm'.act.done, ~fm'.act.wire,
           fm'.act.stage = "settle" => fm'.act.leg \in Leg,
           fm'.act.stage \in {"resize", "release"} => fm'.change # NoAct,
           fm'.act.stage = "accept" => \E k \in LegsOf(fm'.act.c) : ~rows[k].fid
    PROVE  FuturesInv'
<1>2. fm'.act # NoAct
    BY FuturesNone
<1>4. FuturesTypes'
    BY DEF FuturesInv, FuturesTypes, FuturesTypeOK, Missions
<1>5. RequestShape'
    BY <1>2 DEF RequestShape, Acting, Ended
<1>6. AcceptedWhole'
  <2>1. \A d \in Cohort : (\A k \in LegsOf(d) : Mine(k)') \/ (\A k \in LegsOf(d) : ~Mine(k)')
      BY DEF FuturesInv, AcceptedWhole, Mine
  <2>2. fm'.act.stage = "accept" => \A k \in LegsOf(fm'.act.c) : ~Mine(k)'
    <3> SUFFICES ASSUME fm'.act.stage = "accept" PROVE \A k \in LegsOf(fm'.act.c) : ~Mine(k)'
        OBVIOUS
    <3>1. PICK k \in LegsOf(fm'.act.c) : ~rows[k].fid
        OBVIOUS
    <3>2. fm'.act.c \in Cohort /\ k \in Leg
        BY <3>1, LegsTyped DEF Action
    <3>3. ~Mine(k)
        BY <3>1, <3>2 DEF FuturesInv, NoForgottenContract, Mine, Standing
    <3>4. QED
        BY <2>1, <3>1, <3>2, <3>3 DEF Mine
  <2>3. QED
      BY <2>1, <2>2 DEF AcceptedWhole, Acting
<1>7. ProofAfterGrace'
    BY <1>2 DEF ProofAfterGrace
<1>8. NoForgottenContract'
    BY DEF FuturesInv, NoForgottenContract
<1>9. QED
    BY <1>4, <1>5, <1>6, <1>7, <1>8 DEF FuturesInv, Ended

LEMMA FreshAct ==
    ASSUME FuturesInv, fcap.w # NoAct, NEW stage \in {"accept", "settle", "stock", "resize", "release"},
           NEW c \in Cohort, NEW l \in Leg \cup {NoAct}
    PROVE  LET a == NewFAct(stage, c, l)
           IN  a \in Action /\ a.stage = stage /\ a.c = c /\ a.leg = l /\ a.st = "staged" /\ a.after = "no"
               /\ ~a.done /\ ~a.wire
<1>1. PICK n \in Nat : n = IF stage = "stock" THEN fcap.w.stock ELSE 0
    BY FuturesTyped DEF Views
<1>2. QED
    BY <1>1 DEF NewFAct, Action

\* What a lease has to cover is a number.
LEMMA LeaseTyped ==
    ASSUME FuturesInv, fcap.w # NoAct
    PROVE  /\ fcap.w.leased \in Nat /\ fcap.w.stock \in Nat /\ ReceivingReserved \in Nat
           /\ (fm.hold # NoAct => BaseTons \in Nat) /\ BaseTons \in Nat /\ LeaseFloor \in Nat
<1>1. fcap.w.leased \in Nat /\ fcap.w.stock \in Nat /\ (fm.hold # NoAct => fm.hold \in [base : Nat, target : Nat])
    BY FuturesTyped DEF Views, Missions
<1>2. ReceivingReserved \in Nat
    BY DEF ReceivingReserved
<1>3. BaseTons \in Nat
    BY <1>1 DEF BaseTons
<1>4. LeaseFloor \in Nat
    BY <1>1, <1>2, <1>3 DEF LeaseFloor
<1>5. QED
    BY <1>1, <1>2, <1>3, <1>4

LEMMA StageStep ==
    ASSUME FuturesInv,
           \/ \E l \in Leg : StageSettle(l) \/ ExpireIntent(l)
           \/ \E c \in Cohort : CloseSurplus(c) \/ Admit(c) \/ StageCapacity(c)
           \/ ReleaseLease
    PROVE  FuturesInv'
<1>0. /\ fm \in Missions /\ rows \in [Leg -> IntentRow]
      /\ \A a \in Action : [fm EXCEPT !.act = a] \in Missions /\ [fm EXCEPT !.act = a].act = a
      /\ \A a \in Action, ch \in Change : /\ [fm EXCEPT !.act = a, !.change = ch] \in Missions
                                          /\ [fm EXCEPT !.act = a, !.change = ch].act = a
                                          /\ [fm EXCEPT !.act = a, !.change = ch].change = ch
    BY FuturesTyped DEF Missions
<1>1. ASSUME NEW l \in Leg, StageSettle(l) PROVE FuturesInv'
  <2> DEFINE a == NewFAct("settle", CohortOf(l), l)
  <2>1. fm' = [fm EXCEPT !.act = a] /\ fm.act = NoAct /\ fcap.w # NoAct /\ UNCHANGED <<fw, fcap, rows, fj>>
      BY <1>1 DEF StageSettle, IdleF, Pass
  <2>2. /\ a \in Action /\ a.stage = "settle" /\ a.leg = l /\ a.st = "staged" /\ a.after = "no" /\ ~a.done /\ ~a.wire
      BY <2>1, LegsTyped, FreshAct
  <2> HIDE DEF a
  <2>3. QED
      BY <1>0, <2>1, <2>2, StageFutures
<1>2. ASSUME NEW l \in Leg, ExpireIntent(l) PROVE FuturesInv'
    BY <1>2, LegsTyped, RejectedGrown, RowsFutures DEF ExpireIntent
<1>3. ASSUME NEW c \in Cohort, CloseSurplus(c) PROVE FuturesInv'
  <2> DEFINE a == NewFAct("stock", c, NoAct)
  <2>1. fm' = [fm EXCEPT !.act = a] /\ fm.act = NoAct /\ fcap.w # NoAct /\ UNCHANGED <<fw, fcap, rows, fj>>
      BY <1>3 DEF CloseSurplus, IdleF, Pass
  <2>2. /\ a \in Action /\ a.stage = "stock" /\ a.st = "staged" /\ a.after = "no" /\ ~a.done /\ ~a.wire
      BY <2>1, FreshAct
  <2> HIDE DEF a
  <2>3. QED
      BY <1>0, <2>1, <2>2, StageFutures
<1>4. ASSUME NEW c \in Cohort, Admit(c) PROVE FuturesInv'
  <2>1. rows' = Reserved(c) /\ UNCHANGED <<fw, fcap, fj, fm>> /\ \A l \in LegsOf(c) : rows[l].status = "none"
      BY <1>4 DEF Admit, CrossAdmits, ListingAdmits, Candidate, LegsOf, Cohort
  <2>2. \A l \in Leg : l \in LegsOf(c) => rows[l] \in IntentRow /\ RowKnown(rows[l]) /\ ~rows[l].fid
      BY <1>0, <2>1 DEF FuturesInv, RowKnown
  <2>3. \A l \in Leg : l \in LegsOf(c) => /\ [rows[l] EXCEPT !.status = "intent"] \in IntentRow
                                          /\ RowKnown([rows[l] EXCEPT !.status = "intent"])
      BY <2>2, RejectedRow
  <2>4. Grown
      BY <1>0, <2>1, <2>2, <2>3 DEF Grown, Reserved, FuturesInv
  <2>5. QED
      BY <2>1, <2>4, RowsFutures
<1>5. ASSUME NEW c \in Cohort, StageCapacity(c) PROVE FuturesInv'
  <2>1. PICK l \in LegsOf(c) : rows[l].status = "intent"
      BY <1>5 DEF StageCapacity
  <2>2. ~rows[l].fid /\ fm.act = NoAct /\ fcap.w # NoAct
      BY <1>5, <2>1, LegsTyped DEF StageCapacity, IdleF, Pass, FuturesInv, RowKnown
  <2>3. CASE fm' = [fm EXCEPT !.act = NewFAct("accept", c, NoAct)] /\ UNCHANGED <<fw, fcap, rows, fj>>
    <3> DEFINE a == NewFAct("accept", c, NoAct)
    <3>1. /\ a \in Action /\ a.stage = "accept" /\ a.c = c /\ a.st = "staged" /\ a.after = "no" /\ ~a.done /\ ~a.wire
        BY <2>2, FreshAct
    <3> HIDE DEF a
    <3>2. fm' \in Missions /\ fm'.act = a
        BY <1>0, <2>3, <3>1 DEF a
    <3>3. QED
        BY <2>1, <2>2, <2>3, <3>1, <3>2, StageFutures
  <2>4. ASSUME NEW ch \in Change, fm' = [fm EXCEPT !.act = NewFAct("resize", c, NoAct), !.change = ch],
               UNCHANGED <<fw, fcap, rows, fj>>
        PROVE  FuturesInv'
    <3> DEFINE a == NewFAct("resize", c, NoAct)
    <3>1. /\ a \in Action /\ a.stage = "resize" /\ a.st = "staged" /\ a.after = "no" /\ ~a.done /\ ~a.wire
        BY <2>2, FreshAct
    <3>0. fm' = [fm EXCEPT !.act = a, !.change = ch] /\ ch # NoAct
        BY <2>4, FuturesNone
    <3> HIDE DEF a
    <3>2. fm' \in Missions /\ fm'.act = a /\ fm'.change = ch
        BY <1>0, <3>0, <3>1
    <3>3. QED
        BY <2>2, <2>4, <3>0, <3>1, <3>2, StageFutures
  <2>5. [before |-> fcap.w.leased, target |-> fcap.w.stock + ReceivingReserved,
         base |-> IF fm.hold = NoAct THEN fcap.w.leased ELSE BaseTons] \in Change
      BY <2>2, LeaseTyped DEF Change
  <2>6. CASE rows' = [k \in Leg |-> IF k \in LegsOf(c) THEN RejectUnsent(k) ELSE rows[k]] /\ UNCHANGED <<fw, fcap, fj, fm>>
      BY <2>6, RejectedGrown, RowsFutures
  <2>7. QED
      BY <1>5, <2>3, <2>4, <2>5, <2>6 DEF StageCapacity
<1>6. CASE ReleaseLease
  <2>1. fm.act = NoAct /\ fcap.w # NoAct /\ UNCHANGED <<fw, fcap, rows, fj>>
      BY <1>6 DEF ReleaseLease, IdleF, Pass
  <2>2. CASE fm' = [fm EXCEPT !.change = NoAct]
    <3>1. fm' \in Missions /\ fm'.act = NoAct
        BY <1>0, <2>1, <2>2 DEF Missions
    <3>2. FuturesTypes'
        BY <2>1, <3>1 DEF FuturesInv, FuturesTypes, FuturesTypeOK, Missions
    <3>3. QED
        BY <2>1, <3>1, <3>2 DEF FuturesInv, RequestShape, AcceptedWhole, ProofAfterGrace, Acting, NoForgottenContract, Mine,
                                Ended
  <2>3. ASSUME NEW ch \in Change, fm' = [fm EXCEPT !.act = NewFAct("release", 1, NoAct), !.change = ch]
        PROVE  FuturesInv'
    <3> DEFINE a == NewFAct("release", 1, NoAct)
    <3>1. /\ a \in Action /\ a.stage = "release" /\ a.st = "staged" /\ a.after = "no" /\ ~a.done /\ ~a.wire
        BY <2>1, FreshAct DEF Cohort
    <3>0. fm' = [fm EXCEPT !.act = a, !.change = ch] /\ ch # NoAct
        BY <2>3, FuturesNone
    <3> HIDE DEF a
    <3>2. fm' \in Missions /\ fm'.act = a /\ fm'.change = ch
        BY <1>0, <3>0, <3>1
    <3>3. QED
        BY <2>1, <2>3, <3>0, <3>1, <3>2, StageFutures
  <2>4. [before |-> fcap.w.leased, target |-> LeaseFloor, base |-> BaseTons] \in Change
      BY <2>1, LeaseTyped DEF Change
  <2>5. QED
      BY <1>6, <2>2, <2>3, <2>4 DEF ReleaseLease
<1>7. QED
    BY <1>1, <1>2, <1>3, <1>4, <1>5, <1>6

-----------------------------------------------------------------------------
\* The request waits, is sent, is answered or is found unanswered.
LEMMA ActGoesOn ==
    ASSUME FuturesInv, fm.act # NoAct, fm' \in Missions, fm'.act \in Action, fj' \in Keys1, UNCHANGED <<fw, rows>>,
           fcap' \in Records, fcap'.ev = fcap.ev, fm'.change = fm.change,
           fm'.act.stage = fm.act.stage, fm'.act.c = fm.act.c, fm'.act.leg = fm.act.leg,
           fm'.act.done <=> fm.act.done,
           fm'.act.st \in {"staged", "refused", "throttled"} => ~fm.act.done /\ ~fm'.act.wire,
           fm.act.stage = "settle" /\ fm'.act.st = "receipt" => fm.act.leg \in Ended,
           fm.act.stage = "accept" /\ fm'.act.st \in {"unknown", "garbled"} /\ fm'.act.after = "passed" =>
              ~fm'.act.wire /\ fcap'.w = NoAct
    PROVE  FuturesInv'
<1>1. fm'.act # NoAct
    BY FuturesNone
<1>2. FuturesTypes'
    BY DEF FuturesInv, FuturesTypes, FuturesTypeOK, Missions, Records, Keys1
<1>3. RequestShape'
    BY <1>1 DEF FuturesInv, RequestShape, Acting, Ended
<1>4. AcceptedWhole'
    BY <1>1 DEF FuturesInv, AcceptedWhole, Acting, Mine
<1>5. ProofAfterGrace'
    BY <1>1 DEF ProofAfterGrace, Acting
<1>6. NoForgottenContract'
    BY <1>1 DEF FuturesInv, NoForgottenContract
<1>7. QED
    BY <1>2, <1>3, <1>4, <1>5, <1>6 DEF FuturesInv, Ended

LEMMA JournalTyped ==
    ASSUME FuturesInv, fm.act # NoAct, NEW st \in {"none", "pending", "neversent", "terms", "throttled", "closed"}
    PROVE  Journal(fm.act.c, st) \in Keys1 /\ \A c \in Cohort : Journal(fm.act.c, st)[c].key = fj[c].key
<1>1. fj \in Keys1 /\ fm.act.c \in Cohort
    BY FuturesTyped DEF Action
<1>2. QED
    BY <1>1 DEF Journal, Keys1

LEMMA StaleTyped ==
    ASSUME FuturesInv, Stale
    PROVE  fcap' \in Records /\ fcap'.ev = fcap.ev /\ fcap'.w = NoAct
BY FuturesTyped DEF Stale, Records

\* What the answer, the loss or the repetition of a request changes in it.
LEMMA ActTyped ==
    ASSUME FuturesInv, fm.act # NoAct,
           NEW st \in {"staged", "pending", "unknown", "receipt", "garbled", "refused", "throttled"},
           NEW wire \in BOOLEAN, NEW after \in {"no", "set", "passed"},
           NEW a, a \in {[fm.act EXCEPT !.st = st, !.wire = wire], [fm.act EXCEPT !.st = st, !.wire = wire, !.after = after],
                         [fm.act EXCEPT !.st = st, !.after = after], [fm.act EXCEPT !.after = after, !.wire = wire],
                         [fm.act EXCEPT !.after = after]},
           fm' = [fm EXCEPT !.act = a]
    PROVE  /\ fm' \in Missions /\ fm'.act \in Action /\ fm'.act = a /\ fm'.change = fm.change
           /\ fm'.act.stage = fm.act.stage /\ fm'.act.c = fm.act.c /\ fm'.act.leg = fm.act.leg
           /\ (fm'.act.done <=> fm.act.done)
<1>1. fm \in Missions /\ fm.act \in Action
    BY FuturesTyped
<1>2. a \in Action
    BY <1>1 DEF Action
<1>3. fm' \in Missions /\ fm'.act = a /\ fm'.change = fm.change
    BY <1>1, <1>2 DEF Missions
<1>4. a.stage = fm.act.stage /\ a.c = fm.act.c /\ a.leg = fm.act.leg
    BY <1>1 DEF Action
<1>5. a.done <=> fm.act.done
    BY <1>1 DEF Action
<1>6. QED
    BY <1>2, <1>3, <1>4, <1>5

LEMMA RequestStep ==
    ASSUME FuturesInv, FirstSend \/ AnswerFutures \/ CrashFutures \/ SendAgain \/ GracePasses \/ WaitForProof
    PROVE  FuturesInv' /\ (\A c \in Cohort : fj'[c].key = fj[c].key)
<1>0. /\ fm.act # NoAct /\ fm \in Missions /\ fm.act \in Action /\ fcap \in Records /\ fj \in Keys1 /\ UNCHANGED <<fw, rows>>
    BY FuturesTyped DEF FirstSend, AnswerFutures, CrashFutures, SendAgain, GracePasses, WaitForProof, Sending, InDoubt
<1>1. CASE FirstSend
  <2> DEFINE a == [fm.act EXCEPT !.st = "pending", !.wire = TRUE]
  <2>1. fm' = [fm EXCEPT !.act = a] /\ fj' = Journal(fm.act.c, "pending") /\ UNCHANGED fcap
      BY <1>1 DEF FirstSend
  <2>2. a.st = "pending"
      BY <1>0 DEF Action
  <2>3. QED
      BY <1>0, <2>1, <2>2, ActTyped, JournalTyped, ActGoesOn
<1>2. CASE SendAgain
  <2> DEFINE a == [fm.act EXCEPT !.st = "pending", !.wire = TRUE]
  <2>1. fm' = [fm EXCEPT !.act = a] /\ UNCHANGED <<fj, fcap>>
      BY <1>2 DEF SendAgain
  <2>2. a.st = "pending"
      BY <1>0 DEF Action
  <2>3. QED
      BY <1>0, <2>1, <2>2, ActTyped, ActGoesOn
<1>3. CASE CrashFutures
  <2> DEFINE a == [fm.act EXCEPT !.st = "unknown", !.wire = FALSE]
  <2>1. fm' = [fm EXCEPT !.act = a] /\ UNCHANGED fj /\ Stale
      BY <1>3 DEF CrashFutures
  <2>2. a.st = "unknown"
      BY <1>0 DEF Action
  <2>3. ~a.wire
      BY <1>0 DEF Action
  <2>4. QED
      BY <1>0, <2>1, <2>2, <2>3, ActTyped, StaleTyped, ActGoesOn
<1>4. CASE GracePasses
  <2> DEFINE a == [fm.act EXCEPT !.after = "passed", !.wire = FALSE]
  <2>1. fm' = [fm EXCEPT !.act = a] /\ UNCHANGED fj /\ Stale /\ fm.act.st \in {"unknown", "garbled"}
      BY <1>4 DEF GracePasses
  <2>2. a.st = fm.act.st
      BY <1>0 DEF Action
  <2>3. ~a.wire
      BY <1>0 DEF Action
  <2>4. QED
      BY <1>0, <2>1, <2>2, <2>3, ActTyped, StaleTyped, ActGoesOn
<1>5. CASE WaitForProof
  <2>1. PICK after \in {"set", "passed"} : after = IF fm.act.stage = "accept" THEN "set" ELSE "passed"
      OBVIOUS
  <2> DEFINE a == [fm.act EXCEPT !.after = after]
  <2>2. fm' = [fm EXCEPT !.act = a] /\ UNCHANGED fj /\ Stale /\ fm.act.st \in {"unknown", "garbled"}
      BY <1>5, <2>1 DEF WaitForProof, InDoubt
  <2>3. a.st = fm.act.st /\ (fm.act.stage = "accept" => a.after = "set")
      BY <1>0, <2>1 DEF Action
  <2>4. /\ fm' \in Missions /\ fm'.act \in Action /\ fm'.act = a /\ fm'.change = fm.change
        /\ fm'.act.stage = fm.act.stage /\ fm'.act.c = fm.act.c /\ fm'.act.leg = fm.act.leg
        /\ (fm'.act.done <=> fm.act.done)
      BY <1>0, <2>1, <2>2, ActTyped
  <2>5. QED
      BY <1>0, <2>2, <2>3, <2>4, StaleTyped, ActGoesOn
<1>6. CASE AnswerFutures
  <2>1. PICK st \in {"receipt", "garbled", "refused", "throttled"} :
            \/ /\ fm' = Answered(st)
               /\ \E j \in {"none", "pending", "neversent", "terms", "throttled", "closed"} : fj' \in {fj, Journal(fm.act.c, j)}
               /\ st \in {"refused", "throttled"} => ~fm.act.done
               /\ fm.act.stage = "settle" /\ st = "receipt" => fm.act.done \/ fw.list[fm.act.leg] \in {"settled", "defaulted"}
            \/ fm' = [fm EXCEPT !.act.st = "unknown", !.act.after = "no"] /\ UNCHANGED fj
      BY <1>6 DEF AnswerFutures
  <2>2. UNCHANGED fcap
      BY <1>6 DEF AnswerFutures
  <2>3. CASE fm' = [fm EXCEPT !.act.st = "unknown", !.act.after = "no"] /\ UNCHANGED fj
    <3> DEFINE a == [fm.act EXCEPT !.st = "unknown", !.after = "no"]
    <3>1. fm' = [fm EXCEPT !.act = a]
        BY <2>3
    <3>2. a.st = "unknown" /\ a.after = "no"
        BY <1>0 DEF Action
    <3>3. QED
        BY <1>0, <2>2, <2>3, <3>1, <3>2, ActTyped, ActGoesOn
  <2>4. CASE /\ fm' = Answered(st)
             /\ \E j \in {"none", "pending", "neversent", "terms", "throttled", "closed"} : fj' \in {fj, Journal(fm.act.c, j)}
             /\ st \in {"refused", "throttled"} => ~fm.act.done
             /\ fm.act.stage = "settle" /\ st = "receipt" => fm.act.done \/ fw.list[fm.act.leg] \in {"settled", "defaulted"}
    <3> DEFINE a == [fm.act EXCEPT !.st = st, !.wire = FALSE, !.after = "no"]
    <3>1. fm' = [fm EXCEPT !.act = a]
        BY <2>4 DEF Answered
    <3>2. a.st = st /\ a.after = "no"
        BY <1>0 DEF Action
    <3>3. ~a.wire
        BY <1>0 DEF Action
    <3>4. fj' \in Keys1 /\ \A c \in Cohort : fj'[c].key = fj[c].key
        BY <1>0, <2>4, JournalTyped
    <3>5. fm.act.stage = "settle" /\ st = "receipt" => fm.act.leg \in Ended
        BY <1>0, <2>4 DEF FuturesInv, RequestShape, Acting, Ended
    <3>6. /\ fm' \in Missions /\ fm'.act \in Action /\ fm'.act = a /\ fm'.change = fm.change
          /\ fm'.act.stage = fm.act.stage /\ fm'.act.c = fm.act.c /\ fm'.act.leg = fm.act.leg
          /\ (fm'.act.done <=> fm.act.done)
        BY <1>0, <3>1, ActTyped
    <3>7. QED
        BY <1>0, <2>2, <2>4, <3>2, <3>3, <3>4, <3>5, <3>6, ActGoesOn
  <2>5. QED
      BY <2>1, <2>3, <2>4
<1>7. QED
    BY <1>1, <1>2, <1>3, <1>4, <1>5, <1>6

-----------------------------------------------------------------------------
\* The server carries the request out.
LEMMA CarriedFutures ==
    ASSUME FuturesInv, fm.act # NoAct, fm.act.wire, ~fm.act.done, UNCHANGED <<fcap, rows, fj>>, fw' \in World,
           fm' \in Missions, fm'.act \in Action, fm'.act.done, fm'.change = fm.change,
           fm'.act.stage = fm.act.stage, fm'.act.c = fm.act.c, fm'.act.leg = fm.act.leg, fm'.act.st = fm.act.st,
           fm'.act.after = fm.act.after, Ended \subseteq Ended',
           fm.act.stage = "settle" => fm.act.leg \in Ended',
           \A l \in Leg : fw'.list[l] \in Standing <=>
              fw.list[l] \in Standing \/ (fm.act.stage = "accept" /\ l \in LegsOf(fm.act.c))
    PROVE  FuturesInv'
<1>1. fm'.act # NoAct /\ fm.act.c \in Cohort
    BY FuturesTyped, FuturesNone DEF Action
<1>2. FuturesTypes'
    BY DEF FuturesInv, FuturesTypes, FuturesTypeOK, Missions
<1>3. fm.act.st \notin {"staged", "refused", "throttled"}
    BY DEF FuturesInv, RequestShape
<1>4. RequestShape'
    BY <1>1, <1>3 DEF FuturesInv, RequestShape, Acting
<1>5. \A l \in Leg : Mine(l)' <=> Mine(l) \/ (fm.act.stage = "accept" /\ l \in LegsOf(fm.act.c))
    BY DEF Mine
<1>6. AcceptedWhole'
  <2>1. ASSUME NEW d \in Cohort PROVE (\A l \in LegsOf(d) : Mine(l)') \/ (\A l \in LegsOf(d) : ~Mine(l)')
    <3>1. (\A l \in LegsOf(d) : Mine(l)) \/ (\A l \in LegsOf(d) : ~Mine(l))
        BY DEF FuturesInv, AcceptedWhole
    <3>2. \A l \in LegsOf(d) : l \in Leg /\ CohortOf(l) = d
        BY LegsTyped
    <3>3. \A l \in LegsOf(fm.act.c) : CohortOf(l) = fm.act.c
        BY <1>1, LegsTyped
    <3>4. QED
        BY <1>5, <3>1, <3>2, <3>3
  <2>2. fm.act.stage = "accept" => \A l \in LegsOf(fm.act.c) : Mine(l)'
      BY <1>1, <1>5, LegsTyped
  <2>3. QED
      BY <1>1, <2>1, <2>2 DEF AcceptedWhole, Acting
<1>7. ProofAfterGrace'
    BY <1>1 DEF FuturesInv, ProofAfterGrace, Acting
<1>8. NoForgottenContract'
  <2> SUFFICES ASSUME NEW l \in Leg, fw'.list[l] \in Standing
               PROVE  rows[l].fid \/ (fm.act.stage = "accept" /\ fm.act.c = CohortOf(l))
      BY <1>1 DEF NoForgottenContract, Standing
  <2>1. CASE fw.list[l] \in Standing
      BY <2>1 DEF FuturesInv, NoForgottenContract, Standing
  <2>2. CASE fm.act.stage = "accept" /\ l \in LegsOf(fm.act.c)
      BY <1>1, <2>2, LegsTyped
  <2>3. QED
      BY <2>1, <2>2
<1>9. QED
    BY <1>2, <1>4, <1>6, <1>7, <1>8 DEF FuturesInv

LEMMA CarriedStep ==
    ASSUME FuturesInv, Carried
    PROVE  FuturesInv'
<1>0. /\ fm.act # NoAct /\ fm.act.wire /\ ~fm.act.done /\ UNCHANGED <<fcap, rows, fj>>
      /\ fw \in World /\ fm \in Missions /\ fm.act \in Action /\ fm.act.c \in Cohort
    BY FuturesTyped DEF Carried, Action
<1>1. ASSUME NEW a, a = [fm.act EXCEPT !.done = TRUE] \/ a = [fm.act EXCEPT !.done = TRUE, !.fill = 1],
             fm' = [fm EXCEPT !.act = a]
      PROVE  /\ fm' \in Missions /\ fm'.act \in Action /\ fm'.act.done /\ fm'.change = fm.change
             /\ fm'.act.stage = fm.act.stage /\ fm'.act.c = fm.act.c /\ fm'.act.leg = fm.act.leg
             /\ fm'.act.st = fm.act.st /\ fm'.act.after = fm.act.after
  <2>1. a \in Action
    <3>1. CASE a = [fm.act EXCEPT !.done = TRUE]
        BY <1>0, <3>1 DEF Action
    <3>2. CASE a = [fm.act EXCEPT !.done = TRUE, !.fill = 1]
      <4>1. PICK n \in 0..1 : n = 1
          OBVIOUS
      <4>2. PICK d \in BOOLEAN : d = TRUE
          OBVIOUS
      <4>3. a = [fm.act EXCEPT !.done = d, !.fill = n]
          BY <3>2, <4>1, <4>2
      <4>4. [fm.act EXCEPT !.done = d, !.fill = n] \in Action
          BY <1>0 DEF Action
      <4>5. QED
          BY <4>3, <4>4
    <3>3. QED
        BY <1>1, <3>1, <3>2
  <2>2. fm' \in Missions /\ fm'.act = a /\ fm'.change = fm.change
      BY <1>0, <1>1, <2>1 DEF Missions
  <2>3. a.stage = fm.act.stage /\ a.c = fm.act.c /\ a.leg = fm.act.leg /\ a.st = fm.act.st /\ a.after = fm.act.after
      BY <1>0, <1>1 DEF Action
  <2>4. a.done
      BY <1>0, <1>1 DEF Action
  <2>5. QED
      BY <2>1, <2>2, <2>3, <2>4
<1>2. CASE fm.act.stage = "accept"
  <2> DEFINE list == [l \in Leg |-> IF l \in LegsOf(fm.act.c) THEN "ours" ELSE fw.list[l]]
  <2>1. fw' = [fw EXCEPT !.list = list] /\ fm' = [fm EXCEPT !.act = [fm.act EXCEPT !.done = TRUE]]
        /\ \A l \in LegsOf(fm.act.c) : fw.list[l] = "open"
      BY <1>2 DEF Carried
  <2>2. list \in [Leg -> {"open", "taken"} \cup Standing]
      BY <1>0 DEF World, Standing
  <2>3. fw' \in World /\ fw'.list = list
    <3> HIDE DEF list
    <3> QED
      BY <1>0, <2>1, <2>2 DEF World
  <2>4. Ended \subseteq Ended' /\ \A l \in Leg : fw'.list[l] \in Standing <=> fw.list[l] \in Standing \/ l \in LegsOf(fm.act.c)
      BY <2>1, <2>3 DEF Ended, Standing
  <2>5. /\ fm' \in Missions /\ fm'.act \in Action /\ fm'.act.done /\ fm'.change = fm.change
        /\ fm'.act.stage = fm.act.stage /\ fm'.act.c = fm.act.c /\ fm'.act.leg = fm.act.leg
        /\ fm'.act.st = fm.act.st /\ fm'.act.after = fm.act.after
      BY <1>1, <2>1
  <2>6. QED
      BY <1>0, <1>2, <2>3, <2>4, <2>5, CarriedFutures
<1>3. CASE fm.act.stage = "settle"
  <2>1. fw.list[fm.act.leg] = "ours" /\ fw' \in Settlement(fw, fm.act.leg)
        /\ fm' = [fm EXCEPT !.act = [fm.act EXCEPT !.done = TRUE]] /\ fm.act.leg \in Leg
      BY <1>0, <1>3 DEF Carried, FuturesInv, RequestShape, Acting
  <2>2. PICK w \in Settlement(fw, fm.act.leg) : fw' = w
      BY <2>1
  <2>3. PICK s \in {"settled", "defaulted"} : fw'.list = [fw.list EXCEPT ![fm.act.leg] = s]
      BY <1>0, <2>1, <2>2, SettlementWorld
  <2>4. fw' \in World
      BY <1>0, <2>1, <2>2, SettlementWorld
  <2>5. /\ Ended \subseteq Ended' /\ fm.act.leg \in Ended'
        /\ \A l \in Leg : fw'.list[l] \in Standing <=> fw.list[l] \in Standing
      BY <1>0, <2>1, <2>3 DEF Ended, World, Standing
  <2>6. /\ fm' \in Missions /\ fm'.act \in Action /\ fm'.act.done /\ fm'.change = fm.change
        /\ fm'.act.stage = fm.act.stage /\ fm'.act.c = fm.act.c /\ fm'.act.leg = fm.act.leg
        /\ fm'.act.st = fm.act.st /\ fm'.act.after = fm.act.after
      BY <1>1, <2>1
  <2>7. QED
      BY <1>0, <1>3, <2>4, <2>5, <2>6, CarriedFutures
<1>4. CASE fm.act.stage \in {"stock", "resize", "release"}
  <2>1. /\ \/ fw' = fw
           \/ fw' = [fw EXCEPT !.stock = fw.stock - 1] /\ fw.stock > 0
           \/ fw' = [fw EXCEPT !.leased = fm.change.target] /\ fm.act.stage # "stock"
        /\ \/ fm' = [fm EXCEPT !.act = [fm.act EXCEPT !.done = TRUE]]
           \/ fm' = [fm EXCEPT !.act = [fm.act EXCEPT !.done = TRUE, !.fill = 1]]
    <3>1. CASE fm.act.stage = "stock"
        BY <3>1 DEF Carried
    <3>2. CASE fm.act.stage \in {"resize", "release"}
        BY <3>2 DEF Carried
    <3>3. QED
        BY <1>4, <3>1, <3>2
  <2>2. fm.act.stage # "stock" => fm.change.target \in Nat
      BY <1>0, <1>4 DEF FuturesInv, RequestShape, Acting, Missions, Change
  <2>3. fw' \in World /\ fw'.list = fw.list
      BY <1>0, <2>1, <2>2 DEF World
  <2>4. /\ fm' \in Missions /\ fm'.act \in Action /\ fm'.act.done /\ fm'.change = fm.change
        /\ fm'.act.stage = fm.act.stage /\ fm'.act.c = fm.act.c /\ fm'.act.leg = fm.act.leg
        /\ fm'.act.st = fm.act.st /\ fm'.act.after = fm.act.after
      BY <1>1, <2>1
  <2>5. QED
      BY <1>0, <1>4, <2>3, <2>4, CarriedFutures DEF Ended
<1>5. QED
    BY <1>0, <1>2, <1>3, <1>4 DEF Action

-----------------------------------------------------------------------------
\* The request is given up or consumed: whatever it accepted is known.
LEMMA DropFutures ==
    ASSUME FuturesInv, fm' \in Missions, fm'.act = NoAct, Grown, fj' \in Keys1, fcap' \in Records, fcap'.ev = fcap.ev,
           UNCHANGED fw, Acting("accept") => \A l \in LegsOf(fm.act.c) : Mine(l) => rows'[l].fid
    PROVE  FuturesInv'
<1>1. FuturesTypes'
    BY DEF FuturesInv, FuturesTypes, FuturesTypeOK, Missions, Records, Keys1, Grown
<1>2. RequestShape' /\ AcceptedWhole' /\ ProofAfterGrace'
    BY DEF FuturesInv, RequestShape, AcceptedWhole, ProofAfterGrace, Acting, Mine
<1>3. NoForgottenContract'
  <2> SUFFICES ASSUME NEW l \in Leg, Mine(l) PROVE rows'[l].fid
      BY DEF NoForgottenContract, Mine, Standing
  <2>1. CASE rows[l].fid
      BY <2>1 DEF Grown
  <2>2. CASE Acting("accept") /\ fm.act.c = CohortOf(l)
      BY <2>2, LegsTyped
  <2>3. QED
      BY <2>1, <2>2 DEF FuturesInv, NoForgottenContract, Mine, Standing, Acting
<1>4. QED
    BY <1>1, <1>2, <1>3 DEF FuturesInv, Grown, Ended

LEMMA DropTyped ==
    ASSUME FuturesInv, fm.act # NoAct
    PROVE  /\ Dropped \in Missions /\ Dropped.act = NoAct
           /\ \A c \in Cohort, n \in 0..1 : /\ [Dropped EXCEPT !.exits[c] = @ + n] \in Missions
                                            /\ [Dropped EXCEPT !.exits[c] = @ + n].act = NoAct
           /\ \A x \in SUBSET (Leg \X ({"open", "taken"} \cup Standing)) :
                 [Dropped EXCEPT !.latch = x] \in Missions /\ [Dropped EXCEPT !.latch = x].act = NoAct
           /\ [Dropped EXCEPT !.change = NoAct] \in Missions /\ [Dropped EXCEPT !.change = NoAct].act = NoAct
           /\ Acting("resize") \/ Acting("release") => FinishLease \in Missions /\ FinishLease.act = NoAct
<1>1. fm \in Missions
    BY FuturesTyped
<1>2. Dropped \in Missions /\ Dropped.act = NoAct
    BY <1>1 DEF Dropped, Missions
<1>3. ASSUME NEW c \in Cohort, NEW n \in 0..1
      PROVE  [Dropped EXCEPT !.exits[c] = @ + n] \in Missions /\ [Dropped EXCEPT !.exits[c] = @ + n].act = NoAct
  <2>1. [Dropped.exits EXCEPT ![c] = @ + n] \in [Cohort -> Nat]
      BY <1>2 DEF Missions
  <2>2. QED
      BY <1>2, <2>1 DEF Missions
<1>4. ASSUME Acting("resize") \/ Acting("release") PROVE FinishLease \in Missions /\ FinishLease.act = NoAct
  <2>1. fm.change \in Change
      BY <1>1, <1>4 DEF FuturesInv, RequestShape, Missions
  <2>2. Held(fm.change) \in [base : Nat, target : Nat] \cup {NoAct}
      BY <2>1 DEF Held, Change
  <2>3. QED
      BY <1>2, <2>2 DEF FinishLease, Missions
<1>5. QED
    BY <1>2, <1>3, <1>4 DEF Missions

LEMMA VetoStep ==
    ASSUME FuturesInv, Veto
    PROVE  FuturesInv' /\ KeyKeptWhileAlive
<1>0. /\ fm.act # NoAct /\ fm.act.st = "staged" /\ fm' = Dropped /\ UNCHANGED <<fw, fcap>>
      /\ fm.act.c \in Cohort /\ fj \in Keys1 /\ fcap \in Records
    BY FuturesTyped DEF Veto, Sending, Action
<1>1. ~fm.act.wire /\ (Acting("accept") => \A l \in LegsOf(fm.act.c) : ~Mine(l))
    BY <1>0 DEF FuturesInv, RequestShape, AcceptedWhole, Acting
<1>2. Grown
    BY <1>0, RejectedGrown DEF Veto
<1>3. fj' \in Keys1
  <2>1. fj[fm.act.c].key < MaxKeys => NewKey(fm.act.c) \in Keys1
      BY <1>0, FuturesAssumption DEF NewKey, Keys1
  <2>2. QED
      BY <1>0, <2>1, JournalTyped DEF Veto
<1>4. FuturesInv'
    BY <1>0, <1>1, <1>2, <1>3, DropTyped, DropFutures
<1>5. KeyKeptWhileAlive
  <2> SUFFICES ASSUME NEW c \in Cohort, fj'[c].key # fj[c].key
               PROVE  (\A l \in LegsOf(c) : fw.list[l] \in {"open", "taken"}) /\ ~fm.act.wire
      BY DEF KeyKeptWhileAlive
  <2>1. Acting("accept") /\ fj' = NewKey(fm.act.c)
      BY <1>0, JournalTyped DEF Veto, Acting
  <2>2. c = fm.act.c
      BY <1>0, <2>1 DEF NewKey, Keys1
  <2>3. QED
      BY <1>0, <1>1, <2>1, <2>2, FuturesTyped, LegsTyped DEF Mine, World, Standing
<1>6. QED
    BY <1>4, <1>5

LEMMA ResultStep ==
    ASSUME FuturesInv, ResultFutures
    PROVE  FuturesInv' /\ fj' = fj
<1>0. /\ fm.act # NoAct /\ fm.act.st = "receipt" /\ fm.act \in Action /\ UNCHANGED <<fw, fj>> /\ fj \in Keys1
      /\ fcap' \in Records /\ fcap'.ev = fcap.ev /\ fw \in World /\ rows \in [Leg -> IntentRow]
      /\ \A l \in Leg : rows[l] \in IntentRow /\ RowKnown(rows[l])
    BY FuturesTyped, StaleTyped DEF ResultFutures, Sending, FuturesInv
<1>1. CASE fm.act.stage = "accept"
  <2>1. \A l \in Leg : /\ ObserveFuturesContract(rows[l], "ours") \in IntentRow
                       /\ RowKnown(ObserveFuturesContract(rows[l], "ours")) /\ ObserveFuturesContract(rows[l], "ours").fid
      BY <1>0, ObservedRow DEF Standing
  <2>2. rows' = [l \in Leg |-> IF l \in LegsOf(fm.act.c) THEN ObserveFuturesContract(rows[l], "ours") ELSE rows[l]]
        /\ fm' = Dropped
      BY <1>1 DEF ResultFutures
  <2>3. Grown /\ \A l \in LegsOf(fm.act.c) : rows'[l].fid
      BY <1>0, <2>1, <2>2, LegsTyped DEF Grown, Action
  <2>4. QED
      BY <1>0, <2>2, <2>3, DropTyped, DropFutures
<1>2. CASE fm.act.stage = "settle"
  <2>1. fm.act.leg \in Ended /\ fm.act.leg \in Leg
      BY <1>0, <1>2 DEF FuturesInv, RequestShape, Acting
  <2>2. PICK row \in {rows[fm.act.leg], Receipt(fw, fm.act.leg)} : rows' = [rows EXCEPT ![fm.act.leg] = row]
      BY <1>2 DEF ResultFutures
  <2>3. row \in IntentRow /\ RowKnown(row) /\ (rows[fm.act.leg].fid => row.fid)
      BY <1>0, <2>1, ReceiptRow
  <2>4. Grown
      BY <1>0, <2>1, <2>2, <2>3 DEF Grown
  <2>5. fm' = Dropped /\ ~Acting("accept")
      BY <1>2 DEF ResultFutures, Acting
  <2>6. QED
      BY <1>0, <2>4, <2>5, DropTyped, DropFutures
<1>3. CASE fm.act.stage \in {"stock", "resize", "release"}
  <2>1. /\ UNCHANGED rows
        /\ \/ fm' = [Dropped EXCEPT !.exits[fm.act.c] = @ + fm.act.fill]
           \/ fm' = FinishLease /\ (Acting("resize") \/ Acting("release"))
      BY <1>0, <1>3 DEF ResultFutures, Acting
  <2>2. fm.act.c \in Cohort /\ fm.act.fill \in 0..1 /\ ~Acting("accept")
      BY <1>0, <1>3 DEF Action, Acting
  <2>3. fm' \in Missions /\ fm'.act = NoAct
      BY <1>0, <2>1, <2>2, DropTyped
  <2>4. Grown
      BY <2>1, <2>2, RejectedGrown
  <2>5. QED
      BY <1>0, <2>2, <2>3, <2>4, DropFutures
<1>4. QED
    BY <1>0, <1>1, <1>2, <1>3 DEF Action

LEMMA RefusalStep ==
    ASSUME FuturesInv, RefusalFutures
    PROVE  FuturesInv' /\ KeyKeptWhileAlive
<1>0. /\ fm.act # NoAct /\ fm.act.st \in {"refused", "throttled"} /\ fm.act \in Action /\ UNCHANGED fw /\ fj \in Keys1
      /\ fcap' \in Records /\ fcap'.ev = fcap.ev /\ fw \in World /\ fm.act.c \in Cohort /\ fm \in Missions
    BY FuturesTyped, StaleTyped DEF RefusalFutures, Sending, Action
<1>1. ~fm.act.wire /\ (Acting("accept") => \A l \in LegsOf(fm.act.c) : ~Mine(l))
    BY <1>0 DEF FuturesInv, RequestShape, AcceptedWhole, Acting
<1>2. Grown
    BY <1>0, RejectedGrown DEF RefusalFutures
<1>3. fj' \in Keys1 /\ (fj' = fj \/ (Acting("accept") /\ fj' = NewKey(fm.act.c)))
  <2>1. fj[fm.act.c].key < MaxKeys => NewKey(fm.act.c) \in Keys1
      BY <1>0, FuturesAssumption DEF NewKey, Keys1
  <2>2. QED
      BY <1>0, <2>1 DEF RefusalFutures, Readmit, Acting
<1>4. fm' \in Missions /\ fm'.act = NoAct
  <2>1. CASE fm' = Dropped \/ fm' = [Dropped EXCEPT !.change = NoAct]
      BY <1>0, <2>1, DropTyped
  <2>2. CASE fm.act.stage \in {"settle", "stock"}
    <3>1. PICK x : /\ fm' = [Dropped EXCEPT !.latch = x]
                   /\ \/ x = Dropped.latch
                      \/ x = Dropped.latch \cup {<<fm.act.leg, fcap.w.list[fm.act.leg]>>} /\ Pass /\ fm.act.stage = "settle"
        BY <2>2 DEF RefusalFutures
    <3>2. Dropped.latch \in SUBSET (Leg \X ({"open", "taken"} \cup Standing))
        BY <1>0, DropTyped DEF Missions
    <3>3. Pass /\ fm.act.stage = "settle" =>
             <<fm.act.leg, fcap.w.list[fm.act.leg]>> \in Leg \X ({"open", "taken"} \cup Standing)
        BY <1>0, FuturesTyped DEF Pass, FuturesInv, RequestShape, Acting, Views
    <3>4. x \in SUBSET (Leg \X ({"open", "taken"} \cup Standing))
        BY <3>1, <3>2, <3>3
    <3>5. QED
        BY <1>0, <3>1, <3>4, DropTyped
  <2>3. QED
      BY <2>1, <2>2 DEF RefusalFutures
<1>5. FuturesInv'
    BY <1>0, <1>1, <1>2, <1>3, <1>4, DropFutures
<1>6. KeyKeptWhileAlive
  <2> SUFFICES ASSUME NEW c \in Cohort, fj'[c].key # fj[c].key
               PROVE  (\A l \in LegsOf(c) : fw.list[l] \in {"open", "taken"}) /\ ~fm.act.wire
      BY DEF KeyKeptWhileAlive
  <2>1. Acting("accept") /\ fj' = NewKey(fm.act.c)
      BY <1>3
  <2>2. c = fm.act.c
      BY <1>0, <2>1 DEF NewKey, Keys1
  <2>3. QED
      BY <1>0, <1>1, <2>1, <2>2, LegsTyped DEF Mine, World, Standing
<1>7. QED
    BY <1>5, <1>6

LEMMA ReconcileStep ==
    ASSUME FuturesInv, ReconcileSeen \/ ReconcileNotAccepted \/ ReconcileWarehouse
    PROVE  FuturesInv' /\ (\A c \in Cohort : fj'[c].key = fj[c].key)
<1>0. /\ fm.act # NoAct /\ fm.act.st \in {"unknown", "garbled"} /\ fm.act \in Action /\ UNCHANGED fw /\ fj \in Keys1
      /\ fw \in World /\ fm.act.c \in Cohort /\ fcap \in Records
    BY FuturesTyped DEF ReconcileSeen, ReconcileNotAccepted, ReconcileWarehouse, InDoubt, Sending, Action
<1>1. CASE ReconcileSeen
  <2>1. /\ fm' = Dropped /\ fj' = Journal(fm.act.c, "closed") /\ Stale /\ UNCHANGED rows
        /\ Acting("accept") => \A l \in LegsOf(fm.act.c) : rows[l].fid
      BY <1>1 DEF ReconcileSeen, Acting
  <2>2. Grown
      BY <1>0, <2>1, RejectedGrown
  <2>3. QED
      BY <1>0, <2>1, <2>2, JournalTyped, StaleTyped, DropTyped, DropFutures
<1>2. CASE ReconcileNotAccepted
  <2>1. /\ fm' = Dropped /\ fj' = Journal(fm.act.c, "closed") /\ UNCHANGED fcap /\ rows' = Rejected(fm.act.c)
        /\ Acting("accept") /\ fm.act.after = "passed" /\ fcap.w # NoAct
        /\ \E l \in LegsOf(fm.act.c) : fcap.w.list[l] \in {"open", "taken"}
      BY <1>2 DEF ReconcileNotAccepted, InDoubt, Sending, NotAccepted, Pass, Acting
  <2>2. ~fm.act.done
      BY <1>0, <2>1 DEF FuturesInv, ProofAfterGrace, Standing
  <2>3. \A l \in LegsOf(fm.act.c) : ~Mine(l)
      BY <2>1, <2>2 DEF FuturesInv, AcceptedWhole
  <2>4. Grown
      BY <1>0, <2>1, RejectedGrown
  <2>5. QED
      BY <1>0, <2>1, <2>3, <2>4, JournalTyped, DropTyped, DropFutures
<1>3. CASE ReconcileWarehouse
  <2>1. /\ UNCHANGED <<rows, fj>> /\ Stale /\ ~Acting("accept")
        /\ \/ fm' = [Dropped EXCEPT !.exits[fm.act.c] = @ + 1]
           \/ fm' = Dropped
           \/ fm' = FinishLease /\ (Acting("resize") \/ Acting("release"))
      BY <1>0, <1>3 DEF ReconcileWarehouse, Acting
  <2>2. fm' \in Missions /\ fm'.act = NoAct
    <3>1. 1 \in 0..1
        OBVIOUS
    <3>2. QED
        BY <1>0, <2>1, <3>1, DropTyped
  <2>3. Grown
      BY <1>0, <2>1, RejectedGrown
  <2>4. QED
      BY <1>0, <2>1, <2>2, <2>3, StaleTyped, DropFutures
<1>4. QED
    BY <1>1, <1>2, <1>3

\* The server's contracts, what the journal and the rows say of them and the
\* request on its way agree, always.
THEOREM FuturesInvHolds == FuturesSpec => []FuturesInv
<1>1. ASSUME FuturesInit PROVE FuturesInv
  <2>1. PICK s \in Starts :
          /\ fw = [list |-> [l \in Leg |-> IF l \in s.open THEN "open" ELSE IF l \in s.standing THEN "ours" ELSE "taken"],
                   mature |-> {}, stock |-> s.stock, leased |-> s.leased, tons |-> [l \in Leg |-> 0], owed |-> {},
                   may |-> s.spoil, spoiled |-> 0]
          /\ rows = [l \in Leg |-> [status |-> IF l \in s.standing THEN "active" ELSE "none",
                                    fid |-> l \in s.standing, rec |-> FALSE, tons |-> 0, claim |-> 0]]
          /\ fj = [c \in Cohort |-> [key |-> 1, st |-> IF LegsOf(c) \subseteq s.standing THEN "closed" ELSE "none"]]
      BY <1>1 DEF FuturesInit
  <2>2. /\ fcap = [w |-> NoAct, gone |-> {}, ev |-> {}]
        /\ fm = [act |-> NoAct, hold |-> NoAct, change |-> NoAct, exits |-> [c \in Cohort |-> 0], latch |-> {}]
      BY <1>1 DEF FuturesInit
  <2>3. /\ s.stock \in Nat /\ s.leased \in Nat /\ s.spoil \in Nat /\ 1 \in 1..MaxKeys
        /\ s.open \cap s.standing = {}
        /\ {"s1", "p1"} \subseteq s.standing \/ {"s1", "p1"} \cap s.standing = {}
      BY FuturesAssumption
  <2>4. fw \in World
      BY <2>1, <2>3 DEF World, Standing
  <2>5. \A l \in Leg : rows[l] \in IntentRow /\ RowKnown(rows[l]) /\ (rows[l].fid <=> l \in s.standing)
    <3> SUFFICES ASSUME NEW l \in Leg
                 PROVE  rows[l] \in IntentRow /\ RowKnown(rows[l]) /\ (rows[l].fid <=> l \in s.standing)
        OBVIOUS
    <3>1. CASE l \in s.standing
      <4>1. PICK st \in {"active", "none"} : st = "active"
          OBVIOUS
      <4>2. PICK f \in BOOLEAN : f = TRUE
          OBVIOUS
      <4>3. PICK g \in BOOLEAN : g = FALSE
          OBVIOUS
      <4>4. PICK n \in 0..1 : n = 0
          OBVIOUS
      <4>5. rows[l] = [status |-> st, fid |-> f, rec |-> g, tons |-> n, claim |-> n]
          BY <2>1, <3>1, <4>1, <4>2, <4>3, <4>4
      <4>6. [status |-> st, fid |-> f, rec |-> g, tons |-> n, claim |-> n] \in IntentRow
          BY DEF IntentRow
      <4>7. rows[l].status = st
          BY <4>5
      <4>8. rows[l].fid <=> f
          BY <4>5
      <4>9. QED
          BY <3>1, <4>1, <4>2, <4>5, <4>6, <4>7, <4>8 DEF RowKnown
    <3>2. CASE l \notin s.standing
      <4>1. PICK st \in {"active", "none"} : st = "none"
          OBVIOUS
      <4>2. PICK f \in BOOLEAN : f = FALSE
          OBVIOUS
      <4>3. PICK g \in BOOLEAN : g = FALSE
          OBVIOUS
      <4>4. PICK n \in 0..1 : n = 0
          OBVIOUS
      <4>5. rows[l] = [status |-> st, fid |-> f, rec |-> g, tons |-> n, claim |-> n]
        <5>1. (l \in s.standing) = f
            BY <3>2, <4>2
        <5>2. rows[l] = [status |-> st, fid |-> l \in s.standing, rec |-> g, tons |-> n, claim |-> n]
            BY <2>1, <3>2, <4>1, <4>3, <4>4
        <5>3. QED
            BY <5>1, <5>2
      <4>6. [status |-> st, fid |-> f, rec |-> g, tons |-> n, claim |-> n] \in IntentRow
          BY DEF IntentRow
      <4>7. rows[l].status = st
          BY <4>5
      <4>8. rows[l].fid <=> f
          BY <4>5
      <4>9. QED
          BY <3>2, <4>1, <4>2, <4>5, <4>6, <4>7, <4>8 DEF RowKnown
    <3>3. QED
        BY <3>1, <3>2
  <2>6. FuturesTypes
    <3>1. rows \in [Leg -> IntentRow]
        BY <2>1, <2>5
    <3>2. fj \in [Cohort -> [key : 1..MaxKeys, st : {"none", "pending", "neversent", "terms", "throttled", "closed"}]]
        BY <2>1, <2>3
    <3>3. fm.act = NoAct
        BY <2>2
    <3>4. fcap \in [w : Views \cup {NoAct}, gone : SUBSET Leg, ev : SUBSET Leg]
        BY <2>2
    <3>5. fm \in [act : Action \cup {NoAct}, hold : [base : Nat, target : Nat] \cup {NoAct}, change : Change \cup {NoAct},
                  exits : [Cohort -> Nat], latch : SUBSET (Leg \X ({"open", "taken"} \cup Standing))]
        BY <2>2
    <3>6. QED
        BY <2>4, <3>1, <3>2, <3>3, <3>4, <3>5 DEF FuturesTypes, FuturesTypeOK
  <2>7. \A l \in Leg : Mine(l) => l \in s.standing /\ rows[l].fid
      BY <2>1, <2>5 DEF Mine, Standing
  <2>8. NoForgottenContract
      BY <2>7 DEF NoForgottenContract, Mine, Standing
  <2>9. AcceptedWhole
    <3>1. \A l \in Leg : Mine(l) <=> l \in s.standing
        BY <2>1, <2>3 DEF Mine, Standing
    <3>2. fm.act = NoAct
        BY <2>2
    <3>3. QED
        BY <2>3, <3>1, <3>2 DEF AcceptedWhole, Acting, LegsOf, Cohort, Leg
  <2>10. QED
      BY <2>2, <2>5, <2>6, <2>8, <2>9 DEF FuturesInv, RequestShape, ProofAfterGrace, Acting
<1>2. ASSUME FuturesInv, [FuturesNext]_fvars PROVE FuturesInv'
  <2>1. CASE UNCHANGED fvars
      BY <1>2, <2>1 DEF fvars, FuturesInv, FuturesTypes, FuturesTypeOK, RequestShape, AcceptedWhole, ProofAfterGrace,
                        NoForgottenContract, Acting, Mine, Ended
  <2>2. CASE \/ \E l \in Sales : Taken(l)
             \/ \E l \in Leg : Matures(l) \/ CounterpartySettles(l) \/ ClaimPaid(l)
             \/ Spoils
      BY <1>2, <2>2, ServerStep DEF Sales, Leg
  <2>3. CASE \/ \E l \in Leg : StageSettle(l) \/ ExpireIntent(l)
             \/ \E c \in Cohort : CloseSurplus(c) \/ Admit(c) \/ StageCapacity(c)
             \/ ReleaseLease
      BY <1>2, <2>3, StageStep
  <2>4. CASE ObserveFutures
      BY <1>2, <2>4, ObserveStep
  <2>5. CASE FirstSend \/ AnswerFutures \/ CrashFutures \/ SendAgain \/ GracePasses \/ WaitForProof
      BY <1>2, <2>5, RequestStep
  <2>6. CASE Carried
      BY <1>2, <2>6, CarriedStep
  <2>7. CASE Veto
      BY <1>2, <2>7, VetoStep
  <2>8. CASE ResultFutures
      BY <1>2, <2>8, ResultStep
  <2>9. CASE RefusalFutures
      BY <1>2, <2>9, RefusalStep
  <2>10. CASE ReconcileSeen \/ ReconcileNotAccepted \/ ReconcileWarehouse
      BY <1>2, <2>10, ReconcileStep
  <2>11. CASE ReadCredit \/ RecordCredit \/ CreditFails
    <3>1. UNCHANGED <<fw, fcap, rows, fj, fm>>
        BY <2>11 DEF ReadCredit, RecordCredit, CreditFails
    <3>2. QED
        BY <1>2, <3>1 DEF FuturesInv, FuturesTypes, FuturesTypeOK, RequestShape, AcceptedWhole, ProofAfterGrace,
                          NoForgottenContract, Acting, Mine, Ended
  <2>12. QED
      BY <1>2, <2>1, <2>2, <2>3, <2>4, <2>5, <2>6, <2>7, <2>8, <2>9, <2>10, <2>11 DEF FuturesNext, FuturesStep
<1>3. QED
    BY <1>1, <1>2, PTL DEF FuturesSpec

\* "an accepted request whose answer was lost must remain recoverable": no
\* contract is without a row that names it or a request that still asks for it.
THEOREM NoForgottenContractHolds == FuturesSpec => []NoForgottenContract
<1>1. FuturesInv => NoForgottenContract
    BY DEF FuturesInv
<1>2. QED
    BY <1>1, FuturesInvHolds, PTL

\* ReadmitFuturesIntent gives a cohort another key only when the request under
\* the old one did nothing and can do nothing any more.
THEOREM NewKeyOnlyWhenDeadHolds == FuturesSpec => NewKeyOnlyWhenDead
<1>1. ASSUME FuturesInv, [FuturesNext]_fvars PROVE [KeyKeptWhileAlive]_fvars
  <2> SUFFICES ASSUME FuturesNext PROVE KeyKeptWhileAlive
      BY <1>1
  <2>1. CASE UNCHANGED fj
      BY <2>1 DEF KeyKeptWhileAlive
  <2>2. CASE FirstSend \/ AnswerFutures \/ CrashFutures \/ SendAgain \/ GracePasses \/ WaitForProof
      BY <1>1, <2>2, RequestStep DEF KeyKeptWhileAlive
  <2>3. CASE ReconcileSeen \/ ReconcileNotAccepted \/ ReconcileWarehouse
      BY <1>1, <2>3, ReconcileStep DEF KeyKeptWhileAlive
  <2>4. CASE Veto
      BY <1>1, <2>4, VetoStep
  <2>5. CASE RefusalFutures
      BY <1>1, <2>5, RefusalStep
  <2>6. CASE \/ \E l \in Sales : Taken(l)
             \/ \E l \in Leg : Matures(l) \/ CounterpartySettles(l) \/ ClaimPaid(l) \/ StageSettle(l) \/ ExpireIntent(l)
             \/ \E c \in Cohort : CloseSurplus(c) \/ Admit(c) \/ StageCapacity(c)
             \/ Spoils \/ ObserveFutures \/ ReleaseLease \/ ResultFutures \/ Carried
             \/ ReadCredit \/ RecordCredit \/ CreditFails
    <3>1. UNCHANGED fj
        BY <2>6 DEF Taken, Matures, CounterpartySettles, ClaimPaid, StageSettle, ExpireIntent, CloseSurplus, Admit,
                    StageCapacity, Spoils, ObserveFutures, ReleaseLease, ResultFutures, Carried, ReadCredit,
                    RecordCredit, CreditFails
    <3>2. QED
        BY <3>1, <2>1
  <2>7. QED
      BY <2>2, <2>3, <2>4, <2>5, <2>6 DEF FuturesNext, FuturesStep
<1>2. QED
    BY <1>1, FuturesInvHolds, PTL DEF FuturesSpec, NewKeyOnlyWhenDead

-----------------------------------------------------------------------------
(* Ownership of an account, for any number of processes, accounts and      *)
(* companies.  The argument: a transaction that shares the account row     *)
(* blocks the UPDATE that would fence it (GuardedIsCurrent), so a write    *)
(* is committed with the generation that is in the row; a lease's own      *)
(* generation never exceeds the row's, so a new one is always fresh.       *)

\* Which fields mean something in which phase.
Shape ==
    \A o \in Owner :
        /\ phase[o] # "idle" => acct[o] \in Account
        /\ phase[o] = "company" => comp[o] \in Company
        /\ txState[o] # "none" => txAcct[o] \in Account

\* Neither a lease nor a committed write is ahead of its account's row.
GenerationBound ==
    /\ \A o \in Owner : phase[o] = "running" => gen[o] <= ownerGen[acct[o]]
    /\ \A a \in Account : written[a] <= ownerGen[a]

\* A session that is up holds the keys its phase has taken.
HoldsKeys ==
    \A o \in Owner : sess[o] = "up" =>
        /\ phase[o] \in {"company", "fence", "running", "cancelled"} => advisory[acct[o]] = o
        /\ phase[o] \in {"fence", "running", "cancelled"} /\ comp[o] # None => advisory[comp[o]] = o

\* The inductive invariant.
LeaseInv ==
    /\ TypeOK
    /\ Shape
    /\ GuardedIsCurrent
    /\ GenerationBound
    /\ GenerationUnique

USE DEF Acquiring, Phase

\* Every initial state satisfies the invariant.
LEMMA LeaseInvInit == Init => LeaseInv
BY LeaseAssumption DEF Init, LeaseInv, TypeOK, Shape, GuardedIsCurrent, GenerationBound, GenerationUnique

\* Every step of a process, or of the server on its behalf, preserves it.
LEMMA LeaseInvNext == LeaseInv /\ [Next]_vars => LeaseInv'
<1> SUFFICES ASSUME LeaseInv, [Next]_vars PROVE LeaseInv'
  OBVIOUS
<1> USE LeaseAssumption
<1> USE DEF LeaseInv, dbVars, leaseVars, txVars, TypeOK, Shape, GuardedIsCurrent, GenerationBound, GenerationUnique
<1>1. ASSUME NEW o \in Owner, NEW a \in Account, ReadIdentity(o, a) PROVE LeaseInv'
  BY <1>1 DEF ReadIdentity
<1>2. ASSUME NEW o \in Owner, LockAccount(o) PROVE LeaseInv'
  BY <1>2 DEF LockAccount
<1>3. ASSUME NEW o \in Owner, LockCompany(o) PROVE LeaseInv'
  BY <1>3 DEF LockCompany
<1>4. ASSUME NEW o \in Owner, AccountLocked(o) PROVE LeaseInv'
  BY <1>4 DEF AccountLocked, Abandon, Unlocked
<1>5. ASSUME NEW o \in Owner, AcquireFails(o) PROVE LeaseInv'
  BY <1>5 DEF AcquireFails, Abandon, Unlocked
<1>6. ASSUME NEW o \in Owner, FenceOwner(o) PROVE LeaseInv'
  BY <1>6 DEF FenceOwner, FenceUpdate, RowShared
<1>7. ASSUME NEW o \in Owner, FenceWithoutOwner(o) PROVE LeaseInv'
  BY <1>7 DEF FenceWithoutOwner, FenceUpdate, RowShared, Abandon, Unlocked
<1>8. ASSUME NEW o \in Owner, SessionDies(o) PROVE LeaseInv'
  BY <1>8 DEF SessionDies, Unlocked
<1>9. ASSUME NEW o \in Owner, MonitorCancels(o) PROVE LeaseInv'
  BY <1>9 DEF MonitorCancels
<1>10. ASSUME NEW o \in Owner, Release(o) PROVE LeaseInv'
  BY <1>10 DEF Release
<1>11. ASSUME NEW o \in Owner, CloseStore(o) PROVE LeaseInv'
  BY <1>11 DEF CloseStore
<1>12. ASSUME NEW o \in Owner, CloseConnection(o) PROVE LeaseInv'
  BY <1>12 DEF CloseConnection, Abandon, Unlocked
<1>13. ASSUME NEW o \in Owner, Restart(o) PROVE LeaseInv'
  BY <1>13 DEF Restart
<1>14. ASSUME NEW o \in Owner, BeginWrite(o) PROVE LeaseInv'
  BY <1>14 DEF BeginWrite
<1>15. ASSUME NEW o \in Owner, GuardSession(o) PROVE LeaseInv'
  BY <1>15 DEF GuardSession
<1>16. ASSUME NEW o \in Owner, GuardSessionFails(o) PROVE LeaseInv'
  BY <1>16 DEF GuardSessionFails, NoTx, CancelLease
<1>17. ASSUME NEW o \in Owner, GuardGeneration(o) PROVE LeaseInv'
  BY <1>17 DEF GuardGeneration
<1>18. ASSUME NEW o \in Owner, GuardGenerationFails(o) PROVE LeaseInv'
  BY <1>18 DEF GuardGenerationFails, NoTx, CancelLease
<1>19. ASSUME NEW o \in Owner, Rollback(o) PROVE LeaseInv'
  BY <1>19 DEF Rollback, NoTx
<1>20. ASSUME NEW o \in Owner, Commit(o) PROVE LeaseInv'
  BY <1>20 DEF Commit, Recorded, NoTx
<1>21. ASSUME NEW o \in Owner, NEW c \in Company \cup {None}, CommitSaveAccount(o, c) PROVE LeaseInv'
  BY <1>21 DEF CommitSaveAccount, Recorded, NoTx
<1>22. CASE UNCHANGED vars
  BY <1>22 DEF vars
<1> QED
  BY <1>1, <1>2, <1>3, <1>4, <1>5, <1>6, <1>7, <1>8, <1>9, <1>10, <1>11, <1>12, <1>13, <1>14,
     <1>15, <1>16, <1>17, <1>18, <1>19, <1>20, <1>21, <1>22 DEF Next

\* The lease's state keeps its type, generations stay within their bound, and
\* the auxiliary facts above hold in every reachable state of locks.go.
THEOREM LeaseInvariant == Spec => []LeaseInv
BY LeaseInvInit, LeaseInvNext, PTL DEF Spec

\* A guarded transaction is the newest owner until it ends, for any number of
\* processes: no takeover between guardOwner's check and the COMMIT.
THEOREM GuardedIsCurrentHolds == Spec => []GuardedIsCurrent
<1>1. LeaseInv => GuardedIsCurrent
  BY DEF LeaseInv
<1> QED
  BY <1>1, LeaseInvariant, PTL

\* Two running leases of one account differ in their generation once the
\* account has a row.
THEOREM GenerationUniqueHolds == Spec => []GenerationUnique
<1>1. LeaseInv => GenerationUnique
  BY DEF LeaseInv
<1> QED
  BY <1>1, LeaseInvariant, PTL

-----------------------------------------------------------------------------
(* What a step does to the two generations of an account. *)

\* Only a takeover moves the row's generation, and only a guarded transaction
\* is recorded as written: everything else leaves both alone.
LEMMA StepOnGenerations ==
    ASSUME LeaseInv, [Next]_vars
    PROVE  \/ ownerGen' = ownerGen /\ written' = written
           \/ \E a \in Account : /\ ownerGen' = [ownerGen EXCEPT ![a] = @ + 1]
                                /\ written' = written
           \/ \E a \in Account : /\ ownerGen' = ownerGen
                                /\ written' = [written EXCEPT ![a] = ownerGen[a]]
<1> DEFINE Goal ==
           \/ ownerGen' = ownerGen /\ written' = written
           \/ \E a \in Account : /\ ownerGen' = [ownerGen EXCEPT ![a] = @ + 1]
                                /\ written' = written
           \/ \E a \in Account : /\ ownerGen' = ownerGen
                                /\ written' = [written EXCEPT ![a] = ownerGen[a]]
<1>1. ASSUME NEW o \in Owner, phase[o] = "fence", FenceUpdate(acct[o]) PROVE Goal
  <2>1. acct[o] \in Account
    BY <1>1 DEF LeaseInv, Shape
  <2> QED
    BY <1>1, <2>1 DEF FenceUpdate
<1>2. ASSUME NEW o \in Owner, txState[o] = "guarded", ownerGen' = ownerGen, written' = Recorded(o) PROVE Goal
  <2>1. txAcct[o] \in Account
    BY <1>2 DEF LeaseInv, Shape
  <2>2. txShared[o] => txGen[o] = ownerGen[txAcct[o]]
    BY <1>2 DEF LeaseInv, GuardedIsCurrent
  <2> QED
    BY <1>2, <2>1, <2>2 DEF Recorded
<1>3. ASSUME NEW o \in Owner, FenceOwner(o) \/ FenceWithoutOwner(o) PROVE Goal
  BY <1>3, <1>1 DEF FenceOwner, FenceWithoutOwner
<1>4. ASSUME NEW o \in Owner, Commit(o) PROVE Goal
  BY <1>4, <1>2 DEF Commit
<1>5. ASSUME NEW o \in Owner, NEW c \in Company \cup {None}, CommitSaveAccount(o, c) PROVE Goal
  BY <1>5, <1>2 DEF CommitSaveAccount
<1>6. ASSUME UNCHANGED dbVars PROVE Goal
  BY <1>6 DEF dbVars
<1> HIDE DEF Goal
<1>7. Goal
  BY <1>3, <1>4, <1>5, <1>6
  DEF Next, vars, ReadIdentity, LockAccount, LockCompany, AccountLocked, AcquireFails, SessionDies,
      MonitorCancels, Release, CloseStore, CloseConnection, Restart, BeginWrite, GuardSession,
      GuardSessionFails, GuardGeneration, GuardGenerationFails, Rollback
<1> QED
  BY <1>7 DEF Goal

\* Writes take effect in the order of ownership, and only with the generation
\* that the account row carries at that moment.
THEOREM CommitsFollowOwnershipHolds == Spec => CommitsFollowOwnership
<1> DEFINE StepOK ==
        \A a \in Account :
            /\ written'[a] # written[a] => written'[a] = ownerGen[a]
            /\ written[a] <= written'[a]
            /\ ownerGen[a] <= ownerGen'[a]
<1>1. LeaseInv /\ [Next]_vars => StepOK
  <2> SUFFICES ASSUME LeaseInv, [Next]_vars PROVE StepOK
    OBVIOUS
  <2> USE LeaseAssumption
  <2>1. /\ ownerGen \in [Account -> 0..MaxGeneration]
        /\ written \in [Account -> 0..MaxGeneration]
        /\ \A a \in Account : written[a] <= ownerGen[a]
    BY DEF LeaseInv, TypeOK, GenerationBound
  <2> QED
    BY <2>1, StepOnGenerations
<1>2. LeaseInv /\ [Next]_vars => [StepOK]_vars
  BY <1>1
<1> QED
  BY <1>2, LeaseInvariant, PTL DEF Spec, CommitsFollowOwnership

\* Ownership implements the abstract fenced register: a takeover of a
\* registered account is TakeOver, a COMMIT under the row lock is Write, and
\* every other step leaves both generations alone.
THEOREM LeaseImplementsFencedWrites == Spec => ImplementsFencedWrites
<1>1. Init => Fenced!FWInit
  BY DEF Init, Fenced!FWInit
<1>2. LeaseInv /\ [Next]_vars => [Fenced!FWNext]_(Fenced!fwVars)
  <2> SUFFICES ASSUME LeaseInv, [Next]_vars PROVE [Fenced!FWNext]_(Fenced!fwVars)
    OBVIOUS
  <2> QED
    BY StepOnGenerations DEF Fenced!FWNext, Fenced!fwVars, Fenced!TakeOver, Fenced!Write
<1> QED
  BY <1>1, <1>2, LeaseInvariant, PTL DEF Spec, ImplementsFencedWrites, Fenced!FWSpec

-----------------------------------------------------------------------------
(* The advisory locks. *)

KeyInv == TypeOK /\ Shape /\ NoOrphanLock /\ HoldsKeys

\* Locks are taken only for the lease's own keys and are all given back.
LEMMA KeyInvNext == KeyInv /\ [Next]_vars /\ LeaseInv' => KeyInv'
<1> SUFFICES ASSUME KeyInv, [Next]_vars, LeaseInv' PROVE NoOrphanLock' /\ HoldsKeys'
  BY DEF KeyInv, LeaseInv
<1> USE LeaseAssumption
<1> USE DEF KeyInv, dbVars, leaseVars, txVars, TypeOK, Shape, NoOrphanLock, HoldsKeys
<1>1. ASSUME NEW o \in Owner, NEW a \in Account, ReadIdentity(o, a) PROVE NoOrphanLock' /\ HoldsKeys'
  BY <1>1 DEF ReadIdentity
<1>2. ASSUME NEW o \in Owner, LockAccount(o) PROVE NoOrphanLock' /\ HoldsKeys'
  BY <1>2 DEF LockAccount
<1>3. ASSUME NEW o \in Owner, LockCompany(o) PROVE NoOrphanLock' /\ HoldsKeys'
  BY <1>3 DEF LockCompany
<1>4. ASSUME NEW o \in Owner, Abandon(o) PROVE NoOrphanLock' /\ HoldsKeys'
  BY <1>4 DEF Abandon, Unlocked
<1>5. ASSUME NEW o \in Owner, SessionDies(o) PROVE NoOrphanLock' /\ HoldsKeys'
  BY <1>5 DEF SessionDies, Unlocked
<1>6. ASSUME NEW o \in Owner, FenceOwner(o) PROVE NoOrphanLock' /\ HoldsKeys'
  BY <1>6 DEF FenceOwner
<1>7. ASSUME NEW o \in Owner, phase[o] = "running", phase' = [phase EXCEPT ![o] = "cancelled"],
             UNCHANGED <<advisory, acct, comp, sess>>
      PROVE NoOrphanLock' /\ HoldsKeys'
  BY <1>7
<1>8. ASSUME UNCHANGED <<advisory, phase, acct, comp, sess>> PROVE NoOrphanLock' /\ HoldsKeys'
  BY <1>8
<1>9. ASSUME NEW o \in Owner, CancelLease(o), UNCHANGED <<advisory, acct, comp, sess>>
      PROVE NoOrphanLock' /\ HoldsKeys'
  BY <1>9 DEF CancelLease
<1>10. ASSUME NEW o \in Owner, CloseStore(o) PROVE NoOrphanLock' /\ HoldsKeys'
  BY <1>10, <1>9 DEF CloseStore, CancelLease
<1> HIDE DEF KeyInv, TypeOK, Shape, NoOrphanLock, HoldsKeys
<1> QED
  BY <1>1, <1>2, <1>3, <1>4, <1>5, <1>6, <1>7, <1>8, <1>9, <1>10
  DEF Next, vars, AccountLocked, AcquireFails, FenceWithoutOwner, MonitorCancels, Release, CloseConnection,
      Restart, BeginWrite, GuardSession, GuardSessionFails, GuardGeneration, GuardGenerationFails,
      Rollback, Commit, CommitSaveAccount

\* No advisory lock outlives the acquisition or the lease it was taken for.
THEOREM NoOrphanLockHolds == Spec => []NoOrphanLock
<1>1. Init => KeyInv
  BY LeaseAssumption, LeaseInvInit DEF Init, LeaseInv, KeyInv, NoOrphanLock, HoldsKeys
<1>2. KeyInv /\ UNCHANGED vars => KeyInv'
  BY DEF KeyInv, TypeOK, Shape, NoOrphanLock, HoldsKeys, vars, dbVars, leaseVars, txVars
<1>3. KeyInv => NoOrphanLock
  BY DEF KeyInv
<1> QED
  BY <1>1, <1>2, <1>3, LeaseInvariant, KeyInvNext, PTL DEF Spec

\* Two leases whose sessions live never share an account or a company.
THEOREM LiveLeaseExclusiveHolds == Spec => []LiveLeaseExclusive
<1>1. Init => KeyInv
  BY LeaseAssumption, LeaseInvInit DEF Init, LeaseInv, KeyInv, NoOrphanLock, HoldsKeys
<1>2. KeyInv => LiveLeaseExclusive
  BY LeaseAssumption DEF KeyInv, HoldsKeys, LiveLeaseExclusive
<1> QED
  BY <1>1, <1>2, LeaseInvariant, KeyInvNext, PTL DEF Spec
=============================================================================
