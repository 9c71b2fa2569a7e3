------------------------------ MODULE Passengers ------------------------------
(***************************************************************************)
(* The passages of one ship: internal/engine/passengers.go,                *)
(* passenger_reconcile.go, passenger_quarantine.go and                     *)
(* passenger_quarantine_settlements.go, and internal/store/passengers.go,  *)
(* passenger_receipts.go and passenger_quarantine*.go                      *)
(*                                                                         *)
(* The ship goes from port 1 to 2 to 3; groups "a" and "b" wait at port 1, *)
(* "c" at port 2.  Prices are two steps of a ladder, quotes, safety and    *)
(* rival plans are verdicts, and a write that fails or a process that dies *)
(* between two writes is a fault, of which there are MaxFaults.  Bills are  *)
(* BillClaims' subject; here a passage's costs are a sum of units.         *)
(***************************************************************************)
EXTENDS Naturals, Sequences, FiniteSets, FiniteSetsExt, SequencesExt

CONSTANTS
    Nil,
    Styles,         \* how the server writes fare events: tagged, stamped
    Crowds,         \* the sets of groups that may come
    MaxOffers, MaxGen, MaxCost, MaxFaults

ASSUME PassengersAssumption ==
    /\ {MaxOffers, MaxGen, MaxCost, MaxFaults} \subseteq Nat
    /\ Styles \subseteq [tagged : BOOLEAN, stamped : BOOLEAN]
    /\ \A c \in Crowds : c \subseteq {"a", "b", "c"}

VARIABLES
    pw,         \* the server: ship, port, clock, offers, groups and boarding times
    evs,        \* fare events, with the time they were recorded
    pm,         \* the mission row of the ship
    acc,        \* settlements, passenger_receipts, passenger_quarantine_archives
    snap,       \* _passenger_boarding_ships, _passenger_completion_wait, _passenger_refusals
    pg          \* generations so far, what each spent, which groups boarded, set back again; faults

pvars == <<pw, evs, pm, acc, snap, pg>>

Group == {"a", "b", "c"}
TripOf(g) == IF g = "c" THEN 2 ELSE 1
Gen == 1..MaxGen
Floor == 1

\* passenger_receipts: a batch completed without fares.
Archive ==
    [gen : Nat, gr : SUBSET Group, cost : Nat, st : {"open", "resolved", "quarantined", "expired"}, done : Nat,
     start : Nat]

\* The mission row of a passage: its request, its receipts in hand.
Requests ==
    [stage : {"offer", "cancel", "depart"}, arg : Nat, fare : Nat, base : Nat,
     st : {"sent", "ok", "lost", "refused", "conflict"}, done : BOOLEAN]
Fares ==
    [id : {"fare"} \X (SUBSET Group) \X {1, 2}, gen : Nat, ev : SUBSET ((SUBSET Group) \X {1, 2}), cost : Nat,
     known : BOOLEAN]
Passages ==
    [gen : Nat, trip : Nat, start : Nat, offer : Nat, fare : Nat, reoffer : BOOLEAN, abandon : BOOLEAN,
     groups : SUBSET Group, act : Requests \cup {Nil}, cost : Nat, receipts : Seq(Fares),
     unknown : Archive \cup {Nil}, q : BOOLEAN, recovery : BOOLEAN, extra : Nat \cup {Nil}]
ASSUME PassengersNil == Nil \notin Nat \cup Archive \cup Passages

PassengersInit ==
    /\ \E s \in Styles, c \in Crowds :
          pw = [ship |-> "port", port |-> 1, now |-> 0, offers |-> << >>, style |-> s, other |-> FALSE,
                grp |-> [g \in c |-> "waiting"], bt |-> [g \in c |-> 0]]
    /\ evs = {} /\ pm = Nil
    /\ acc = [rows |-> {}, rec |-> [k \in Gen |-> Nil], arch |-> [k \in Gen |-> Nil]]
    /\ snap = [hint |-> FALSE, wait |-> Nil, latch |-> {}]
    /\ pg = [gen |-> 0, spent |-> [k \in Gen |-> 0], had |-> [k \in Gen |-> {}], again |-> {}, faults |-> 0]

Coming  == DOMAIN pw.grp
Aboard  == {g \in Coming : pw.grp[g] = "aboard"}
Waiting == {g \in Coming : pw.grp[g] = "waiting" /\ TripOf(g) = pw.port}
Open    == {i \in DOMAIN pw.offers : pw.offers[i].open}
Sum(S)  == SumFunction([r \in S |-> r.cost])

\* refreshPassengers asks who is aboard only of a ship with an open offer, an
\* occupied hold or a boarding hint; the groups it sees leave the hint.
AboardFresh == Open # {} \/ Aboard # {} \/ snap.hint
EmptyHold   == Aboard = {} /\ AboardFresh

May(faulty) == faulty => pg.faults < MaxFaults
Faults(faulty) == IF faulty THEN pg.faults + 1 ELSE pg.faults

-----------------------------------------------------------------------------
(* The server (external) *)

\* A group boards; an offer that is full, or old, closes.
Boards(g) ==
    /\ pw.ship = "port" /\ g \in Waiting
    /\ Open # {} /\ pw' = [pw EXCEPT !.grp[g] = "aboard", !.bt[g] = pw.now]
    /\ UNCHANGED <<evs, pm, acc, snap, pg>>

OfferCloses ==
    /\ \E i \in Open : pw' = [pw EXCEPT !.offers[i].open = FALSE]
    /\ UNCHANGED <<evs, pm, acc, snap, pg>>

\* An offer this mission did not make: a request given up on that was done after
\* all, or the player's own, before the ship is promised to a group.
OtherOffer ==
    /\ pm # Nil => pm.groups = {}
    /\ pw.ship = "port" /\ pw.port <= 2 /\ ~pw.other /\ Open = {} /\ Len(pw.offers) < MaxOffers
    /\ pw' = [pw EXCEPT !.offers = Append(@, [open |-> TRUE, fare |-> 2]), !.other = TRUE]
    /\ UNCHANGED <<evs, pm, acc, snap, pg>>

\* A terminal event of the groups gs, as the server writes it.
FareEvent(gs, g, t, lost, n) ==
    [gs |-> gs, tag |-> IF pw.style.tagged THEN g ELSE Nil, at |-> IF pw.style.stamped THEN t ELSE Nil,
     lost |-> lost, n |-> n, rec |-> Nil]

Arrives ==
    /\ pw.ship = "sea"
    /\ pw' = [pw EXCEPT !.ship = "port", !.port = @ + 1, !.now = @ + 1,
                        !.grp = [g \in Coming |-> IF g \in Aboard THEN "landed" ELSE @[g]]]
    /\ evs' = evs \cup {FareEvent({g}, g, pw.now + 1, FALSE, 1) : g \in Aboard}
    /\ UNCHANGED <<pm, acc, snap, pg>>

\* A lost ship reports its passengers once and leaves the fleet.
Sinks ==
    /\ pw.ship = "sea"
    /\ pw' = [pw EXCEPT !.ship = "gone", !.now = @ + 1,
                        !.grp = [g \in Coming |-> IF g \in Aboard THEN "lost" ELSE @[g]]]
    /\ evs' = evs \cup (IF Aboard = {} THEN {} ELSE {FareEvent(Aboard, Nil, pw.now + 1, TRUE, 1)})
    /\ UNCHANGED <<pm, acc, snap, pg>>

\* A fare reported again under another identity.
Repeats ==
    /\ pg.faults < MaxFaults
    /\ \E e \in evs : /\ ~e.lost /\ (\A f \in evs : f.gs = e.gs => f.n = 1)
                      /\ evs' = evs \cup {[e EXCEPT !.n = 2, !.rec = Nil]}
    /\ pg' = [pg EXCEPT !.faults = @ + 1]
    /\ UNCHANGED <<pw, pm, acc, snap>>

\* Events arrive in any order, and long after what they tell.
Recorded ==
    /\ \E e \in evs : e.rec = Nil /\ evs' = (evs \ {e}) \cup {[e EXCEPT !.rec = pw.now]}
    /\ UNCHANGED <<pw, pm, acc, snap, pg>>

Request(stage, arg, fare) ==
    [stage |-> stage, arg |-> arg, fare |-> fare, base |-> Len(pw.offers), st |-> "sent", done |-> FALSE]

Pending == pm # Nil /\ pm.act # Nil /\ pm.act.st \in {"sent", "lost"} /\ ~pm.act.done

Effect(a) ==
    CASE a.stage = "offer"  -> [pw EXCEPT !.offers = Append(@, [open |-> TRUE, fare |-> a.fare])]
      [] a.stage = "cancel" -> [pw EXCEPT !.offers[a.arg].open = FALSE]
      [] a.stage = "depart" -> [pw EXCEPT !.ship = "sea"]

\* A request is done and answered, done and its answer lost, or done after its
\* sender gave up on it.
ServerActs ==
    /\ Pending /\ (pm.act.stage = "offer" => Open = {} /\ Len(pw.offers) < MaxOffers /\ pw.ship = "port")
    /\ pw' = Effect(pm.act)
    /\ \E st \in {"ok", "lost"} :
          /\ pm.act.st = "lost" => st = "lost"
          /\ LET f == st = "lost" /\ pm.act.st = "sent"
             IN  May(f) /\ pg' = [pg EXCEPT !.faults = Faults(f)]
          /\ pm' = [pm EXCEPT !.act.done = TRUE, !.act.st = st]
    /\ UNCHANGED <<evs, acc, snap>>

RequestLost ==
    /\ Pending /\ pm.act.st = "sent" /\ pg.faults < MaxFaults
    /\ pm' = [pm EXCEPT !.act.st = "lost"]
    /\ pg' = [pg EXCEPT !.faults = @ + 1]
    /\ UNCHANGED <<pw, evs, acc, snap>>

\* 409 for a second open offer, 4xx for an offer the server does not take.
ServerRefuses ==
    /\ Pending /\ pm.act.st = "sent" /\ pm.act.stage = "offer"
    /\ pm' = [pm EXCEPT !.act.st = IF Open # {} THEN "conflict" ELSE "refused"]
    /\ UNCHANGED <<pw, evs, acc, snap, pg>>

-----------------------------------------------------------------------------
(* Fare events and the passage they belong to *)

\* passengerTerminalAt: an untagged event needs its source time.
RecordingTime(e) == IF e.at # Nil THEN e.at ELSE e.rec
PassengerTerminalAt(e) == IF e.at # Nil THEN e.at ELSE IF e.tag # Nil THEN e.rec ELSE Nil

Fits(e, g) ==
    /\ e.tag # Nil => e.tag = g /\ PassengerTerminalAt(e) >= pw.bt[g]
    /\ e.tag = Nil => PassengerTerminalAt(e) > pw.bt[g]

\* PassengerEventsSince, and what of it has a time.
Known(since) == {e \in evs : e.rec # Nil /\ e.rec >= since /\ PassengerTerminalAt(e) # Nil}

\* The events that tell the end of one group of the batch gs.
TerminalOf(gs, since, g) == {e \in Known(since) : {x \in gs : Fits(e, x)} = {g}}

\* The events that tell the end of the batch, whichever group they are of.
BatchTerminal(gs, since) ==
    LET started == Min({pw.bt[g] : g \in gs})
    IN  {e \in Known(since) : /\ e.tag # Nil => e.tag \in gs /\ PassengerTerminalAt(e) >= started
                              /\ e.tag = Nil => PassengerTerminalAt(e) > started}

WholeShipLoss(E) == E # {} /\ \A e \in E : e.lost

\* A share of the costs for each of the batch's settlements; the last takes
\* what is left.
Shares(n, cost, up) ==
    LET first == IF up THEN (cost + 1) \div 2 ELSE cost \div 2
    IN  IF n = 1 THEN <<cost>> ELSE <<first, cost - first>>

Receipts(E, up) ==
    LET s == SetToSeq(E)
    IN  [i \in 1..Len(s) |-> [id |-> <<"fare", s[i].gs, s[i].n>>, gen |-> pm.gen, ev |-> {<<s[i].gs, s[i].n>>},
                              cost |-> Shares(Len(s), pm.cost, up)[i], known |-> TRUE]]

-----------------------------------------------------------------------------
(* Quarantine *)

\* PassengerSettlementCosts: what ordinary receipts of the generation carry.
Marker(k) == {<<"mark", k>>, <<"recovery", k>>}
Carried(a, k) == Sum({r \in a.rows : r.gen = k /\ r.id \notin Marker(k)})

\* archiveQuarantinedPassage: the first archive stays, and so does the residual
\* its marker was given.
MarkerFull(a, k, first) == first
MarkerResidual(a, k, first) == IF Carried(a, k) >= first THEN 0 ELSE first - Carried(a, k)

ArchiveQuarantined(a, m) ==
    LET first == IF a.arch[m.gen] = Nil THEN m.cost ELSE a.arch[m.gen]
        marked == \E r \in a.rows : r.id = <<"mark", m.gen>>
    IN  [a EXCEPT !.arch[m.gen] = first,
                  !.rows = IF marked THEN @
                           ELSE @ \cup {[id |-> <<"mark", m.gen>>, gen |-> m.gen, ev |-> {}, known |-> FALSE,
                                         cost |-> MarkerResidual(a, m.gen, first)]}]

\* The recovery of this passage suffered a setback itself.
Again(setback) == IF setback THEN {pm.gen} ELSE {}

\* quarantinePassage, from the store a: the intent is kept, the hull will need
\* its aboard capture, and an intent without a request is archived at once.
QuarantinePassage(m, a) ==
    \E faulty \in BOOLEAN :
       /\ May(faulty) /\ pg' = [pg EXCEPT !.faults = Faults(faulty), !.again = @ \cup Again(m.recovery)]
       /\ pm' = [m EXCEPT !.q = TRUE, !.recovery = FALSE]
       /\ snap' = [snap EXCEPT !.hint = TRUE]
       /\ acc' = IF faulty \/ m.act # Nil THEN a ELSE ArchiveQuarantined(a, m)

\* An integrity failure while a lost request is resolved (dispatch): its loss is
\* the fault.
RequestDamaged ==
    /\ pm # Nil /\ pm.act # Nil /\ ~pm.q /\ pm.act.st = "lost"
    /\ pm' = [pm EXCEPT !.q = TRUE, !.recovery = FALSE]
    /\ snap' = [snap EXCEPT !.hint = TRUE]
    /\ pg' = [pg EXCEPT !.again = @ \cup Again(pm.recovery)]
    /\ UNCHANGED <<pw, evs, acc>>

\* retireQuarantinedPassageAction
RetireQuarantinedAction ==
    /\ pm # Nil /\ pm.q /\ pm.act # Nil
    /\ acc' = ArchiveQuarantined(acc, pm)
    /\ snap' = [snap EXCEPT !.hint = TRUE]
    /\ pm' = [pm EXCEPT !.act = Nil]
    /\ UNCHANGED <<pw, evs, pg>>

\* releaseQuarantinedPassage: a recovery's own costs, then the hull.  A marker
\* that an earlier recovery left is a conflict.
Release ==
    IF pm.recovery /\ pm.extra = Nil /\ \E r \in acc.rows : r.id = <<"recovery", pm.gen>>
    THEN QuarantinePassage(pm, acc) /\ UNCHANGED <<pw, evs>>
    ELSE \E faulty \in BOOLEAN :
       LET a == ArchiveQuarantined(acc, pm)
           extra == IF pm.extra # Nil THEN pm.extra ELSE pm.cost - a.arch[pm.gen]
           marks == IF pm.recovery THEN {[id |-> <<"recovery", pm.gen>>, gen |-> pm.gen, ev |-> {}, cost |-> extra, known |-> FALSE]}
                    ELSE {}
       IN  /\ May(faulty) /\ pg' = [pg EXCEPT !.faults = Faults(faulty)]
           /\ acc' = [a EXCEPT !.rows = @ \cup marks]
           /\ snap' = [snap EXCEPT !.hint = FALSE]
           /\ pm' = IF faulty THEN [pm EXCEPT !.extra = IF pm.recovery THEN extra ELSE Nil] ELSE Nil
           /\ UNCHANGED <<pw, evs>>

\* driveQuarantinedPassage
DriveQuarantined ==
    /\ pm # Nil /\ pm.q /\ pm.act = Nil /\ pw.ship # "gone"
    /\ IF ~AboardFresh
       THEN /\ snap' = [snap EXCEPT !.hint = TRUE]
            /\ UNCHANGED <<pw, evs, pm, acc, pg>>
       ELSE IF Aboard = {} /\ Open = {} THEN Release
       ELSE /\ acc' = ArchiveQuarantined(acc, pm)
            /\ pm' = [pm EXCEPT !.q = FALSE, !.recovery = TRUE, !.groups = Aboard, !.abandon = TRUE, !.offer = 0,
                                !.reoffer = FALSE, !.unknown = Nil, !.receipts = << >>, !.extra = Nil]
            /\ snap' = [snap EXCEPT !.hint = @ \/ Aboard # {}]
            /\ UNCHANGED <<pw, evs, pg>>

\* provisionMission: what the mission may spend on stores before it sails.
Stores == IF pm.cost < MaxCost THEN 1 ELSE 0
Spend == pg' = [pg EXCEPT !.spent[pm.gen] = @ + Stores, !.again = @ \cup Again(pm.extra # Nil)]

Stage(m, stage, arg) == pm' = [m EXCEPT !.act = Request(stage, arg, m.fare)]

\* drivePassengerRecovery: navigation only.
DriveRecovery ==
    /\ pm # Nil /\ pm.recovery /\ pm.act = Nil /\ pw.ship = "port" /\ AboardFresh
    /\ \/ /\ Open # {}
          /\ \E i \in Open : Stage([pm EXCEPT !.groups = Aboard, !.offer = i], "cancel", i)
          /\ UNCHANGED <<pw, evs, acc, snap, pg>>
       \/ Open = {} /\ Aboard = {} /\ Release
       \/ /\ Open = {} /\ Aboard # {}
          /\ Spend /\ Stage([pm EXCEPT !.groups = Aboard, !.cost = @ + Stores], "depart", 0)
          /\ UNCHANGED <<pw, evs, acc, snap>>

-----------------------------------------------------------------------------
(* Admission *)

NewMission ==
    [gen |-> pg.gen + 1, trip |-> pw.port, start |-> pw.now, offer |-> 0, fare |-> 1, reoffer |-> FALSE, abandon |-> TRUE,
     groups |-> {}, act |-> Nil, cost |-> 0, receipts |-> << >>, unknown |-> Nil, q |-> FALSE, recovery |-> FALSE,
     extra |-> Nil]

Admit(m) ==
    /\ pm = Nil /\ pg.gen < MaxGen
    /\ pm' = m
    /\ pg' = [pg EXCEPT !.gen = @ + 1, !.spent[pg.gen + 1] = m.cost, !.had[pg.gen + 1] = m.groups]
    /\ snap' = [snap EXCEPT !.hint = @ \/ m.groups # {}]
    /\ UNCHANGED <<pw, evs, acc>>

\* considerPassage: an offer that is open is recovered, never posted twice, and
\* the groups that refused are not asked again.  The first stores are bought.
ConsiderPassage ==
    /\ pw.ship = "port" /\ Aboard = {}
    /\ \/ \E i \in Open : Admit([NewMission EXCEPT !.offer = i, !.fare = pw.offers[i].fare])
       \/ /\ Open = {} /\ Waiting # {} /\ Waiting # snap.latch
          /\ Admit([NewMission EXCEPT !.fare = 2, !.abandon = FALSE, !.cost = 1])

\* recoverPassage
RecoverPassage ==
    /\ pw.ship # "gone" /\ Aboard # {}
    /\ Admit([NewMission EXCEPT !.groups = Aboard])

-----------------------------------------------------------------------------
(* drivePassage *)

Driven == pm # Nil /\ pm.act = Nil /\ ~pm.q
Idle   == Driven /\ ~pm.recovery
Here   == Idle /\ pm.unknown = Nil /\ pm.receipts = << >>

LearnUnhinted(new) ==
    /\ new \ pm.groups # {}
    /\ pm' = [pm EXCEPT !.groups = @ \cup new]
    /\ pg' = [pg EXCEPT !.had[pm.gen] = @ \cup new]
    /\ UNCHANGED <<pw, evs, acc, snap>>
Learn(new) ==
    /\ new \ pm.groups # {}
    /\ pm' = [pm EXCEPT !.groups = @ \cup new]
    /\ snap' = [snap EXCEPT !.hint = TRUE]
    /\ pg' = [pg EXCEPT !.had[pm.gen] = @ \cup new]
    /\ UNCHANGED <<pw, evs, acc>>

\* syncPassage: the groups aboard, from their capture or from boarding events.
SyncAboard == Here /\ pw.ship # "gone" /\ (\A g \in Aboard : TripOf(g) = pm.trip) /\ Learn(Aboard)
SyncBoarded(g) == Here /\ pw.grp[g] # "waiting" /\ TripOf(g) = pm.trip /\ pw.bt[g] >= pm.start /\ Learn({g})

Prepare(E, up) ==
    /\ pm' = [pm EXCEPT !.receipts = Receipts(E, up)]
    /\ UNCHANGED <<pw, evs, acc, snap, pg>>

\* syncPassage and preparePassengerBatchReceipts: fares become receipts once
\* every group has its event, or the empty hold its count of them.
SyncReceipts ==
    /\ Driven /\ (pm.recovery => pw.ship = "gone") /\ pm.receipts = << >>
    /\ pm.unknown # Nil => pw.ship = "gone"
    /\ pm.groups # {} /\ Aboard \subseteq pm.groups
    /\ LET gs == pm.groups
           terminal(g) == TerminalOf(gs, pm.start, g)
           batch == BatchTerminal(gs, pm.start)
       IN  IF \E g \in gs : Cardinality(terminal(g)) > 1
           THEN QuarantinePassage(pm, acc) /\ UNCHANGED <<pw, evs>>
           ELSE IF \A g \in gs : terminal(g) # {}
           THEN Prepare(UNION {terminal(g) : g \in gs}, TRUE)
           ELSE /\ EmptyHold \/ pw.ship = "gone"
                /\ IF Cardinality(batch) > Cardinality(gs)
                   THEN QuarantinePassage(pm, acc) /\ UNCHANGED <<pw, evs>>
                   ELSE /\ Cardinality(batch) = Cardinality(gs) \/ WholeShipLoss(batch)
                        /\ Prepare(batch, FALSE)

\* validatePassageSettlement: an event counts for one settlement.
Taken(a, r) == \E x \in a.rows : IF x.id = r.id THEN x # r ELSE x.ev \cap r.ev # {}

\* The receipts are put one by one; then the hint and the mission go.
PutReceipts ==
    /\ Idle /\ pm.receipts # << >> /\ pm.unknown = Nil
    /\ LET n == Len(pm.receipts)
           bad == {i \in 1..n : Taken(acc, pm.receipts[i])}
           put(i) == [acc EXCEPT !.rows = @ \cup {pm.receipts[j] : j \in 1..i}]
       IN  IF bad # {} THEN QuarantinePassage(pm, put(Min(bad) - 1)) /\ UNCHANGED <<pw, evs>>
           ELSE \E i \in 0..n, faulty \in BOOLEAN :
                   /\ (~faulty => i = n) /\ May(faulty) /\ pg' = [pg EXCEPT !.faults = Faults(faulty)]
                   /\ acc' = put(i)
                   /\ pm' = IF faulty THEN pm ELSE Nil
                   /\ snap' = IF i = n THEN [snap EXCEPT !.hint = FALSE] ELSE snap
                   /\ UNCHANGED <<pw, evs>>

-----------------------------------------------------------------------------
(* Completion without fare events *)

Arrived == pw.ship = "port" /\ pw.port > pm.trip
Waits   == snap.wait # Nil /\ pm # Nil /\ snap.wait.gen = pm.gen

\* reconcilePassengerCompletion: the empty hold is first seen, or no longer.
BeginWait ==
    /\ Here /\ pm.groups # {} /\ Arrived /\ Aboard \subseteq pm.groups
    /\ EmptyHold /\ ~Waits
    /\ snap' = [snap EXCEPT !.wait = [gen |-> pm.gen, at |-> pw.now]]
    /\ UNCHANGED <<pw, evs, pm, acc, pg>>

CaptureStale ==
    /\ Here /\ Arrived /\ Waits /\ pg.faults < MaxFaults
    /\ snap' = [snap EXCEPT !.wait = Nil]
    /\ pg' = [pg EXCEPT !.faults = @ + 1]
    /\ UNCHANGED <<pw, evs, pm, acc>>

RestRow(r) == [id |-> <<"rest", r.gen>>, gen |-> r.gen, ev |-> {}, cost |-> r.cost, known |-> FALSE]
HasRest(a, k) == \E r \in a.rows : r.id = <<"rest", k>>

\* PutPendingPassengerReceipt, up to one of its two writes: the archive, and
\* the unknown settlement of an archive still open.
ArchiveRow(a, m) == IF a.rec[m.gen] = Nil THEN [a EXCEPT !.rec[m.gen] = m.unknown] ELSE a
RestSettled(a, k) ==
    IF a.rec[k].st = "open" /\ ~HasRest(a, k) THEN [a EXCEPT !.rows = @ \cup {RestRow(a.rec[k])}] ELSE a

\* releasePassengerReceiptMission: only the mission the archive is of.
Released(k) ==
    [hint |-> IF pm # Nil /\ pm.gen = k THEN FALSE ELSE snap.hint,
     wait |-> IF snap.wait # Nil /\ snap.wait.gen = k THEN Nil ELSE snap.wait, latch |-> snap.latch]
MissionOf(k) == pm # Nil /\ pm.gen = k

\* reconcilePassengerCompletion after two game hours: save, archive, settle,
\* snapshot, delete.  It may stop after each.
Completes ==
    /\ Idle /\ pm.receipts = << >> /\ pm.groups # {}
    /\ pm.unknown = Nil => Arrived /\ EmptyHold /\ Waits /\ Aboard \subseteq pm.groups
    /\ pm.unknown # Nil => pw.ship # "gone"
    /\ IF ~Waits THEN QuarantinePassage(pm, acc) /\ UNCHANGED <<pw, evs>>
       ELSE LET u == [gen |-> pm.gen, gr |-> pm.groups, cost |-> pm.cost, st |-> "open", done |-> snap.wait.at,
                      start |-> Min({pw.bt[g] : g \in pm.groups})]
                m == IF pm.unknown = Nil THEN [pm EXCEPT !.unknown = u] ELSE pm
                a == ArchiveRow(acc, m)
            IN  \E i \in 1..5 :
                   /\ May(i < 5) /\ pg' = [pg EXCEPT !.faults = Faults(i < 5)]
                   /\ acc' = (CASE i = 1 -> acc [] i = 2 -> a [] OTHER -> RestSettled(a, m.gen))
                   /\ snap' = IF i < 4 THEN snap ELSE Released(m.gen)
                   /\ pm' = IF i < 5 THEN m ELSE Nil
                   /\ UNCHANGED <<pw, evs>>

\* passengerReceiptTerminal: what tells the end of an archived batch.
ReceiptTerminal(r) ==
    {e \in Known(r.start) :
        /\ e.tag # Nil => e.tag \in r.gr /\ PassengerTerminalAt(e) >= pw.bt[e.tag]
        /\ e.tag = Nil => PassengerTerminalAt(e) > r.start /\ PassengerTerminalAt(e) <= r.done}

ReceiptConflict(r, E) ==
    \/ Cardinality(E) > Cardinality(r.gr)
    \/ \E e, f \in E : e # f /\ e.tag # Nil /\ e.tag = f.tag

\* ResolvePassengerReceipt, or the conflict that closes the receipt.
Resolved(a, k) ==
    LET r == a.rec[k]
        E == ReceiptTerminal(r)
        full == Cardinality(E) = Cardinality(r.gr) \/ WholeShipLoss(E)
        row == [RestRow(r) EXCEPT !.ev = {<<e.gs, e.n>> : e \in E}, !.known = TRUE]
        used == \E x \in a.rows : x.id # row.id /\ x.ev \cap row.ev # {}
    IN  IF ReceiptConflict(r, E) \/ (full /\ used) THEN [a EXCEPT !.rec[k].st = "quarantined"]
        ELSE IF full /\ E # {} THEN [a EXCEPT !.rows = (@ \ {RestRow(r)}) \cup {row}, !.rec[k].st = "resolved"]
        ELSE a

Swept(s, m) == IF s.wait # Nil /\ (m = Nil \/ m.gen # s.wait.gen) THEN [s EXCEPT !.wait = Nil] ELSE s

\* reconcilePassengerReceiptsAt for one receipt that is due: settle what is
\* missing, release the mission, look for the events.
ScanReceipt(k) ==
    /\ acc.rec[k] # Nil /\ acc.rec[k].st = "open"
    /\ \E i \in 1..3 :
          LET a == RestSettled(acc, k)
              m == IF MissionOf(k) /\ i = 3 THEN Nil ELSE pm
          IN  /\ May(i < 3) /\ pg' = [pg EXCEPT !.faults = Faults(i < 3)]
              /\ acc' = IF i = 3 THEN Resolved(a, k) ELSE a
              /\ pm' = m
              /\ snap' = IF i = 1 THEN snap ELSE Swept(Released(k), m)
              /\ UNCHANGED <<pw, evs>>
    /\ <<acc', pm', snap'>> # <<acc, pm, snap>>

\* Seven days without proof: the proceeds stay unknown.
ReceiptExpires(k) ==
    /\ acc.rec[k] # Nil /\ acc.rec[k].st = "open"
    /\ acc' = [RestSettled(acc, k) EXCEPT !.rec[k].st = "expired"]
    /\ snap' = Swept(snap, pm)
    /\ UNCHANGED <<pw, evs, pm, pg>>

\* The tail of the same handler, when no receipt is due.
SweepWait ==
    /\ Swept(snap, pm) # snap /\ snap' = Swept(snap, pm)
    /\ UNCHANGED <<pw, evs, pm, acc, pg>>

-----------------------------------------------------------------------------
(* drivePassage at the port of departure *)

AtOrigin == Here /\ pw.ship = "port" /\ pw.port = pm.trip /\ Aboard \subseteq pm.groups
Ours     == AtOrigin /\ \A i \in Open : i = pm.offer
Keeps    == UNCHANGED <<pw, evs, acc, snap, pg>>
Cancel(m) == \E i \in Open : Stage(m, "cancel", i)
DeleteMission == pm' = Nil /\ Keeps

\* An offer the mission does not know cannot inherit its floor.
AdoptOffer ==
    /\ AtOrigin
    /\ \E i \in Open : /\ i # pm.offer
                       /\ pm' = [pm EXCEPT !.offer = i, !.abandon = TRUE, !.reoffer = FALSE, !.fare = pw.offers[i].fare]
    /\ Keeps

\* passengerOpenOfferUnsafe
CancelUnsafe ==
    /\ Ours /\ Open # {} /\ Cancel([pm EXCEPT !.abandon = TRUE, !.reoffer = FALSE]) /\ Keeps

\* A cargo plan pays more than an offer nobody took.
BetterPlan ==
    /\ Ours /\ pm.groups = {} /\ ~pm.abandon
    /\ \/ Open = {} /\ DeleteMission
       \/ Open # {} /\ Cancel([pm EXCEPT !.abandon = TRUE, !.reoffer = FALSE]) /\ Keeps

\* The promise is kept before more is promised: close the offer, then sail.
CancelToSail == Ours /\ pm.groups # {} /\ Open # {} /\ Cancel(pm) /\ Keeps

\* passageDepartureReady: the groups aboard are the mission's.
Depart ==
    /\ Ours /\ pm.groups # {} /\ Open = {} /\ Aboard # {}
    /\ Spend /\ Stage([pm EXCEPT !.cost = @ + Stores], "depart", 0)
    /\ UNCHANGED <<pw, evs, acc, snap>>

\* Abandoned, or boarding closes.
CloseOut ==
    /\ Ours /\ pm.groups = {}
    /\ \/ Open # {} /\ Cancel(pm) /\ Keeps
       \/ Open = {} /\ DeleteMission

\* The offer closed by itself.
OfferEnded == Ours /\ pm.groups = {} /\ ~pm.abandon /\ Open = {} /\ pm.offer # 0 /\ ~pm.reoffer /\ DeleteMission

\* passengerActionReady, the newest-offer fence and the request.
PostOffer ==
    /\ Ours /\ pm.groups = {} /\ ~pm.abandon /\ Open = {} /\ (pm.offer = 0 \/ pm.reoffer)
    /\ Stage(pm, "offer", 0) /\ Keeps

QuoteFails ==
    /\ Ours /\ pm.groups = {} /\ ~pm.abandon /\ Open = {} /\ (pm.offer = 0 \/ pm.reoffer)
    /\ pm' = [pm EXCEPT !.abandon = TRUE] /\ Keeps

\* The next fare of the ladder; a lower one replaces it after twelve hours.
Reprice ==
    /\ Ours /\ pm.groups = {} /\ ~pm.abandon /\ Open # {} /\ (pm.reoffer \/ pm.fare > Floor)
    /\ Cancel([pm EXCEPT !.fare = IF pm.reoffer THEN @ ELSE Floor, !.reoffer = TRUE]) /\ Keeps

-----------------------------------------------------------------------------
(* consumePassengerResult and reconcilePassengerAction *)

Answered == pm # Nil /\ ~pm.q /\ pm.act # Nil

\* Every offer newer than the fence that has the request's fare, or, after a
\* conflict, the one that is open.
MatchedOffers ==
    IF pm.act.st = "conflict" THEN Open
    ELSE {i \in DOMAIN pw.offers : i > pm.act.base /\ pw.offers[i].fare = pm.act.fare}

\* finishPassengerAction
Finish(i) ==
    IF pm.act.stage = "offer" THEN [pm EXCEPT !.act = Nil, !.offer = i, !.reoffer = FALSE]
    ELSE [pm EXCEPT !.act = Nil, !.offer = IF @ = pm.act.arg THEN 0 ELSE @]

Concludes ==
    /\ Answered /\ pm.act.st = "ok"
    /\ pm' = IF pm.act.stage = "depart" THEN [pm EXCEPT !.act = Nil] ELSE Finish(Len(pw.offers))
    /\ Keeps

\* rejectPassengerAction
Rejected ==
    /\ pm' = [pm EXCEPT !.act = Nil, !.abandon = TRUE]
    /\ snap' = [snap EXCEPT !.latch = Waiting]
    /\ UNCHANGED <<pw, evs, acc, pg>>

ReconcileOffer ==
    /\ Answered /\ pm.act.stage = "offer" /\ pm.act.st \in {"lost", "conflict", "refused"}
    /\ \/ pm.act.st = "refused" /\ Rejected
       \/ pm.act.st = "conflict" /\ MatchedOffers = {} /\ Rejected
       \/ /\ pm.act.st = "conflict"
          /\ \E i \in MatchedOffers, above \in BOOLEAN :
                pm' = [pm EXCEPT !.act = Nil, !.offer = i, !.reoffer = FALSE, !.fare = pw.offers[i].fare, !.abandon = above]
          /\ Keeps
       \/ /\ pm.act.st = "lost" /\ Cardinality(MatchedOffers) = 1
          /\ \E i \in MatchedOffers : pm' = Finish(i)
          /\ Keeps
       \* RetryOffer: the same key while it is good, then the offer is absent.
       \/ /\ pm.act.st = "lost" /\ MatchedOffers = {}
          /\ \/ pm' = [pm EXCEPT !.act.st = "sent"]
             \/ pm' = [pm EXCEPT !.act = Nil, !.abandon = TRUE]
          /\ Keeps

ReconcileCancel ==
    /\ Answered /\ pm.act.stage = "cancel" /\ pm.act.st = "lost"
    /\ pm' = IF pw.offers[pm.act.arg].open THEN [pm EXCEPT !.act = Nil] ELSE Finish(0)
    /\ Keeps

DepartHeld == Answered /\ pm.act.stage = "depart" /\ pm.act.st = "lost" /\ pm.act.done /\ pm' = [pm EXCEPT !.act = Nil] /\ Keeps
ReconcileDepart ==
    /\ Answered /\ pm.act.stage = "depart" /\ pm.act.st = "lost"
    /\ pm' = IF pm.act.done THEN [pm EXCEPT !.act = Nil] ELSE [pm EXCEPT !.act.st = "sent"]
    /\ Keeps

-----------------------------------------------------------------------------
PassengersNext ==
    \/ \E g \in Coming : Boards(g) \/ SyncBoarded(g)
    \/ OfferCloses \/ OtherOffer \/ Arrives \/ Sinks \/ Repeats \/ Recorded
    \/ ServerActs \/ RequestLost \/ ServerRefuses \/ RequestDamaged
    \/ RetireQuarantinedAction \/ DriveQuarantined \/ DriveRecovery
    \/ ConsiderPassage \/ RecoverPassage \/ SyncAboard \/ SyncReceipts \/ PutReceipts
    \/ BeginWait \/ CaptureStale \/ Completes \/ SweepWait
    \/ \E k \in Gen : ScanReceipt(k) \/ ReceiptExpires(k)
    \/ AdoptOffer \/ CancelUnsafe \/ BetterPlan \/ CancelToSail \/ Depart \/ CloseOut \/ OfferEnded
    \/ PostOffer \/ QuoteFails \/ Reprice
    \/ Concludes \/ ReconcileOffer \/ ReconcileCancel \/ ReconcileDepart

\* The server answers what was asked and not given up on, and ships arrive; the
\* loop runs its passes.
Asked == pm # Nil /\ pm.act # Nil /\ pm.act.st = "sent"
PassengersFairness ==
    /\ WF_pvars(Asked /\ (ServerActs \/ RequestLost \/ ServerRefuses)) /\ WF_pvars(Arrives \/ Sinks)
    /\ WF_pvars(RetireQuarantinedAction \/ DriveQuarantined \/ DriveRecovery)
    /\ WF_pvars(RecoverPassage) /\ WF_pvars(SyncAboard)
    /\ WF_pvars(SyncReceipts \/ PutReceipts) /\ WF_pvars(BeginWait) /\ WF_pvars(Completes)
    /\ WF_pvars(AdoptOffer) /\ WF_pvars(CancelToSail \/ Depart)
    /\ WF_pvars(Concludes \/ ReconcileOffer \/ ReconcileCancel \/ ReconcileDepart)

PassengersSpec == PassengersInit /\ [][PassengersNext]_pvars /\ PassengersFairness

-----------------------------------------------------------------------------
(* Properties *)

\* A fare is counted by one settlement at most, and by one of a passage of the
\* voyage it was paid on, however late or often its event was delivered
\* (passengerTerminalAt, ResolvePassengerReceipt).
FareToItsVoyage ==
    \A r \in acc.rows : \A e \in r.ev :
        /\ \E g \in e[1], h \in pg.had[r.gen] : TripOf(g) = TripOf(h)
        /\ \A x \in acc.rows : e \in x.ev => x = r

\* The settlements of a passage never carry more than it spent, and once its
\* mission is gone they carry all of it: fare receipts, the unknown completion,
\* the quarantine marker and the recovery marker share one sum.  What a recovery
\* spends once it was quarantined itself, or after its marker, they may miss.
PassageCostedOnce ==
    \A k \in Gen :
        LET booked == Sum({r \in acc.rows : r.gen = k})
        IN  /\ booked <= pg.spent[k]
            /\ (k <= pg.gen /\ ~MissionOf(k) /\ pg.had[k] # {} /\ k \notin pg.again) => booked = pg.spent[k]

\* The bound on missions is reached.
NoGenerationLeft == pm = Nil /\ pg.gen = MaxGen

\* Two offers match one lost request: the code holds, and the player decides.
Ambiguous == Answered /\ pm.act.stage = "offer" /\ pm.act.st = "lost" /\ Cardinality(MatchedOffers) > 1

\* Groups that boarded are carried to the end of their voyage, whatever becomes
\* of the requests, the offer and the mission.
PassengersDelivered == Aboard # {} ~> (Aboard = {} \/ NoGenerationLeft \/ Ambiguous)

\* A passage whose groups have landed ends its mission, with their fares or
\* without.
PassageSettles ==
    (pm # Nil /\ pm.groups # {} /\ Aboard = {} /\ pw.ship = "port" /\ ~pm.recovery)
        ~> (pm = Nil \/ Aboard # {} \/ pm.recovery)
=============================================================================
