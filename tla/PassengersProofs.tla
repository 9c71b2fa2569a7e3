-------------------------- MODULE PassengersProofs --------------------------
(***************************************************************************)
(* What the settlements of passengers hold, for any ways the server writes *)
(* its events and any number of passages, offers, repeated events and      *)
(* failed writes.                                                          *)
(*                                                                         *)
(* Fares: a settlement holds fares of its passage's voyage only, and none  *)
(* that another settlement holds (FareInv).                                *)
(*                                                                         *)
(* Costs: the settlements of a passage never carry more than it spent, and *)
(* all of it once its mission is gone (CostInv).  A mission always knows   *)
(* what it spent (MissionCosts); what a passage carries when it is set     *)
(* apart is its archive, which neither its marker nor a later recovery     *)
(* exceeds (GenOK).                                                        *)
(***************************************************************************)
EXTENDS Passengers, SumLemmas, SequenceTheorems

-----------------------------------------------------------------------------
(* The passages of one ship *)

Straight == pm # Nil /\ ~pm.q /\ ~pm.recovery

\* The ship waits where the mission began, or carried its groups one voyage.
AtHome == pw.ship = "port" /\ pw.port = pm.trip
Away ==
    /\ Open = {} /\ pm.groups # {}
    /\ IF pw.ship = "port" THEN pw.port = pm.trip + 1 ELSE pw.port = pm.trip
    /\ \A g \in Coming : TripOf(g) > pm.trip => pw.grp[g] = "waiting"

Offers == [open : BOOLEAN, fare : Nat]
ShipTypes ==
    /\ DOMAIN pw = {"ship", "port", "now", "offers", "style", "other", "grp", "bt"}
    /\ pw.ship \in {"port", "sea", "gone"} /\ pw.port \in Nat /\ pw.now \in Nat
    /\ pw.offers \in Seq(Offers)
    /\ Coming \subseteq Group /\ pw.bt \in [Coming -> Nat]
    /\ pw.grp \in [Coming -> {"waiting", "aboard", "landed", "lost"}]

\* What the server knows: the clock counts the voyages, a group is aboard on
\* its own voyage, and a ship that sailed has no open offer.
ShipTrue ==
    /\ IF pw.ship = "gone" THEN pw.now = pw.port ELSE pw.now + 1 = pw.port
    /\ pw.ship # "port" => Open = {}
    /\ \A g \in Coming :
         /\ pw.grp[g] = "aboard" => TripOf(g) = pw.port /\ pw.ship # "gone"
         /\ pw.grp[g] # "waiting" => TripOf(g) <= pw.port /\ pw.bt[g] + 1 = TripOf(g)

\* An event is of groups that went ashore or down together, and a stamp is the
\* number of their voyage; its groups and number identify it.
Event(e) ==
    /\ DOMAIN e = {"gs", "tag", "at", "lost", "n", "rec"}
    /\ e.gs # {} /\ e.gs \subseteq Coming /\ \A g \in e.gs : pw.grp[g] \notin {"waiting", "aboard"}
    /\ e.tag # Nil => e.gs = {e.tag}
    /\ e.at # Nil => \A g \in e.gs : e.at = TripOf(g)
EventsTrue ==
    /\ IsFiniteSet(evs)
    /\ \A e \in evs : Event(e)
    /\ \A e, f \in evs : e.gs = f.gs /\ e.n = f.n => e = f

MissionFields ==
    {"gen", "trip", "start", "offer", "fare", "reoffer", "abandon", "groups", "act", "cost", "receipts", "unknown", "q",
     "recovery", "extra"}

\* An offer is asked for by a mission without groups, and the ship sails with
\* groups and without an open offer.
RequestTrue ==
    pm # Nil =>
       /\ DOMAIN pm = MissionFields /\ pm.fare \in Nat /\ pm.cost \in Nat
       /\ pm.act # Nil =>
             /\ DOMAIN pm.act = {"stage", "arg", "fare", "base", "st", "done"}
             /\ pm.act.stage \in {"offer", "cancel", "depart"} /\ pm.act.fare \in Nat
             /\ pm.act.stage = "offer" /\ Straight => pm.groups = {}
             /\ pm.act.stage = "depart" =>
                   /\ pm.groups # {}
                   /\ ~pm.act.done => Open = {} /\ pw.ship = "port" /\ (Straight => pw.port = pm.trip)

FaresOf(r, had) == \A e \in r.ev : \E g \in e[1], h \in had[r.gen] : TripOf(g) = TripOf(h)

ReceiptsTrue ==
    /\ pm.receipts \in Seq(Range(pm.receipts))
    /\ \A i \in DOMAIN pm.receipts : /\ pm.receipts[i].gen = pm.gen /\ FaresOf(pm.receipts[i], pg.had)
                                     /\ \A k \in Gen : pm.receipts[i].id # <<"rest", k>>
    /\ \A i, j \in DOMAIN pm.receipts : i # j => pm.receipts[i].ev \cap pm.receipts[j].ev = {}

GroupsTrue ==
    /\ AtHome \/ Away
    /\ pm.groups \subseteq pg.had[pm.gen]
    /\ \A g \in pm.groups : g \in Coming /\ pw.grp[g] # "waiting" /\ TripOf(g) = pm.trip
    /\ Waits => snap.wait.at = pm.trip /\ pm.groups # {}

MissionTrue ==
    pm # Nil =>
       /\ pm.gen \in Gen /\ pm.gen <= pg.gen /\ pm.trip \in Nat
       /\ Straight => GroupsTrue /\ ReceiptsTrue

\* A batch that was completed without fares is of one voyage.
Batch(u, k, had) ==
    /\ u \in Archive /\ u.gen = k /\ u.gr # {} /\ u.gr \subseteq had[k]
    /\ u.done = u.start + 1
    /\ \A g \in u.gr : TripOf(g) = u.done
UnknownTrue == (Straight /\ pm.unknown # Nil) => Batch(pm.unknown, pm.gen, pg.had)

\* Every row is of fares of its passage's voyage and shares none with another.
RowsOK(a, had, gen) ==
    /\ DOMAIN a = {"rows", "rec", "arch"} /\ DOMAIN a.rec = Gen
    /\ \A k \in Gen : a.rec[k] # Nil => k <= gen /\ Batch(a.rec[k], k, had)
    /\ \A r \in a.rows : r.gen \in Gen /\ r.gen <= gen /\ FaresOf(r, had)
    /\ \A r, x \in a.rows : r.ev \cap x.ev # {} => r = x
    /\ \A r \in a.rows, k \in Gen :
         r.id = <<"rest", k>> => a.rec[k] # Nil /\ (a.rec[k].st = "open" => r = RestRow(a.rec[k]))
RowsTrue == RowsOK(acc, pg.had, pg.gen)

BookTypes ==
    /\ DOMAIN snap = {"hint", "wait", "latch"}
    /\ snap.wait # Nil => DOMAIN snap.wait = {"gen", "at"} /\ snap.wait.gen \in Nat /\ snap.wait.gen <= pg.gen
    /\ DOMAIN pg = {"gen", "spent", "had", "again", "faults"} /\ pg.gen \in Nat
    /\ pg.had \in [Gen -> SUBSET Group]

FareInv ==
    /\ ShipTypes /\ ShipTrue /\ EventsTrue /\ RequestTrue /\ MissionTrue
    /\ UnknownTrue /\ RowsTrue /\ BookTypes

LEMMA InitFare == PassengersInit => FareInv
<1>1. SUFFICES ASSUME PassengersInit PROVE FareInv
    OBVIOUS
<1>2. PICK s \in Styles, c \in Crowds :
          pw = [ship |-> "port", port |-> 1, now |-> 0, offers |-> << >>, style |-> s, other |-> FALSE,
                grp |-> [g \in c |-> "waiting"], bt |-> [g \in c |-> 0]]
    BY <1>1 DEF PassengersInit
<1>3. pm = Nil /\ evs = {} /\ acc = [rows |-> {}, rec |-> [k \in Gen |-> Nil], arch |-> [k \in Gen |-> Nil]]
      /\ snap = [hint |-> FALSE, wait |-> Nil, latch |-> {}]
      /\ pg = [gen |-> 0, spent |-> [k \in Gen |-> 0], had |-> [k \in Gen |-> {}], again |-> {}, faults |-> 0]
    BY <1>1 DEF PassengersInit
<1>4. c \subseteq Group
    BY PassengersAssumption DEF Group
<1>5. ShipTypes /\ ShipTrue
  <2>1. Coming = c
      BY <1>2 DEF Coming
  <2>2. ShipTypes
      BY <1>2, <1>4, <2>1 DEF ShipTypes
  <2>3. ShipTrue
      BY <1>2, <2>1 DEF ShipTrue
  <2>4. QED
      BY <2>2, <2>3
<1>6. EventsTrue
    BY <1>3, FS_EmptySet DEF EventsTrue
<1>7. RequestTrue /\ MissionTrue /\ UnknownTrue
    BY <1>3 DEF RequestTrue, MissionTrue, UnknownTrue, Straight
<1>8. RowsTrue
    BY <1>3 DEF RowsTrue, RowsOK
<1>9. BookTypes
    BY <1>3, PassengersAssumption DEF BookTypes, Gen
<1>10. QED
    BY <1>5, <1>6, <1>7, <1>8, <1>9 DEF FareInv

\* What the passages booked stays true when they learn of groups.
LEMMA RowsGrow ==
    ASSUME NEW a, NEW had, NEW more, NEW n \in Nat, NEW m \in Nat, RowsOK(a, had, n), n <= m,
           \A k \in Gen : k <= n => had[k] \subseteq more[k]
    PROVE  RowsOK(a, more, m)
<1>1. \A k \in Gen : k \in Nat
    BY PassengersAssumption DEF Gen
<1>2. ASSUME NEW k \in Gen, a.rec[k] # Nil PROVE k <= m /\ Batch(a.rec[k], k, more)
    BY <1>1, <1>2 DEF RowsOK, Batch
<1>3. ASSUME NEW r \in a.rows PROVE r.gen \in Gen /\ r.gen <= m /\ FaresOf(r, more)
    BY <1>1 DEF RowsOK, FaresOf
<1>4. QED
    BY <1>2, <1>3 DEF RowsOK

\* A step that only drives the mission.
LEMMA QuietStep ==
    ASSUME FareInv, UNCHANGED <<pw, evs>>, RowsTrue', RequestTrue',
           DOMAIN snap' = DOMAIN snap, snap'.wait \in {Nil, snap.wait},
           DOMAIN pg' = DOMAIN pg, pg'.gen = pg.gen, pg'.had = pg.had,
           \/ pm' = Nil
           \/ /\ pm # Nil /\ pm'.gen = pm.gen /\ pm'.trip = pm.trip
              /\ Straight' => /\ Straight /\ pm'.groups = pm.groups /\ pm'.receipts = pm.receipts
                              /\ pm'.unknown \in {Nil, pm.unknown} \/ Batch(pm'.unknown, pm.gen, pg.had)
    PROVE  FareInv'
<1>1. ShipTypes' /\ ShipTrue' /\ EventsTrue'
    BY DEF FareInv, ShipTypes, ShipTrue, EventsTrue, Event, Open, Coming, TripOf
<1>2. BookTypes'
    BY DEF FareInv, BookTypes
<1>3. MissionTrue'
  <2>1. SUFFICES ASSUME pm' # Nil PROVE MissionTrue'
      BY DEF MissionTrue
  <2>2. pm'.gen \in Gen /\ pm'.gen <= pg'.gen /\ pm'.trip \in Nat
      BY <2>1 DEF FareInv, MissionTrue
  <2>3. ASSUME Straight' PROVE GroupsTrue'
    <3>1. GroupsTrue
        BY <2>1, <2>3 DEF FareInv, MissionTrue, Straight
    <3>2. (AtHome \/ Away)'
        BY <2>1, <2>3, <3>1 DEF GroupsTrue, AtHome, Away, Open, Coming
    <3>3. Waits' => Waits /\ snap'.wait = snap.wait
        BY <2>1, <2>3 DEF Waits, Straight
    <3>4. QED
        BY <2>1, <2>3, <3>1, <3>2, <3>3 DEF GroupsTrue, Coming
  <2>4. ASSUME Straight' PROVE ReceiptsTrue'
      BY <2>1, <2>4 DEF FareInv, MissionTrue, Straight, ReceiptsTrue
  <2>5. QED
      BY <2>2, <2>3, <2>4 DEF MissionTrue
<1>4. UnknownTrue'
    BY DEF FareInv, UnknownTrue, Straight
<1>5. QED
    BY <1>1, <1>2, <1>3, <1>4 DEF FareInv

LEMMA Fields ==
    ASSUME FareInv, pm # Nil
    PROVE  DOMAIN pm = MissionFields /\ pm.fare \in Nat /\ pm.cost \in Nat /\ \A i \in DOMAIN pw.offers : pw.offers[i].fare \in Nat
<1>1. pw.offers \in Seq(Offers)
    BY DEF FareInv, ShipTypes
<1>2. \A i \in DOMAIN pw.offers : pw.offers[i] \in Offers
    BY <1>1
<1>3. QED
    BY <1>2 DEF FareInv, RequestTrue, Offers

\* A request that is staged, or what became of one.
Asks(m, straight) ==
    m.act # Nil =>
       /\ DOMAIN m.act = {"stage", "arg", "fare", "base", "st", "done"}
       /\ m.act.stage \in {"offer", "cancel", "depart"} /\ m.act.fare \in Nat
       /\ m.act.stage = "offer" /\ straight => m.groups = {}
       /\ m.act.stage = "depart" =>
             /\ m.groups # {}
             /\ ~m.act.done => Open = {} /\ pw.ship = "port" /\ (straight => pw.port = m.trip)

\* The step leaves the world, the books and the wait alone.
Steady ==
    /\ UNCHANGED <<pw, evs, acc>>
    /\ DOMAIN snap' = DOMAIN snap /\ snap'.wait = snap.wait
    /\ DOMAIN pg' = DOMAIN pg /\ pg'.gen = pg.gen /\ pg'.had = pg.had

LEMMA SteerStep ==
    ASSUME FareInv, Steady, pm # Nil, NEW m, pm' = m, DOMAIN m = MissionFields, m.fare \in Nat /\ m.cost \in Nat,
           m.gen = pm.gen, m.trip = pm.trip,
           ~m.q /\ ~m.recovery => /\ Straight /\ m.groups = pm.groups /\ m.receipts = pm.receipts
                                 /\ m.unknown = pm.unknown,
           Asks(m, ~m.q /\ ~m.recovery)
    PROVE  FareInv'
<1>1. RowsTrue'
    BY DEF FareInv, RowsTrue, Steady
<1>2. Straight' => ~m.q /\ ~m.recovery
    BY DEF Straight
<1>3. RequestTrue'
    BY <1>2 DEF RequestTrue, Asks, Open, Steady
<1>4. QED
    BY <1>1, <1>2, <1>3, QuietStep DEF Steady

LEMMA DriveStep ==
    ASSUME FareInv, Steady, pm # Nil, NEW m, pm' = m, DOMAIN m = MissionFields, m.fare \in Nat /\ m.cost \in Nat,
           m.gen = pm.gen, m.trip = pm.trip, m.groups = pm.groups, m.receipts = pm.receipts,
           m.unknown = pm.unknown, m.q = pm.q, m.recovery = pm.recovery, Asks(m, Straight)
    PROVE  FareInv'
<1>1. (~m.q /\ ~m.recovery) = Straight
    BY DEF Straight
<1>2. QED
    BY <1>1, SteerStep

LEMMA KeepsSteady == Keeps => Steady
BY DEF Keeps, Steady

LEMMA DeleteStep ==
    ASSUME FareInv, pm' = Nil, Keeps
    PROVE  FareInv'
<1>1. UNCHANGED <<pw, evs, acc, snap, pg>>
    BY DEF Keeps
<1>2. RowsTrue' /\ RequestTrue'
    BY <1>1 DEF FareInv, RowsTrue, RequestTrue
<1>3. QED
    BY <1>1, <1>2, QuietStep

\* The mission at the port of departure.
LEMMA StageStep ==
    ASSUME FareInv, Keeps, pm # Nil, NEW m, NEW stage \in {"offer", "cancel", "depart"}, NEW arg,
           Stage(m, stage, arg), DOMAIN m = MissionFields, m.fare \in Nat /\ m.cost \in Nat,
           m.gen = pm.gen, m.trip = pm.trip, m.groups = pm.groups, m.receipts = pm.receipts,
           m.unknown = pm.unknown, m.q = pm.q, m.recovery = pm.recovery,
           stage = "offer" => m.groups = {}, stage # "depart"
    PROVE  FareInv'
<1> DEFINE n == [m EXCEPT !.act = Request(stage, arg, m.fare)]
<1>1. pm' = n
    BY DEF Stage
<1>2. /\ DOMAIN n = MissionFields /\ n.fare = m.fare /\ n.cost = m.cost /\ n.gen = m.gen /\ n.trip = m.trip /\ n.groups = m.groups
      /\ n.receipts = m.receipts /\ n.unknown = m.unknown /\ n.q = m.q /\ n.recovery = m.recovery
      /\ n.act = Request(stage, arg, m.fare)
    BY DEF MissionFields
<1>3. Asks(n, Straight)
    BY <1>2 DEF Asks, Request
<1> HIDE DEF n
<1>4. QED
    BY <1>1, <1>2, <1>3, KeepsSteady, DriveStep

LEMMA CancelStep ==
    ASSUME FareInv, Keeps, pm # Nil, NEW m, Cancel(m), DOMAIN m = MissionFields, m.fare \in Nat /\ m.cost \in Nat,
           m.gen = pm.gen, m.trip = pm.trip, m.groups = pm.groups, m.receipts = pm.receipts,
           m.unknown = pm.unknown, m.q = pm.q, m.recovery = pm.recovery
    PROVE  FareInv'
<1>1. PICK i \in Open : Stage(m, "cancel", i)
    BY DEF Cancel
<1>2. QED
    BY <1>1, StageStep

LEMMA AtOriginSteps ==
    ASSUME FareInv,
           \/ AdoptOffer \/ CancelUnsafe \/ BetterPlan \/ CancelToSail \/ CloseOut \/ OfferEnded
           \/ PostOffer \/ QuoteFails \/ Reprice
    PROVE  FareInv'
<1>1. pm # Nil /\ pm.act = Nil
    BY DEF AdoptOffer, CancelUnsafe, BetterPlan, CancelToSail, CloseOut, OfferEnded, PostOffer, QuoteFails, Reprice,
           Ours, AtOrigin, Here, Idle, Driven
<1>2. DOMAIN pm = MissionFields /\ pm.fare \in Nat /\ pm.cost \in Nat /\ \A i \in DOMAIN pw.offers : pw.offers[i].fare \in Nat
    BY <1>1, Fields
<1>3. CASE AdoptOffer
  <2>1. PICK i \in Open :
            pm' = [pm EXCEPT !.offer = i, !.abandon = TRUE, !.reoffer = FALSE, !.fare = pw.offers[i].fare]
      BY <1>3 DEF AdoptOffer
  <2> DEFINE m == [pm EXCEPT !.offer = i, !.abandon = TRUE, !.reoffer = FALSE, !.fare = pw.offers[i].fare]
  <2>2. pw.offers[i].fare \in Nat
      BY <1>2 DEF Open
  <2>3. /\ DOMAIN m = MissionFields /\ m.fare \in Nat /\ m.cost \in Nat /\ m.gen = pm.gen /\ m.trip = pm.trip /\ m.groups = pm.groups
        /\ m.receipts = pm.receipts /\ m.unknown = pm.unknown /\ m.q = pm.q /\ m.recovery = pm.recovery /\ m.act = Nil
      BY <1>1, <1>2, <2>2 DEF MissionFields
  <2>4. Asks(m, Straight)
      BY <2>3 DEF Asks
  <2> HIDE DEF m
  <2>5. Keeps
      BY <1>3 DEF AdoptOffer
  <2>6. QED
      BY <1>1, <2>1, <2>3, <2>4, <2>5, KeepsSteady, DriveStep DEF m
<1>4. ASSUME NEW m, m = [pm EXCEPT !.abandon = TRUE, !.reoffer = FALSE], Cancel(m), Keeps PROVE FareInv'
  <2>1. /\ DOMAIN m = MissionFields /\ m.fare = pm.fare /\ m.cost = pm.cost /\ m.gen = pm.gen /\ m.trip = pm.trip /\ m.groups = pm.groups
        /\ m.receipts = pm.receipts /\ m.unknown = pm.unknown /\ m.q = pm.q /\ m.recovery = pm.recovery
      BY <1>2, <1>4 DEF MissionFields
  <2>2. QED
      BY <1>1, <1>2, <1>4, <2>1, CancelStep
<1>5. CASE CancelUnsafe
    BY <1>4, <1>5 DEF CancelUnsafe
<1>6. CASE BetterPlan
  <2>1. CASE DeleteMission
      BY <2>1, DeleteStep DEF DeleteMission
  <2>2. CASE Cancel([pm EXCEPT !.abandon = TRUE, !.reoffer = FALSE]) /\ Keeps
      BY <2>2, <1>4
  <2>3. QED
      BY <1>6, <2>1, <2>2 DEF BetterPlan
<1>7. CASE CancelToSail
  <2>1. Cancel(pm) /\ Keeps
      BY <1>7 DEF CancelToSail
  <2>2. QED
      BY <1>1, <1>2, <2>1, CancelStep
<1>8. CASE CloseOut
  <2>1. CASE DeleteMission
      BY <2>1, DeleteStep DEF DeleteMission
  <2>2. CASE Cancel(pm) /\ Keeps
      BY <1>1, <1>2, <2>2, CancelStep
  <2>3. QED
      BY <1>8, <2>1, <2>2 DEF CloseOut
<1>9. CASE OfferEnded
    BY <1>9, DeleteStep DEF OfferEnded, DeleteMission
<1>10. CASE PostOffer
  <2>1. Stage(pm, "offer", 0) /\ Keeps /\ pm.groups = {}
      BY <1>10 DEF PostOffer
  <2>2. QED
      BY <1>1, <1>2, <2>1, StageStep
<1>11. CASE QuoteFails
  <2> DEFINE m == [pm EXCEPT !.abandon = TRUE]
  <2>1. pm' = m /\ Keeps
      BY <1>11 DEF QuoteFails
  <2>2. /\ DOMAIN m = MissionFields /\ m.fare = pm.fare /\ m.cost = pm.cost /\ m.gen = pm.gen /\ m.trip = pm.trip /\ m.groups = pm.groups
        /\ m.receipts = pm.receipts /\ m.unknown = pm.unknown /\ m.q = pm.q /\ m.recovery = pm.recovery /\ m.act = Nil
      BY <1>1, <1>2 DEF MissionFields
  <2>3. Asks(m, Straight)
      BY <2>2 DEF Asks
  <2> HIDE DEF m
  <2>4. QED
      BY <1>1, <1>2, <2>1, <2>2, <2>3, KeepsSteady, DriveStep
<1>12. CASE Reprice
  <2> DEFINE m == [pm EXCEPT !.fare = IF pm.reoffer THEN @ ELSE Floor, !.reoffer = TRUE]
  <2>1. Cancel(m) /\ Keeps
      BY <1>12 DEF Reprice
  <2>2. /\ DOMAIN m = MissionFields /\ m.fare \in Nat /\ m.cost \in Nat /\ m.gen = pm.gen /\ m.trip = pm.trip /\ m.groups = pm.groups
        /\ m.receipts = pm.receipts /\ m.unknown = pm.unknown /\ m.q = pm.q /\ m.recovery = pm.recovery
      BY <1>2 DEF MissionFields, Floor
  <2> HIDE DEF m
  <2>3. QED
      BY <1>1, <2>1, <2>2, CancelStep
<1>13. QED
    BY <1>3, <1>5, <1>6, <1>7, <1>8, <1>9, <1>10, <1>11, <1>12

LEMMA RequestFields ==
    ASSUME FareInv, pm # Nil, pm.act # Nil
    PROVE  /\ DOMAIN pm.act = {"stage", "arg", "fare", "base", "st", "done"}
           /\ pm.act.stage \in {"offer", "cancel", "depart"} /\ pm.act.fare \in Nat
           /\ Asks(pm, Straight)
BY DEF FareInv, RequestTrue, Asks

\* What became of a request.
LEMMA AnswerStep ==
    ASSUME FareInv, Steady, pm # Nil, pm.act # Nil, NEW st, pm' = [pm EXCEPT !.act.st = st]
    PROVE  FareInv'
<1>1. DOMAIN pm = MissionFields /\ pm.fare \in Nat /\ pm.cost \in Nat
    BY Fields
<1>2. DOMAIN pm.act = {"stage", "arg", "fare", "base", "st", "done"} /\ Asks(pm, Straight)
    BY RequestFields
<1> DEFINE m == [pm EXCEPT !.act.st = st]
<1>3. /\ DOMAIN m = MissionFields /\ m.fare = pm.fare /\ m.cost = pm.cost /\ m.gen = pm.gen /\ m.trip = pm.trip /\ m.groups = pm.groups
      /\ m.receipts = pm.receipts /\ m.unknown = pm.unknown /\ m.q = pm.q /\ m.recovery = pm.recovery
    BY <1>1 DEF MissionFields
<1>4. /\ DOMAIN m.act = DOMAIN pm.act /\ m.act.stage = pm.act.stage /\ m.act.fare = pm.act.fare
      /\ m.act.done = pm.act.done
    BY <1>1, <1>2 DEF MissionFields
<1>5. Asks(m, Straight)
    BY <1>2, <1>3, <1>4 DEF Asks
<1> HIDE DEF m
<1>6. QED
    BY <1>1, <1>3, <1>5, DriveStep DEF m

\* The mission goes on without a request.
LEMMA DoneStep ==
    ASSUME FareInv, Steady, pm # Nil, NEW m, pm' = m, DOMAIN m = MissionFields, m.fare \in Nat /\ m.cost \in Nat, m.act = Nil,
           m.gen = pm.gen, m.trip = pm.trip, m.groups = pm.groups, m.receipts = pm.receipts,
           m.unknown = pm.unknown, m.q = pm.q, m.recovery = pm.recovery
    PROVE  FareInv'
<1>1. Asks(m, Straight)
    BY DEF Asks
<1>2. QED
    BY <1>1, DriveStep

LEMMA FinishStep ==
    ASSUME FareInv, Steady, pm # Nil, NEW i, pm' = Finish(i)
    PROVE  FareInv'
<1>1. DOMAIN pm = MissionFields /\ pm.fare \in Nat /\ pm.cost \in Nat
    BY Fields
<1> DEFINE m == Finish(i)
<1>2. /\ DOMAIN m = MissionFields /\ m.fare = pm.fare /\ m.cost = pm.cost /\ m.gen = pm.gen /\ m.trip = pm.trip /\ m.groups = pm.groups
      /\ m.receipts = pm.receipts /\ m.unknown = pm.unknown /\ m.q = pm.q /\ m.recovery = pm.recovery /\ m.act = Nil
    BY <1>1 DEF MissionFields, Finish
<1> HIDE DEF m
<1>3. QED
    BY <1>1, <1>2, DoneStep DEF m

LEMMA DroppedStep ==
    ASSUME FareInv, Steady, pm # Nil, NEW abandon, pm' = [pm EXCEPT !.act = Nil, !.abandon = abandon]
    PROVE  FareInv'
<1>1. DOMAIN pm = MissionFields /\ pm.fare \in Nat /\ pm.cost \in Nat
    BY Fields
<1> DEFINE m == [pm EXCEPT !.act = Nil, !.abandon = abandon]
<1>2. /\ DOMAIN m = MissionFields /\ m.fare = pm.fare /\ m.cost = pm.cost /\ m.gen = pm.gen /\ m.trip = pm.trip /\ m.groups = pm.groups
      /\ m.receipts = pm.receipts /\ m.unknown = pm.unknown /\ m.q = pm.q /\ m.recovery = pm.recovery /\ m.act = Nil
    BY <1>1 DEF MissionFields
<1> HIDE DEF m
<1>3. QED
    BY <1>1, <1>2, DoneStep DEF m

LEMMA ClearedStep ==
    ASSUME FareInv, Steady, pm # Nil, pm' = [pm EXCEPT !.act = Nil]
    PROVE  FareInv'
<1>1. DOMAIN pm = MissionFields /\ pm.fare \in Nat /\ pm.cost \in Nat
    BY Fields
<1> DEFINE m == [pm EXCEPT !.act = Nil]
<1>2. /\ DOMAIN m = MissionFields /\ m.fare = pm.fare /\ m.cost = pm.cost /\ m.gen = pm.gen /\ m.trip = pm.trip /\ m.groups = pm.groups
      /\ m.receipts = pm.receipts /\ m.unknown = pm.unknown /\ m.q = pm.q /\ m.recovery = pm.recovery /\ m.act = Nil
    BY <1>1 DEF MissionFields
<1> HIDE DEF m
<1>3. QED
    BY <1>1, <1>2, DoneStep DEF m

LEMMA RejectedStep ==
    ASSUME FareInv, pm # Nil, Rejected
    PROVE  FareInv'
<1>1. Steady /\ pm' = [pm EXCEPT !.act = Nil, !.abandon = TRUE]
  <2>1. DOMAIN snap = {"hint", "wait", "latch"}
      BY DEF FareInv, BookTypes
  <2>2. QED
      BY <2>1 DEF Rejected, Steady
<1>2. QED
    BY <1>1, DroppedStep

LEMMA ResultSteps ==
    ASSUME FareInv, Concludes \/ ReconcileOffer \/ ReconcileCancel \/ ReconcileDepart \/ RequestLost \/ ServerRefuses
    PROVE  FareInv'
<1>1. pm # Nil /\ pm.act # Nil
    BY DEF Concludes, ReconcileOffer, ReconcileCancel, ReconcileDepart, RequestLost, ServerRefuses, Answered, Pending
<1>2. DOMAIN pm = MissionFields /\ pm.fare \in Nat /\ pm.cost \in Nat /\ \A i \in DOMAIN pw.offers : pw.offers[i].fare \in Nat
    BY <1>1, Fields
<1>3. CASE Concludes
    BY <1>1, <1>3, KeepsSteady, ClearedStep, FinishStep DEF Concludes
<1>4. CASE ReconcileOffer
  <2>1. CASE Rejected
      BY <1>1, <2>1, RejectedStep
  <2>2. CASE /\ Keeps
             /\ \E i \in MatchedOffers, above \in BOOLEAN :
                    pm' = [pm EXCEPT !.act = Nil, !.offer = i, !.reoffer = FALSE, !.fare = pw.offers[i].fare, !.abandon = above]
    <3>1. PICK i \in MatchedOffers, above \in BOOLEAN :
              pm' = [pm EXCEPT !.act = Nil, !.offer = i, !.reoffer = FALSE, !.fare = pw.offers[i].fare, !.abandon = above]
        BY <2>2
    <3> DEFINE m == [pm EXCEPT !.act = Nil, !.offer = i, !.reoffer = FALSE, !.fare = pw.offers[i].fare, !.abandon = above]
    <3>2. pw.offers[i].fare \in Nat
        BY <1>2 DEF MatchedOffers, Open
    <3>3. /\ DOMAIN m = MissionFields /\ m.fare \in Nat /\ m.cost \in Nat /\ m.gen = pm.gen /\ m.trip = pm.trip /\ m.groups = pm.groups
          /\ m.receipts = pm.receipts /\ m.unknown = pm.unknown /\ m.q = pm.q /\ m.recovery = pm.recovery /\ m.act = Nil
        BY <1>2, <3>2 DEF MissionFields
    <3> HIDE DEF m
    <3>4. QED
        BY <1>1, <2>2, <3>1, <3>3, KeepsSteady, DoneStep DEF m
  <2>3. CASE Keeps /\ \E i \in MatchedOffers : pm' = Finish(i)
      BY <1>1, <2>3, KeepsSteady, FinishStep
  <2>4. CASE Keeps /\ pm' = [pm EXCEPT !.act.st = "sent"]
      BY <1>1, <2>4, KeepsSteady, AnswerStep
  <2>5. CASE Keeps /\ pm' = [pm EXCEPT !.act = Nil, !.abandon = TRUE]
      BY <1>1, <2>5, KeepsSteady, DroppedStep
  <2>6. QED
      BY <1>4, <2>1, <2>2, <2>3, <2>4, <2>5 DEF ReconcileOffer
<1>5. CASE ReconcileCancel
    BY <1>1, <1>5, KeepsSteady, ClearedStep, FinishStep DEF ReconcileCancel
<1>6. CASE ReconcileDepart
    BY <1>1, <1>6, KeepsSteady, ClearedStep, AnswerStep DEF ReconcileDepart
<1>7. CASE RequestLost
  <2>1. Steady
    <3>1. DOMAIN pg = {"gen", "spent", "had", "again", "faults"}
        BY DEF FareInv, BookTypes
    <3>2. QED
        BY <1>7, <3>1 DEF RequestLost, Steady
  <2>2. QED
      BY <1>1, <1>7, <2>1, AnswerStep DEF RequestLost
<1>8. CASE ServerRefuses
  <2>1. Steady
      BY <1>8 DEF ServerRefuses, Steady
  <2>2. QED
      BY <1>1, <1>8, <2>1, AnswerStep DEF ServerRefuses
<1>9. QED
    BY <1>3, <1>4, <1>5, <1>6, <1>7, <1>8

\* A row without events joins the books.
LEMMA PlainRow ==
    ASSUME NEW a, NEW had, NEW n \in Nat, RowsOK(a, had, n), NEW k \in Gen, k <= n, NEW r, NEW rows,
           r.gen = k, r.ev = {}, \A j \in Gen : r.id # <<"rest", j>>, rows \in {a.rows, a.rows \cup {r}},
           NEW b, DOMAIN b = DOMAIN a, b.rows = rows, b.rec = a.rec
    PROVE  RowsOK(b, had, n)
<1>1. FaresOf(r, had)
    BY DEF FaresOf
<1>2. \A x \in rows : x.gen \in Gen /\ x.gen <= n /\ FaresOf(x, had)
    BY <1>1 DEF RowsOK
<1>3. \A x, y \in rows : x.ev \cap y.ev # {} => x = y
    BY DEF RowsOK
<1>4. QED
    BY <1>2, <1>3 DEF RowsOK

LEMMA Archived ==
    ASSUME NEW a, NEW had, NEW n \in Nat, RowsOK(a, had, n), NEW m, m.gen \in Gen, m.gen <= n
    PROVE  RowsOK(ArchiveQuarantined(a, m), had, n)
<1> DEFINE b == ArchiveQuarantined(a, m)
           first == IF a.arch[m.gen] = Nil THEN m.cost ELSE a.arch[m.gen]
           r == [id |-> <<"mark", m.gen>>, gen |-> m.gen, ev |-> {}, known |-> FALSE, cost |-> MarkerResidual(a, m.gen, first)]
<1>1. DOMAIN a = {"rows", "rec", "arch"}
    BY DEF RowsOK
<1>2. DOMAIN b = DOMAIN a /\ b.rec = a.rec /\ b.rows \in {a.rows, a.rows \cup {r}}
    BY <1>1 DEF ArchiveQuarantined
<1>3. r.gen = m.gen /\ r.ev = {} /\ \A j \in Gen : r.id # <<"rest", j>>
    BY <<"mark", m.gen>>[1] = "mark" /\ \A j \in Gen : <<"rest", j>>[1] = "rest"
<1> HIDE DEF b, r
<1>4. QED
    BY <1>2, <1>3, PlainRow DEF b

\* The books of a step that leaves what the passages had alone.
LEMMA BooksNow ==
    ASSUME RowsOK(acc', pg.had, pg.gen), pg'.had = pg.had, pg'.gen = pg.gen
    PROVE  RowsTrue'
BY DEF RowsTrue

LEMMA FareGens == FareInv /\ pm # Nil => pm.gen \in Gen /\ pm.gen <= pg.gen /\ pg.gen \in Nat /\ RowsOK(acc, pg.had, pg.gen)
BY DEF FareInv, MissionTrue, BookTypes, RowsTrue

\* The mission is set apart: it keeps its request and drives no passage.
LEMMA ApartStep ==
    ASSUME FareInv, pm # Nil, UNCHANGED <<pw, evs>>, NEW m, pm' = m, DOMAIN m = MissionFields, m.fare \in Nat /\ m.cost \in Nat,
           m.gen = pm.gen, m.trip = pm.trip, m.q \/ m.recovery, Asks(m, FALSE),
           RowsOK(acc', pg.had, pg.gen), DOMAIN snap' = DOMAIN snap, snap'.wait = snap.wait,
           DOMAIN pg' = DOMAIN pg, pg'.gen = pg.gen, pg'.had = pg.had
    PROVE  FareInv'
<1>1. ~Straight'
    BY DEF Straight
<1>2. RequestTrue'
    BY <1>1 DEF RequestTrue, Asks, Open
<1>3. RowsTrue'
    BY BooksNow
<1>4. QED
    BY <1>1, <1>2, <1>3, QuietStep

LEMMA QuarantineStep ==
    ASSUME FareInv, pm # Nil, UNCHANGED <<pw, evs>>, NEW a, RowsOK(a, pg.had, pg.gen), QuarantinePassage(pm, a)
    PROVE  FareInv'
<1>1. DOMAIN pm = MissionFields /\ pm.fare \in Nat /\ pm.cost \in Nat
    BY Fields
<1>2. pm.act # Nil => /\ DOMAIN pm.act = {"stage", "arg", "fare", "base", "st", "done"}
                      /\ Asks(pm, Straight)
    BY RequestFields
<1> DEFINE m == [pm EXCEPT !.q = TRUE, !.recovery = FALSE]
<1>3. /\ DOMAIN m = MissionFields /\ m.fare = pm.fare /\ m.cost = pm.cost /\ m.gen = pm.gen /\ m.trip = pm.trip /\ m.groups = pm.groups
      /\ m.act = pm.act /\ m.q
    BY <1>1 DEF MissionFields
<1>4. Asks(m, FALSE)
    BY <1>2, <1>3 DEF Asks
<1>5. pm' = m /\ snap' = [snap EXCEPT !.hint = TRUE] /\ acc' \in {a, ArchiveQuarantined(a, pm)}
      /\ \E f, s : pg' = [pg EXCEPT !.faults = f, !.again = s]
    BY DEF QuarantinePassage
<1> HIDE DEF m
<1>6. RowsOK(acc', pg.had, pg.gen)
    BY <1>5, Archived, FareGens
<1>7. /\ DOMAIN snap' = DOMAIN snap /\ snap'.wait = snap.wait
      /\ DOMAIN pg' = DOMAIN pg /\ pg'.gen = pg.gen /\ pg'.had = pg.had
  <2>1. DOMAIN snap = {"hint", "wait", "latch"} /\ DOMAIN pg = {"gen", "spent", "had", "again", "faults"}
      BY DEF FareInv, BookTypes
  <2>2. QED
      BY <1>5, <2>1
<1>8. QED
    BY <1>1, <1>3, <1>4, <1>5, <1>6, <1>7, ApartStep

LEMMA ReleaseStep ==
    ASSUME FareInv, pm # Nil, pm.act = Nil, pm.q \/ pm.recovery, Release
    PROVE  FareInv'
<1>1. DOMAIN pm = MissionFields /\ pm.fare \in Nat /\ pm.cost \in Nat
    BY Fields
<1>2. pm.gen \in Gen /\ pm.gen <= pg.gen /\ pg.gen \in Nat /\ RowsOK(acc, pg.had, pg.gen)
    BY FareGens
<1>3. DOMAIN snap = {"hint", "wait", "latch"} /\ DOMAIN pg = {"gen", "spent", "had", "again", "faults"}
    BY DEF FareInv, BookTypes
<1> DEFINE a == ArchiveQuarantined(acc, pm)
           extra == IF pm.extra # Nil THEN pm.extra ELSE pm.cost - a.arch[pm.gen]
           r == [id |-> <<"recovery", pm.gen>>, gen |-> pm.gen, ev |-> {}, cost |-> extra, known |-> FALSE]
<1>4. RowsOK(a, pg.had, pg.gen)
    BY <1>2, Archived
<1>0. CASE pm.extra = Nil /\ QuarantinePassage(pm, acc) /\ UNCHANGED <<pw, evs>>
    BY <1>0, <1>2, QuarantineStep
<1> SUFFICES ASSUME ~(pm.extra = Nil /\ QuarantinePassage(pm, acc) /\ UNCHANGED <<pw, evs>>) PROVE FareInv'
    BY <1>0
<1>5. PICK faulty \in BOOLEAN :
          /\ pg' = [pg EXCEPT !.faults = Faults(faulty)]
          /\ acc' = [a EXCEPT !.rows = @ \cup (IF pm.recovery THEN {r} ELSE {})]
          /\ snap' = [snap EXCEPT !.hint = FALSE]
          /\ pm' = IF faulty THEN [pm EXCEPT !.extra = IF pm.recovery THEN extra ELSE Nil] ELSE Nil
          /\ UNCHANGED <<pw, evs>>
    BY DEF Release
<1>6. r.gen = pm.gen /\ r.ev = {} /\ \A j \in Gen : r.id # <<"rest", j>>
    BY <<"recovery", pm.gen>>[1] = "recovery" /\ \A j \in Gen : <<"rest", j>>[1] = "rest"
<1>7. RowsOK(acc', pg.had, pg.gen)
  <2>1. DOMAIN a = {"rows", "rec", "arch"}
      BY <1>4 DEF RowsOK
  <2> HIDE DEF a, r
  <2>2. DOMAIN acc' = DOMAIN a /\ acc'.rec = a.rec /\ acc'.rows \in {a.rows, a.rows \cup {r}}
      BY <1>5, <2>1
  <2>3. QED
      BY <1>2, <1>4, <1>6, <2>2, PlainRow
<1>8. /\ DOMAIN snap' = DOMAIN snap /\ snap'.wait = snap.wait
      /\ DOMAIN pg' = DOMAIN pg /\ pg'.gen = pg.gen /\ pg'.had = pg.had
    BY <1>3, <1>5
<1>9. CASE ~faulty
  <2>1. RowsTrue' /\ RequestTrue'
      BY <1>5, <1>7, <1>8, <1>9, BooksNow DEF RequestTrue
  <2>2. QED
      BY <1>5, <1>8, <1>9, <2>1, QuietStep
<1>10. CASE faulty
  <2> DEFINE m == [pm EXCEPT !.extra = IF pm.recovery THEN extra ELSE Nil]
  <2>1. /\ DOMAIN m = MissionFields /\ m.fare = pm.fare /\ m.cost = pm.cost /\ m.gen = pm.gen /\ m.trip = pm.trip
        /\ m.q = pm.q /\ m.recovery = pm.recovery /\ m.act = Nil
      BY <1>1 DEF MissionFields
  <2>2. Asks(m, FALSE)
      BY <2>1 DEF Asks
  <2>3. pm' = m
      BY <1>5, <1>10
  <2> HIDE DEF m
  <2>4. QED
      BY <1>1, <1>5, <1>7, <1>8, <2>1, <2>2, <2>3, ApartStep
<1>11. QED
    BY <1>9, <1>10

\* A mission set apart goes on without a request.
LEMMA SparedStep ==
    ASSUME FareInv, pm # Nil, UNCHANGED <<pw, evs, pg>>, NEW m, pm' = m, DOMAIN m = MissionFields, m.fare \in Nat /\ m.cost \in Nat,
           m.gen = pm.gen, m.trip = pm.trip, m.q \/ m.recovery, m.act = Nil,
           acc' = ArchiveQuarantined(acc, pm), NEW h, snap' = [snap EXCEPT !.hint = h]
    PROVE  FareInv'
<1>1. Asks(m, FALSE)
    BY DEF Asks
<1>2. RowsOK(acc', pg.had, pg.gen)
    BY FareGens, Archived
<1>3. DOMAIN snap' = DOMAIN snap /\ snap'.wait = snap.wait
    BY DEF FareInv, BookTypes
<1>4. QED
    BY <1>1, <1>2, <1>3, ApartStep

LEMMA ApartSteps ==
    ASSUME FareInv, RequestDamaged \/ RetireQuarantinedAction \/ DriveQuarantined \/ DriveRecovery
    PROVE  FareInv'
<1>1. pm # Nil
    BY DEF RequestDamaged, RetireQuarantinedAction, DriveQuarantined, DriveRecovery
<1>2. DOMAIN pm = MissionFields /\ pm.fare \in Nat /\ pm.cost \in Nat
    BY <1>1, Fields
<1>3. DOMAIN snap = {"hint", "wait", "latch"} /\ DOMAIN pg = {"gen", "spent", "had", "again", "faults"}
    BY DEF FareInv, BookTypes
<1>4. RowsOK(acc, pg.had, pg.gen)
    BY <1>1, FareGens
<1>5. CASE RequestDamaged
  <2> DEFINE m == [pm EXCEPT !.q = TRUE, !.recovery = FALSE]
  <2>1. pm.act # Nil /\ pm' = m /\ snap' = [snap EXCEPT !.hint = TRUE] /\ UNCHANGED <<pw, evs, acc>>
        /\ \E s : pg' = [pg EXCEPT !.again = s]
      BY <1>5 DEF RequestDamaged
  <2>2. /\ DOMAIN m = MissionFields /\ m.fare = pm.fare /\ m.cost = pm.cost /\ m.gen = pm.gen /\ m.trip = pm.trip /\ m.groups = pm.groups
        /\ m.act = pm.act /\ m.q
      BY <1>2 DEF MissionFields
  <2>3. Asks(m, FALSE)
      BY <1>1, <2>1, <2>2, RequestFields DEF Asks
  <2> HIDE DEF m
  <2>4. /\ DOMAIN snap' = DOMAIN snap /\ snap'.wait = snap.wait
        /\ DOMAIN pg' = DOMAIN pg /\ pg'.gen = pg.gen /\ pg'.had = pg.had
      BY <1>3, <2>1
  <2>5. QED
      BY <1>1, <1>2, <1>4, <2>1, <2>2, <2>3, <2>4, ApartStep
<1>6. CASE RetireQuarantinedAction
  <2> DEFINE m == [pm EXCEPT !.act = Nil]
  <2>1. pm.q /\ pm' = m /\ snap' = [snap EXCEPT !.hint = TRUE] /\ UNCHANGED <<pw, evs, pg>>
        /\ acc' = ArchiveQuarantined(acc, pm)
      BY <1>6 DEF RetireQuarantinedAction
  <2>2. /\ DOMAIN m = MissionFields /\ m.fare = pm.fare /\ m.cost = pm.cost /\ m.gen = pm.gen /\ m.trip = pm.trip /\ m.act = Nil /\ m.q = pm.q
      BY <1>2 DEF MissionFields
  <2> HIDE DEF m
  <2>3. QED
      BY <1>1, <1>2, <2>1, <2>2, SparedStep
<1>7. CASE DriveQuarantined
  <2>1. pm.q /\ pm.act = Nil
      BY <1>7 DEF DriveQuarantined
  <2>2. CASE snap' = [snap EXCEPT !.hint = TRUE] /\ UNCHANGED <<pw, evs, pm, acc, pg>>
    <3>1. DOMAIN snap' = DOMAIN snap /\ snap'.wait = snap.wait
        BY <1>3, <2>2
    <3>2. RowsTrue' /\ RequestTrue'
        BY <1>4, <2>1, <2>2 DEF RowsTrue, FareInv, RequestTrue
    <3>3. ~Straight'
        BY <2>1, <2>2 DEF Straight
    <3>4. QED
        BY <1>1, <2>2, <3>1, <3>2, <3>3, QuietStep
  <2>3. CASE Release
      BY <1>1, <2>1, <2>3, ReleaseStep
  <2>4. CASE /\ acc' = ArchiveQuarantined(acc, pm)
             /\ pm' = [pm EXCEPT !.q = FALSE, !.recovery = TRUE, !.groups = Aboard, !.abandon = TRUE, !.offer = 0,
                                 !.reoffer = FALSE, !.unknown = Nil, !.receipts = << >>, !.extra = Nil]
             /\ snap' = [snap EXCEPT !.hint = @ \/ Aboard # {}]
             /\ UNCHANGED <<pw, evs, pg>>
    <3> DEFINE m == [pm EXCEPT !.q = FALSE, !.recovery = TRUE, !.groups = Aboard, !.abandon = TRUE, !.offer = 0,
                               !.reoffer = FALSE, !.unknown = Nil, !.receipts = << >>, !.extra = Nil]
               h == snap.hint \/ Aboard # {}
    <3>1. /\ DOMAIN m = MissionFields /\ m.fare = pm.fare /\ m.cost = pm.cost /\ m.gen = pm.gen /\ m.trip = pm.trip /\ m.recovery
          /\ m.act = Nil
        BY <1>2, <2>1 DEF MissionFields
    <3>2. pm' = m
        BY <2>4
    <3>3. snap' = [snap EXCEPT !.hint = h]
        BY <2>4
    <3> HIDE DEF m, h
    <3>4. QED
        BY <1>1, <1>2, <2>4, <3>1, <3>2, <3>3, SparedStep
  <2>5. QED
      BY <1>7, <2>2, <2>3, <2>4 DEF DriveQuarantined
<1>8. CASE DriveRecovery
  <2>1. pm.recovery /\ pm.act = Nil
      BY <1>8 DEF DriveRecovery
  <2>2. ASSUME NEW i, Stage([pm EXCEPT !.groups = Aboard, !.offer = i], "cancel", i), UNCHANGED <<pw, evs, acc, snap, pg>>
        PROVE  FareInv'
    <3> DEFINE m == [pm EXCEPT !.groups = Aboard, !.offer = i, !.act = Request("cancel", i, pm.fare)]
    <3>1. pm' = m
        BY <1>2, <2>2 DEF Stage, MissionFields
    <3>2. /\ DOMAIN m = MissionFields /\ m.fare = pm.fare /\ m.cost = pm.cost /\ m.gen = pm.gen /\ m.trip = pm.trip /\ m.recovery
          /\ m.act = Request("cancel", i, pm.fare)
        BY <1>2, <2>1 DEF MissionFields
    <3>3. Asks(m, FALSE)
        BY <1>2, <3>2 DEF Asks, Request
    <3> HIDE DEF m
    <3>4. QED
        BY <1>1, <1>2, <1>4, <2>2, <3>1, <3>2, <3>3, ApartStep
  <2>3. CASE Release
      BY <1>1, <2>1, <2>3, ReleaseStep
  <2>4. ASSUME Open = {}, Aboard # {}, Spend, Stage([pm EXCEPT !.groups = Aboard, !.cost = @ + Stores], "depart", 0),
               UNCHANGED <<pw, evs, acc, snap>>, pw.ship = "port"
        PROVE  FareInv'
    <3> DEFINE m == [pm EXCEPT !.groups = Aboard, !.cost = @ + Stores, !.act = Request("depart", 0, pm.fare)]
    <3>1. pm' = m
        BY <1>2, <2>4 DEF Stage, MissionFields
    <3>2. /\ DOMAIN m = MissionFields /\ m.fare = pm.fare /\ m.cost \in Nat /\ m.gen = pm.gen /\ m.trip = pm.trip
          /\ m.recovery /\ m.act = Request("depart", 0, pm.fare) /\ m.groups = Aboard
        BY <1>2, <2>1 DEF MissionFields, Stores
    <3>3. Asks(m, FALSE)
        BY <1>2, <2>4, <3>2 DEF Asks, Request
    <3>4. DOMAIN pg' = DOMAIN pg /\ pg'.gen = pg.gen /\ pg'.had = pg.had
        BY <1>3, <2>4 DEF Spend
    <3> HIDE DEF m
    <3>5. QED
        BY <1>1, <1>2, <1>4, <2>4, <3>1, <3>2, <3>3, <3>4, ApartStep
  <2>5. QED
      BY <1>8, <2>2, <2>3, <2>4 DEF DriveRecovery
<1>9. QED
    BY <1>5, <1>6, <1>7, <1>8

\* The ship sails from the port its mission began in.
LEMMA DepartStep ==
    ASSUME FareInv, Depart
    PROVE  FareInv'
<1>1. pm # Nil /\ pm.act = Nil /\ ~pm.q /\ ~pm.recovery /\ pw.ship = "port" /\ pw.port = pm.trip
    BY DEF Depart, Ours, AtOrigin, Here, Idle, Driven
<1>2. DOMAIN pm = MissionFields /\ pm.fare \in Nat /\ pm.cost \in Nat
    BY <1>1, Fields
<1> DEFINE m == [pm EXCEPT !.cost = @ + Stores, !.act = Request("depart", 0, pm.fare)]
<1>3. pm' = m
    BY <1>2 DEF Depart, Stage, MissionFields
<1>4. /\ DOMAIN m = MissionFields /\ m.fare = pm.fare /\ m.cost \in Nat /\ m.gen = pm.gen /\ m.trip = pm.trip
      /\ m.groups = pm.groups /\ m.receipts = pm.receipts /\ m.unknown = pm.unknown /\ m.q = pm.q
      /\ m.recovery = pm.recovery /\ m.act = Request("depart", 0, pm.fare)
    BY <1>2 DEF MissionFields, Stores
<1>5. Asks(m, Straight)
    BY <1>1, <1>2, <1>4 DEF Asks, Request, Depart
<1>6. Steady
    BY DEF Depart, Spend, Steady, FareInv, BookTypes
<1> HIDE DEF m
<1>7. QED
    BY <1>1, <1>2, <1>3, <1>4, <1>5, <1>6, DriveStep

-----------------------------------------------------------------------------
(* Admission, and the groups a mission learns of *)

LEMMA AdmitStep ==
    ASSUME FareInv, NEW m, Admit(m), DOMAIN m = MissionFields, m.fare \in Nat /\ m.cost \in Nat, m.act = Nil,
           m.gen = pg.gen + 1, m.trip = pw.port, m.receipts = << >>, m.unknown = Nil,
           \/ m.groups = {} /\ pw.ship = "port"
           \/ m.groups = Aboard /\ Aboard # {} /\ pw.ship # "gone"
    PROVE  FareInv'
<1>1. /\ pm = Nil /\ pg.gen < MaxGen /\ pm' = m
      /\ pg' = [pg EXCEPT !.gen = @ + 1, !.spent[pg.gen + 1] = m.cost, !.had[pg.gen + 1] = m.groups]
      /\ snap' = [snap EXCEPT !.hint = @ \/ m.groups # {}]
      /\ UNCHANGED <<pw, evs, acc>>
    BY DEF Admit
<1>2. /\ DOMAIN snap = {"hint", "wait", "latch"} /\ DOMAIN pg = {"gen", "spent", "had", "again", "faults"} /\ pg.gen \in Nat
      /\ pg.had \in [Gen -> SUBSET Group] /\ pg.gen + 1 \in Gen /\ pw.port \in Nat
      /\ snap.wait # Nil => DOMAIN snap.wait = {"gen", "at"} /\ snap.wait.gen \in Nat /\ snap.wait.gen <= pg.gen
    BY <1>1, PassengersAssumption DEF FareInv, BookTypes, ShipTypes, Gen
<1>3. Coming \subseteq Group /\ m.groups \subseteq Coming
    BY DEF FareInv, ShipTypes, Aboard
<1>4. ShipTypes' /\ ShipTrue' /\ EventsTrue'
    BY <1>1 DEF FareInv, ShipTypes, ShipTrue, EventsTrue, Event, Open, Coming, TripOf
<1>5. /\ pg'.gen = pg.gen + 1 /\ pg'.had = [pg.had EXCEPT ![pg.gen + 1] = m.groups] /\ DOMAIN pg' = DOMAIN pg
      /\ DOMAIN snap' = DOMAIN snap /\ snap'.wait = snap.wait
    BY <1>1, <1>2
<1>6. BookTypes'
    BY <1>2, <1>3, <1>5 DEF BookTypes
<1>7. RequestTrue'
    BY <1>1 DEF RequestTrue
<1>8. UnknownTrue'
    BY <1>1 DEF UnknownTrue
<1>9. RowsTrue'
  <2>1. \A k \in Gen : k <= pg.gen => pg.had[k] \subseteq pg'.had[k]
      BY <1>2, <1>5
  <2>2. RowsOK(acc, pg.had, pg.gen)
      BY DEF FareInv, RowsTrue
  <2>3. RowsOK(acc, pg'.had, pg.gen + 1)
      BY <1>2, <2>1, <2>2, RowsGrow
  <2>4. QED
      BY <1>1, <1>5, <2>3 DEF RowsTrue
<1>10. GroupsTrue'
  <2>1. (AtHome \/ Away)'
    <3>1. CASE pw.ship = "port"
        BY <1>1, <3>1 DEF AtHome
    <3>2. CASE pw.ship # "port"
      <4>1. m.groups # {} /\ Open = {} /\ \A g \in Coming : TripOf(g) > pw.port => pw.grp[g] = "waiting"
          BY <1>2, <3>2 DEF FareInv, ShipTrue, TripOf
      <4>2. QED
          BY <1>1, <3>2, <4>1 DEF Away, Open, Coming
    <3>3. QED
        BY <3>1, <3>2
  <2>2. m.groups \subseteq pg'.had[m.gen]
      BY <1>2, <1>5
  <2>3. \A g \in m.groups : g \in Coming /\ pw.grp[g] # "waiting" /\ TripOf(g) = m.trip
      BY DEF FareInv, ShipTrue, Aboard
  <2>4. ~Waits'
    <3>1. snap.wait = Nil \/ snap.wait.gen # m.gen
        BY <1>2
    <3>2. QED
        BY <1>1, <1>5, <3>1 DEF Waits
  <2>5. QED
      BY <1>1, <2>1, <2>2, <2>3, <2>4 DEF GroupsTrue, Coming
<1>11. ReceiptsTrue'
  <2>1. << >> \in Seq(Range(<< >>)) /\ DOMAIN << >> = {}
      OBVIOUS
  <2>2. QED
      BY <1>1, <2>1 DEF ReceiptsTrue
<1>12. MissionTrue'
    BY <1>1, <1>2, <1>5, <1>10, <1>11 DEF MissionTrue
<1>13. QED
    BY <1>4, <1>6, <1>7, <1>8, <1>9, <1>12 DEF FareInv

LEMMA AdmissionSteps ==
    ASSUME FareInv, ConsiderPassage \/ RecoverPassage
    PROVE  FareInv'
<1>1. NewMission.act = Nil /\ DOMAIN NewMission = MissionFields
    BY DEF NewMission, MissionFields
<1>2. ASSUME NEW i \in Open, Admit([NewMission EXCEPT !.offer = i, !.fare = pw.offers[i].fare]), pw.ship = "port"
      PROVE  FareInv'
  <2> DEFINE m == [NewMission EXCEPT !.offer = i, !.fare = pw.offers[i].fare]
  <2>1. pw.offers[i].fare \in Nat
    <3>1. pw.offers \in Seq(Offers)
        BY DEF FareInv, ShipTypes
    <3>2. \A j \in DOMAIN pw.offers : pw.offers[j] \in Offers
        BY <3>1
    <3>3. QED
        BY <3>2 DEF Offers, Open
  <2>2. /\ DOMAIN m = MissionFields /\ m.fare \in Nat /\ m.cost \in Nat /\ m.act = Nil /\ m.gen = pg.gen + 1 /\ m.trip = pw.port
        /\ m.receipts = << >> /\ m.unknown = Nil /\ m.groups = {}
      BY <2>1 DEF NewMission, MissionFields
  <2>3. Admit(m)
      BY <1>2
  <2> HIDE DEF m
  <2>4. QED
      BY <1>2, <2>2, <2>3, AdmitStep
<1>3. ASSUME Admit([NewMission EXCEPT !.fare = 2, !.abandon = FALSE, !.cost = 1]), pw.ship = "port"
      PROVE  FareInv'
  <2> DEFINE m == [NewMission EXCEPT !.fare = 2, !.abandon = FALSE, !.cost = 1]
  <2>1. /\ DOMAIN m = MissionFields /\ m.fare \in Nat /\ m.cost \in Nat /\ m.act = Nil /\ m.gen = pg.gen + 1 /\ m.trip = pw.port
        /\ m.receipts = << >> /\ m.unknown = Nil /\ m.groups = {}
      BY DEF NewMission, MissionFields
  <2>2. Admit(m)
      BY <1>3
  <2> HIDE DEF m
  <2>3. QED
      BY <1>3, <2>1, <2>2, AdmitStep
<1>4. CASE RecoverPassage
  <2> DEFINE m == [NewMission EXCEPT !.groups = Aboard]
  <2>1. /\ DOMAIN m = MissionFields /\ m.fare \in Nat /\ m.cost \in Nat /\ m.act = Nil /\ m.gen = pg.gen + 1 /\ m.trip = pw.port
        /\ m.receipts = << >> /\ m.unknown = Nil /\ m.groups = Aboard
      BY DEF NewMission, MissionFields
  <2>2. Admit(m) /\ pw.ship # "gone" /\ Aboard # {}
      BY <1>4 DEF RecoverPassage
  <2> HIDE DEF m
  <2>3. QED
      BY <2>1, <2>2, AdmitStep
<1>5. QED
    BY <1>2, <1>3, <1>4 DEF ConsiderPassage

LEMMA LearnStep ==
    ASSUME FareInv, Here, NEW new \in SUBSET Coming, Learn(new),
           \A g \in new : pw.grp[g] # "waiting" /\ TripOf(g) = pm.trip
    PROVE  FareInv'
<1>1. /\ pm # Nil /\ pm.act = Nil /\ Straight /\ pm.unknown = Nil /\ pm.receipts = << >>
    BY DEF Here, Idle, Driven, Straight
<1>2. new \ pm.groups # {} /\ UNCHANGED <<pw, evs, acc>>
    BY DEF Learn
<1>3. /\ DOMAIN pm = MissionFields /\ pm.fare \in Nat /\ pm.cost \in Nat /\ pm.gen \in Gen /\ pm.gen <= pg.gen /\ pm.trip \in Nat /\ pg.gen \in Nat
      /\ RowsOK(acc, pg.had, pg.gen) /\ GroupsTrue
    BY <1>1, Fields, FareGens DEF FareInv, MissionTrue
<1>4. /\ DOMAIN snap = {"hint", "wait", "latch"} /\ DOMAIN pg = {"gen", "spent", "had", "again", "faults"}
      /\ pg.had \in [Gen -> SUBSET Group] /\ Coming \subseteq Group
    BY DEF FareInv, BookTypes, ShipTypes
<1> DEFINE m == [pm EXCEPT !.groups = @ \cup new]
<1>5. pm' = m
    BY DEF Learn
<1>6. /\ DOMAIN m = MissionFields /\ m.fare = pm.fare /\ m.cost = pm.cost /\ m.gen = pm.gen /\ m.trip = pm.trip /\ m.groups = pm.groups \cup new
      /\ m.receipts = << >> /\ m.unknown = Nil /\ m.act = Nil
    BY <1>1, <1>3 DEF MissionFields
<1> HIDE DEF m
<1>7. /\ DOMAIN snap' = DOMAIN snap /\ snap'.wait = snap.wait
      /\ DOMAIN pg' = DOMAIN pg /\ pg'.gen = pg.gen /\ pg'.had = [pg.had EXCEPT ![pm.gen] = @ \cup new]
    BY <1>4 DEF Learn
<1>8. ShipTypes' /\ ShipTrue' /\ EventsTrue'
    BY <1>2 DEF FareInv, ShipTypes, ShipTrue, EventsTrue, Event, Open, Coming, TripOf
<1>9. BookTypes'
  <2>1. pg'.had \in [Gen -> SUBSET Group]
      BY <1>3, <1>4, <1>7
  <2>2. QED
      BY <1>7, <2>1 DEF FareInv, BookTypes
<1>10. RequestTrue' /\ UnknownTrue'
    BY <1>3, <1>5, <1>6 DEF RequestTrue, UnknownTrue
<1>11. RowsTrue'
  <2>1. \A k \in Gen : k <= pg.gen => pg.had[k] \subseteq pg'.had[k]
      BY <1>3, <1>4, <1>7
  <2>2. RowsOK(acc, pg'.had, pg.gen)
      BY <1>3, <2>1, RowsGrow
  <2>3. QED
      BY <1>2, <1>7, <2>2 DEF RowsTrue
<1>12. GroupsTrue'
  <2>1. (AtHome \/ Away)'
      BY <1>2, <1>3, <1>5, <1>6 DEF GroupsTrue, AtHome, Away, Open, Coming
  <2>2. m.groups \subseteq pg'.had[m.gen]
      BY <1>3, <1>4, <1>6, <1>7 DEF GroupsTrue
  <2>3. \A g \in m.groups : g \in Coming /\ pw.grp[g] # "waiting" /\ TripOf(g) = m.trip
      BY <1>3, <1>6 DEF GroupsTrue
  <2>4. Waits' => snap'.wait.at = m.trip /\ m.groups # {}
      BY <1>1, <1>3, <1>5, <1>6, <1>7 DEF Waits, GroupsTrue
  <2>5. QED
      BY <1>2, <1>5, <2>1, <2>2, <2>3, <2>4 DEF GroupsTrue, Coming
<1>13. ReceiptsTrue'
  <2>1. << >> \in Seq(Range(<< >>)) /\ DOMAIN << >> = {}
      OBVIOUS
  <2>2. QED
      BY <1>5, <1>6, <2>1 DEF ReceiptsTrue
<1>14. MissionTrue'
    BY <1>3, <1>5, <1>6, <1>7, <1>12, <1>13 DEF MissionTrue
<1>15. QED
    BY <1>8, <1>9, <1>10, <1>11, <1>14 DEF FareInv

LEMMA SyncSteps ==
    ASSUME FareInv, SyncAboard \/ \E g \in Coming : SyncBoarded(g)
    PROVE  FareInv'
<1>1. CASE SyncAboard
    BY <1>1, LearnStep DEF SyncAboard, Aboard
<1>2. ASSUME NEW g \in Coming, SyncBoarded(g) PROVE FareInv'
    BY <1>2, LearnStep DEF SyncBoarded
<1>3. QED
    BY <1>1, <1>2

-----------------------------------------------------------------------------
(* Completion without fares *)

\* The mission and the books are as they were; the wait ends or goes on.
LEMMA WaitStep ==
    ASSUME FareInv, UNCHANGED <<pw, evs, acc, pm>>, DOMAIN snap' = DOMAIN snap, snap'.wait \in {Nil, snap.wait},
           DOMAIN pg' = DOMAIN pg, pg'.gen = pg.gen, pg'.had = pg.had
    PROVE  FareInv'
<1>1. RowsTrue' /\ RequestTrue'
    BY DEF FareInv, RowsTrue, RequestTrue, Straight, Open
<1>2. QED
    BY <1>1, QuietStep DEF Straight

LEMMA SweptWait ==
    ASSUME NEW s, NEW m, DOMAIN s = {"hint", "wait", "latch"}
    PROVE  DOMAIN Swept(s, m) = DOMAIN s /\ Swept(s, m).wait \in {Nil, s.wait}
BY DEF Swept

LEMMA WaitSteps ==
    ASSUME FareInv, BeginWait \/ CaptureStale \/ SweepWait
    PROVE  FareInv'
<1>1. /\ DOMAIN snap = {"hint", "wait", "latch"} /\ DOMAIN pg = {"gen", "spent", "had", "again", "faults"} /\ pg.gen \in Nat
    BY DEF FareInv, BookTypes
<1>2. CASE CaptureStale
    BY <1>1, <1>2, WaitStep DEF CaptureStale
<1>3. CASE SweepWait
    BY <1>1, <1>3, SweptWait, WaitStep DEF SweepWait
<1>4. CASE BeginWait
  <2>1. /\ pm # Nil /\ pm.groups # {} /\ Straight /\ pw.ship = "port" /\ pw.port > pm.trip
        /\ snap' = [snap EXCEPT !.wait = [gen |-> pm.gen, at |-> pw.now]] /\ UNCHANGED <<pw, evs, pm, acc, pg>>
      BY <1>4 DEF BeginWait, Here, Idle, Driven, Arrived, Straight
  <2>2. pm.gen \in Gen /\ pm.gen <= pg.gen /\ pm.trip \in Nat /\ GroupsTrue /\ ReceiptsTrue
      BY <2>1 DEF FareInv, MissionTrue
  <2>3. pw.now = pm.trip
      BY <2>1, <2>2 DEF GroupsTrue, AtHome, Away, FareInv, ShipTrue, ShipTypes
  <2>4. DOMAIN snap' = DOMAIN snap /\ snap'.wait = [gen |-> pm.gen, at |-> pw.now]
      BY <1>1, <2>1
  <2>5. BookTypes'
    <3>1. pm.gen \in Nat
        BY <2>2, PassengersAssumption DEF Gen
    <3>2. QED
        BY <2>1, <2>2, <2>4, <3>1 DEF FareInv, BookTypes
  <2>6. ShipTypes' /\ ShipTrue' /\ EventsTrue' /\ RequestTrue' /\ UnknownTrue' /\ RowsTrue'
      BY <2>1 DEF FareInv, ShipTypes, ShipTrue, EventsTrue, Event, Open, Coming, TripOf, RequestTrue, UnknownTrue,
                  RowsTrue, Straight
  <2>7. GroupsTrue'
      BY <2>1, <2>2, <2>3, <2>4 DEF GroupsTrue, AtHome, Away, Open, Coming
  <2>8. ReceiptsTrue'
      BY <2>1, <2>2 DEF ReceiptsTrue
  <2>9. QED
      BY <2>1, <2>2, <2>5, <2>6, <2>7, <2>8 DEF FareInv, MissionTrue
<1>5. QED
    BY <1>2, <1>3, <1>4

LEMMA RestKept ==
    ASSUME NEW a, NEW had, NEW n, RowsOK(a, had, n), NEW k \in Gen, a.rec[k] # Nil
    PROVE  RowsOK(RestSettled(a, k), had, n) /\ RestSettled(a, k).rec = a.rec
<1>1. CASE a.rec[k].st = "open" /\ ~HasRest(a, k)
  <2> DEFINE b == RestSettled(a, k)
             r == RestRow(a.rec[k])
  <2>1. DOMAIN b = DOMAIN a /\ b.rec = a.rec /\ b.rows = a.rows \cup {r}
      BY <1>1 DEF RestSettled, RowsOK
  <2>2. a.rec[k].gen = k /\ k <= n
      BY DEF RowsOK, Batch
  <2>3. r.id = <<"rest", k>> /\ r.gen = k /\ r.ev = {}
      BY <2>2 DEF RestRow
  <2>4. \A j \in Gen : r.id = <<"rest", j>> => j = k
      BY <2>3
  <2> HIDE DEF b
  <2>5. \A x \in b.rows, j \in Gen :
            x.id = <<"rest", j>> => a.rec[j] # Nil /\ (a.rec[j].st = "open" => x = RestRow(a.rec[j]))
      BY <2>1, <2>4 DEF RowsOK
  <2> HIDE DEF r
  <2>6. \A x \in b.rows : x.gen \in Gen /\ x.gen <= n /\ FaresOf(x, had)
      BY <2>1, <2>2, <2>3 DEF RowsOK, FaresOf
  <2>7. \A x, y \in b.rows : x.ev \cap y.ev # {} => x = y
      BY <2>1, <2>3 DEF RowsOK
  <2>8. RowsOK(b, had, n)
      BY <2>1, <2>5, <2>6, <2>7 DEF RowsOK
  <2>9. QED
      BY <2>1, <2>8 DEF b
<1>2. CASE ~(a.rec[k].st = "open" /\ ~HasRest(a, k))
    BY <1>2 DEF RestSettled
<1>3. QED
    BY <1>1, <1>2

\* The archive of a batch is closed.
LEMMA ClosedKept ==
    ASSUME NEW a, NEW had, NEW n, RowsOK(a, had, n), NEW k \in Gen, a.rec[k] # Nil,
           NEW st \in {"resolved", "quarantined", "expired"}
    PROVE  RowsOK([a EXCEPT !.rec[k].st = st], had, n)
<1>1. DOMAIN a = {"rows", "rec", "arch"} /\ DOMAIN a.rec = Gen
    BY DEF RowsOK
<1>2. Batch(a.rec[k], k, had) /\ k <= n
    BY DEF RowsOK
<1> DEFINE u == [a.rec[k] EXCEPT !.st = st]
           b == [a EXCEPT !.rec[k].st = st]
<1>3. u \in Archive /\ u.gen = a.rec[k].gen /\ u.gr = a.rec[k].gr /\ u.done = a.rec[k].done
      /\ u.start = a.rec[k].start /\ u.st # "open"
    BY <1>2 DEF Batch, Archive
<1>4. DOMAIN b = DOMAIN a /\ b.rows = a.rows /\ b.rec = [a.rec EXCEPT ![k] = u]
    BY <1>1
<1> HIDE DEF b, u
<1>5. u # Nil /\ Batch(u, k, had)
    BY <1>2, <1>3, PassengersNil DEF Batch
<1>6. DOMAIN b.rec = Gen /\ b.rec[k] = u /\ \A j \in Gen : j # k => b.rec[j] = a.rec[j]
    BY <1>1, <1>4
<1>7. \A j \in Gen : b.rec[j] # Nil => j <= n /\ Batch(b.rec[j], j, had)
    BY <1>2, <1>5, <1>6 DEF RowsOK
<1>8. \A r \in b.rows, j \in Gen :
          r.id = <<"rest", j>> => b.rec[j] # Nil /\ (b.rec[j].st = "open" => r = RestRow(b.rec[j]))
    BY <1>3, <1>4, <1>5, <1>6 DEF RowsOK
<1>9. RowsOK(b, had, n)
    BY <1>1, <1>4, <1>6, <1>7, <1>8 DEF RowsOK
<1>10. QED
    BY <1>9 DEF b

\* Events found for an archived batch are of its voyage.
LEMMA ArchivedFares ==
    ASSUME EventsTrue, NEW k, NEW had, NEW r, Batch(r, k, had), NEW e \in ReceiptTerminal(r)
    PROVE  \E g \in e.gs, h \in had[k] : TripOf(g) = TripOf(h)
<1>1. PICK h \in r.gr : h \in had[k] /\ TripOf(h) = r.done
    BY DEF Batch
<1>2. Event(e)
    BY DEF EventsTrue, ReceiptTerminal, Known
<1>3. CASE e.tag # Nil
    BY <1>1, <1>2, <1>3 DEF Event, ReceiptTerminal, Batch
<1>4. CASE e.tag = Nil
  <2>1. e.at # Nil /\ e.at > r.start /\ e.at <= r.done
      BY <1>4 DEF ReceiptTerminal, Known, PassengerTerminalAt
  <2>2. PICK g \in e.gs : e.at = TripOf(g)
      BY <1>2, <2>1 DEF Event
  <2>3. r.start \in Nat /\ r.done = r.start + 1
      BY DEF Batch, Archive
  <2>4. TripOf(g) = r.done
      BY <2>1, <2>2, <2>3 DEF TripOf
  <2>5. QED
      BY <1>1, <2>4
<1>5. QED
    BY <1>3, <1>4

LEMMA ResolvedKept ==
    ASSUME EventsTrue, NEW a, NEW had, NEW n, RowsOK(a, had, n), NEW k \in Gen, a.rec[k] # Nil, a.rec[k].st = "open"
    PROVE  RowsOK(Resolved(a, k), had, n)
<1> DEFINE r == a.rec[k]
           E == ReceiptTerminal(r)
           row == [RestRow(r) EXCEPT !.ev = {<<e.gs, e.n>> : e \in E}, !.known = TRUE]
           used == \E x \in a.rows : x.id # row.id /\ x.ev \cap row.ev # {}
           b == [a EXCEPT !.rows = (@ \ {RestRow(r)}) \cup {row}, !.rec[k].st = "resolved"]
           c == [a EXCEPT !.rec[k].st = "resolved"]
<1>1. Resolved(a, k) \in {a, [a EXCEPT !.rec[k].st = "quarantined"]} \/ (Resolved(a, k) = b /\ ~used)
    BY DEF Resolved
<1>2. CASE Resolved(a, k) \in {a, [a EXCEPT !.rec[k].st = "quarantined"]}
  <2>1. RowsOK([a EXCEPT !.rec[k].st = "quarantined"], had, n)
      BY ClosedKept
  <2>2. Resolved(a, k) = a \/ Resolved(a, k) = [a EXCEPT !.rec[k].st = "quarantined"]
      BY <1>2
  <2>3. QED
      BY <2>1, <2>2
<1>3. CASE Resolved(a, k) = b /\ ~used
  <2>1. RowsOK(c, had, n)
      BY ClosedKept
  <2>2. DOMAIN a = {"rows", "rec", "arch"} /\ DOMAIN a.rec = Gen /\ Batch(r, k, had) /\ k <= n /\ r.gen = k
      BY DEF RowsOK, Batch
  <2>3. DOMAIN b = DOMAIN c /\ b.rec = c.rec /\ b.rows = (a.rows \ {RestRow(r)}) \cup {row} /\ c.rows = a.rows
        /\ c.rec[k].st = "resolved" /\ \A j \in Gen : j # k => c.rec[j] = a.rec[j]
      BY <2>2 DEF Batch, Archive
  <2>4. row.id = <<"rest", k>> /\ row.gen = k /\ row.ev = {<<e.gs, e.n>> : e \in E}
      BY <2>2 DEF RestRow
  <2>5. \A j \in Gen : row.id = <<"rest", j>> => j = k
      BY <2>4
  <2>6. FaresOf(row, had)
    <3>1. ASSUME NEW e \in E PROVE \E g \in e.gs, h \in had[k] : TripOf(g) = TripOf(h)
        BY <2>2, ArchivedFares
    <3>2. QED
        BY <2>4, <3>1 DEF FaresOf
  <2>7. \A x \in a.rows \ {RestRow(r)} : x.ev \cap row.ev = {}
    <3>1. SUFFICES ASSUME NEW x \in a.rows, x # RestRow(r), x.ev \cap row.ev # {} PROVE FALSE
        OBVIOUS
    <3>2. x.id = <<"rest", k>>
        BY <1>3, <2>4, <3>1
    <3>3. QED
        BY <3>1, <3>2 DEF RowsOK
  <2> HIDE DEF b, c, row, used, E
  <2>8. \A x \in b.rows : x.gen \in Gen /\ x.gen <= n /\ FaresOf(x, had)
      BY <2>2, <2>3, <2>4, <2>6 DEF RowsOK
  <2>9. \A x, y \in b.rows : x.ev \cap y.ev # {} => x = y
      BY <2>3, <2>7 DEF RowsOK
  <2>10. \A x \in b.rows, j \in Gen :
             x.id = <<"rest", j>> => b.rec[j] # Nil /\ (b.rec[j].st = "open" => x = RestRow(b.rec[j]))
    <3>1. c.rec[k] # Nil
      <4>1. [a.rec[k] EXCEPT !.st = "resolved"] \in Archive
          BY <2>2 DEF Batch, Archive
      <4>2. c.rec[k] = [a.rec[k] EXCEPT !.st = "resolved"]
          BY <2>2 DEF c
      <4>3. QED
          BY <4>1, <4>2, PassengersNil
    <3>2. QED
        BY <2>1, <2>3, <2>5, <3>1 DEF RowsOK
  <2>11. RowsOK(b, had, n)
      BY <2>1, <2>3, <2>8, <2>9, <2>10 DEF RowsOK
  <2>12. QED
      BY <1>3, <2>11 DEF b
<1>4. QED
    BY <1>1, <1>2, <1>3

LEMMA ReleasedWait ==
    ASSUME NEW k
    PROVE  DOMAIN Released(k) = {"hint", "wait", "latch"} /\ Released(k).wait \in {Nil, snap.wait}
BY DEF Released

LEMMA ArchiveSteps ==
    ASSUME FareInv, NEW k \in Gen, ScanReceipt(k) \/ ReceiptExpires(k)
    PROVE  FareInv'
<1>1. DOMAIN snap = {"hint", "wait", "latch"} /\ DOMAIN pg = {"gen", "spent", "had", "again", "faults"} /\ EventsTrue
      /\ RowsOK(acc, pg.had, pg.gen)
    BY DEF FareInv, BookTypes, RowsTrue
<1>2. acc.rec[k] # Nil /\ acc.rec[k].st = "open"
    BY DEF ScanReceipt, ReceiptExpires
<1>3. RowsOK(RestSettled(acc, k), pg.had, pg.gen) /\ RestSettled(acc, k).rec = acc.rec
    BY <1>1, <1>2, RestKept
<1>4. CASE ScanReceipt(k)
  <2>1. PICK i \in 1..3 :
            /\ pg' = [pg EXCEPT !.faults = Faults(i < 3)]
            /\ acc' = IF i = 3 THEN Resolved(RestSettled(acc, k), k) ELSE RestSettled(acc, k)
            /\ pm' = IF MissionOf(k) /\ i = 3 THEN Nil ELSE pm
            /\ snap' = IF i = 1 THEN snap ELSE Swept(Released(k), IF MissionOf(k) /\ i = 3 THEN Nil ELSE pm)
            /\ UNCHANGED <<pw, evs>>
      BY <1>4 DEF ScanReceipt
  <2>2. RowsOK(acc', pg.had, pg.gen)
      BY <1>1, <1>2, <1>3, <2>1, ResolvedKept
  <2>3. DOMAIN pg' = DOMAIN pg /\ pg'.gen = pg.gen /\ pg'.had = pg.had
      BY <1>1, <2>1
  <2>4. DOMAIN snap' = DOMAIN snap /\ snap'.wait \in {Nil, snap.wait}
      BY <1>1, <2>1, SweptWait, ReleasedWait
  <2>5. RowsTrue' /\ RequestTrue' /\ pm' \in {Nil, pm}
      BY <2>1, <2>2, <2>3, BooksNow DEF FareInv, RequestTrue, Straight, Open
  <2>6. QED
      BY <2>1, <2>3, <2>4, <2>5, QuietStep DEF Straight
<1>5. CASE ReceiptExpires(k)
  <2>1. acc' = [RestSettled(acc, k) EXCEPT !.rec[k].st = "expired"] /\ snap' = Swept(snap, pm)
        /\ UNCHANGED <<pw, evs, pm, pg>>
      BY <1>5 DEF ReceiptExpires
  <2>2. RowsOK(acc', pg.had, pg.gen)
      BY <1>2, <1>3, <2>1, ClosedKept
  <2>3. DOMAIN snap' = DOMAIN snap /\ snap'.wait \in {Nil, snap.wait}
      BY <1>1, <2>1, SweptWait
  <2>4. RowsTrue' /\ RequestTrue'
      BY <2>1, <2>2, BooksNow DEF FareInv, RequestTrue, Straight, Open
  <2>5. QED
      BY <2>1, <2>3, <2>4, QuietStep DEF Straight
<1>6. QED
    BY <1>4, <1>5

\* The groups of a mission boarded at one time.
LEMMA BoardedAt ==
    ASSUME FareInv, pm # Nil, Straight, pm.groups # {}
    PROVE  /\ \A g \in pm.groups : pw.bt[g] \in Nat /\ pw.bt[g] + 1 = pm.trip /\ TripOf(g) = pm.trip
           /\ Min({pw.bt[g] : g \in pm.groups}) \in Nat
           /\ Min({pw.bt[g] : g \in pm.groups}) + 1 = pm.trip
<1>1. \A g \in pm.groups : pw.bt[g] \in Nat /\ pw.bt[g] + 1 = TripOf(g) /\ TripOf(g) = pm.trip
    BY DEF FareInv, MissionTrue, GroupsTrue, ShipTrue, ShipTypes
<1>2. PICK h \in pm.groups : TRUE
    OBVIOUS
<1>3. \A g \in pm.groups : pw.bt[g] = pw.bt[h]
    BY <1>1, <1>2
<1>4. {pw.bt[g] : g \in pm.groups} = {pw.bt[h]}
    BY <1>2, <1>3
<1>5. Min({pw.bt[h]}) = pw.bt[h]
    BY <1>1, <1>2 DEF Min
<1>6. QED
    BY <1>1, <1>2, <1>4, <1>5

LEMMA ArchiveKept ==
    ASSUME NEW a, NEW had, NEW n, RowsOK(a, had, n), NEW m, m.gen \in Gen, m.gen <= n, Batch(m.unknown, m.gen, had)
    PROVE  RowsOK(ArchiveRow(a, m), had, n) /\ ArchiveRow(a, m).rec[m.gen] # Nil
<1>1. CASE a.rec[m.gen] # Nil
    BY <1>1 DEF ArchiveRow
<1>2. CASE a.rec[m.gen] = Nil
  <2> DEFINE b == ArchiveRow(a, m)
  <2>1. DOMAIN a = {"rows", "rec", "arch"} /\ DOMAIN a.rec = Gen
      BY DEF RowsOK
  <2>2. DOMAIN b = DOMAIN a /\ b.rows = a.rows /\ DOMAIN b.rec = Gen /\ b.rec[m.gen] = m.unknown
        /\ \A j \in Gen : j # m.gen => b.rec[j] = a.rec[j]
      BY <1>2, <2>1 DEF ArchiveRow
  <2> HIDE DEF b
  <2>3. \A j \in Gen : b.rec[j] # Nil => j <= n /\ Batch(b.rec[j], j, had)
      BY <2>2 DEF RowsOK
  <2>4. m.unknown # Nil
      BY PassengersNil DEF Batch
  <2>5. \A r \in b.rows, j \in Gen :
            r.id = <<"rest", j>> => b.rec[j] # Nil /\ (b.rec[j].st = "open" => r = RestRow(b.rec[j]))
      BY <1>2, <2>2 DEF RowsOK
  <2>6. RowsOK(b, had, n)
      BY <2>1, <2>2, <2>3, <2>5 DEF RowsOK
  <2>7. QED
      BY <2>2, <2>4, <2>6 DEF b
<1>3. QED
    BY <1>1, <1>2

\* The groups of an emptied hold are a batch of their voyage.
LEMMA EmptiedBatch ==
    ASSUME FareInv, pm # Nil, Straight, pm.groups # {}, Waits,
           NEW u, u = [gen |-> pm.gen, gr |-> pm.groups, cost |-> pm.cost, st |-> "open", done |-> snap.wait.at,
                       start |-> Min({pw.bt[g] : g \in pm.groups})]
    PROVE  Batch(u, pm.gen, pg.had)
<1>1. GroupsTrue /\ pm.gen \in Gen /\ pm.trip \in Nat /\ pm.cost \in Nat
    BY Fields DEF FareInv, MissionTrue
<1>2. snap.wait.at = pm.trip /\ pm.groups \subseteq Group /\ pm.groups \subseteq pg.had[pm.gen]
      /\ \A g \in pm.groups : TripOf(g) = pm.trip
    BY <1>1 DEF GroupsTrue, FareInv, ShipTypes
<1>3. Min({pw.bt[g] : g \in pm.groups}) \in Nat /\ Min({pw.bt[g] : g \in pm.groups}) + 1 = pm.trip
    BY BoardedAt
<1>4. pm.gen \in Nat
    BY <1>1, PassengersAssumption DEF Gen
<1>5. u \in Archive
    BY <1>1, <1>2, <1>3, <1>4 DEF Archive
<1>6. QED
    BY <1>2, <1>3, <1>5 DEF Batch

LEMMA CompleteStep ==
    ASSUME FareInv, Completes
    PROVE  FareInv'
<1>1. /\ pm # Nil /\ pm.act = Nil /\ Straight /\ pm.groups # {}
    BY DEF Completes, Idle, Driven, Straight
<1>2. /\ DOMAIN pm = MissionFields /\ pm.fare \in Nat /\ pm.cost \in Nat /\ pm.gen \in Gen /\ pm.gen <= pg.gen
      /\ RowsOK(acc, pg.had, pg.gen) /\ GroupsTrue
    BY <1>1, Fields, FareGens DEF FareInv, MissionTrue
<1>3. DOMAIN snap = {"hint", "wait", "latch"} /\ DOMAIN pg = {"gen", "spent", "had", "again", "faults"}
    BY DEF FareInv, BookTypes
<1>4. CASE QuarantinePassage(pm, acc) /\ UNCHANGED <<pw, evs>>
    BY <1>1, <1>2, <1>4, QuarantineStep
<1> DEFINE u == [gen |-> pm.gen, gr |-> pm.groups, cost |-> pm.cost, st |-> "open", done |-> snap.wait.at,
                 start |-> Min({pw.bt[g] : g \in pm.groups})]
           m == IF pm.unknown = Nil THEN [pm EXCEPT !.unknown = u] ELSE pm
           a == ArchiveRow(acc, m)
<1>5. CASE /\ Waits
           /\ \E i \in 1..5 :
                 /\ pg' = [pg EXCEPT !.faults = Faults(i < 5)]
                 /\ acc' = (CASE i = 1 -> acc [] i = 2 -> a [] OTHER -> RestSettled(a, m.gen))
                 /\ snap' = IF i < 4 THEN snap ELSE Released(m.gen)
                 /\ pm' = IF i < 5 THEN m ELSE Nil
                 /\ UNCHANGED <<pw, evs>>
  <2>1. Batch(u, pm.gen, pg.had)
      BY <1>1, <1>5, EmptiedBatch
  <2> HIDE DEF u
  <2>2. /\ DOMAIN m = MissionFields /\ m.fare = pm.fare /\ m.cost = pm.cost /\ m.gen = pm.gen /\ m.trip = pm.trip
        /\ m.groups = pm.groups /\ m.receipts = pm.receipts /\ m.q = pm.q /\ m.recovery = pm.recovery /\ m.act = Nil
        /\ m.unknown = IF pm.unknown = Nil THEN u ELSE pm.unknown
      BY <1>1, <1>2 DEF MissionFields
  <2>3. Batch(m.unknown, m.gen, pg.had)
      BY <1>1, <2>1, <2>2 DEF FareInv, UnknownTrue
  <2> HIDE DEF m
  <2>4. RowsOK(a, pg.had, pg.gen) /\ a.rec[m.gen] # Nil
      BY <1>2, <2>2, <2>3, ArchiveKept
  <2>5. RowsOK(RestSettled(a, m.gen), pg.had, pg.gen)
      BY <1>2, <2>2, <2>4, RestKept
  <2> HIDE DEF a
  <2>6. PICK i \in 1..5 :
            /\ pg' = [pg EXCEPT !.faults = Faults(i < 5)]
            /\ acc' = (CASE i = 1 -> acc [] i = 2 -> a [] OTHER -> RestSettled(a, m.gen))
            /\ snap' = IF i < 4 THEN snap ELSE Released(m.gen)
            /\ pm' = IF i < 5 THEN m ELSE Nil
            /\ UNCHANGED <<pw, evs>>
      BY <1>5
  <2>7. RowsOK(acc', pg.had, pg.gen)
      BY <1>2, <2>4, <2>5, <2>6
  <2>8. DOMAIN pg' = DOMAIN pg /\ pg'.gen = pg.gen /\ pg'.had = pg.had
      BY <1>3, <2>6
  <2>9. DOMAIN snap' = DOMAIN snap /\ snap'.wait \in {Nil, snap.wait}
      BY <1>3, <2>6, ReleasedWait
  <2>10. RowsTrue'
      BY <2>7, <2>8, BooksNow
  <2>11. pm' = Nil \/ pm' = m
      BY <2>6
  <2>12. RequestTrue'
      BY <1>2, <2>2, <2>11 DEF RequestTrue
  <2>13. pm' = m => /\ pm'.gen = pm.gen /\ pm'.trip = pm.trip /\ pm'.groups = pm.groups /\ pm'.receipts = pm.receipts
                    /\ Batch(pm'.unknown, pm.gen, pg.had)
      BY <2>2, <2>3
  <2>14. QED
      BY <1>1, <2>6, <2>8, <2>9, <2>10, <2>11, <2>12, <2>13, QuietStep
<1>6. QED
    BY <1>4, <1>5 DEF Completes

-----------------------------------------------------------------------------
(* Receipts *)

\* A finite set is listed without repetition.
LEMMA Listed ==
    ASSUME NEW E, IsFiniteSet(E)
    PROVE  /\ Cardinality(E) \in Nat /\ SetToSeq(E) \in [1..Cardinality(E) -> E] /\ Len(SetToSeq(E)) = Cardinality(E)
           /\ \A i, j \in 1..Cardinality(E) : SetToSeq(E)[i] = SetToSeq(E)[j] => i = j
<1> DEFINE n == Cardinality(E)
<1>1. n \in Nat /\ ExistsBijection(1..n, E)
    BY FS_CardinalityType
<1>2. PICK f \in Bijection(1..n, E) : TRUE
    BY <1>1 DEF ExistsBijection
<1>3. f \in [1..n -> E] /\ IsInjective(f)
    BY <1>2 DEF Bijection, Injection, IsInjective
<1>4. SetToSeq(E) \in [1..n -> E] /\ IsInjective(SetToSeq(E))
    BY <1>3 DEF SetToSeq
<1> HIDE DEF n
<1>5. SetToSeq(E) \in Seq(E) /\ Len(SetToSeq(E)) = n
    BY <1>1, <1>4
<1>6. DOMAIN SetToSeq(E) = 1..n
    BY <1>4
<1>7. \A i, j \in 1..n : SetToSeq(E)[i] = SetToSeq(E)[j] => i = j
    BY <1>4, <1>6 DEF IsInjective
<1>8. QED
    BY <1>1, <1>4, <1>5, <1>7 DEF n

\* What was seen of a mission's groups is of their voyage, whatever came late.
LEMMA FareOfVoyage ==
    ASSUME FareInv, pm # Nil, Straight, pm.groups # {}, NEW e \in evs, NEW t, t + 1 = pm.trip, t \in Nat,
           e.tag # Nil => e.tag \in pm.groups,
           e.tag = Nil => PassengerTerminalAt(e) # Nil /\ PassengerTerminalAt(e) > t
    PROVE  \E g \in e.gs, h \in pg.had[pm.gen] : TripOf(g) = TripOf(h)
<1>1. Event(e) /\ GroupsTrue /\ pm.trip \in Nat /\ ShipTrue /\ ShipTypes
    BY DEF FareInv, EventsTrue, MissionTrue
<1>2. CASE e.tag # Nil
    BY <1>1, <1>2 DEF Event, GroupsTrue
<1>3. CASE e.tag = Nil
  <2>1. e.at # Nil /\ e.at > t
      BY <1>3 DEF PassengerTerminalAt
  <2>2. PICK g \in e.gs : e.at = TripOf(g) /\ g \in Coming /\ pw.grp[g] # "waiting"
      BY <1>1, <2>1 DEF Event
  <2>3. TripOf(g) <= pm.trip
      BY <1>1, <2>2 DEF GroupsTrue, AtHome, Away, ShipTrue, ShipTypes, TripOf
  <2>4. TripOf(g) = pm.trip
      BY <1>1, <2>1, <2>2, <2>3 DEF TripOf
  <2>5. QED
      BY <1>1, <2>2, <2>4 DEF GroupsTrue
<1>4. QED
    BY <1>2, <1>3

LEMMA PreparedReceipts ==
    ASSUME FareInv, pm # Nil, NEW E \in SUBSET evs, NEW up,
           \A e \in E : \E g \in e.gs, h \in pg.had[pm.gen] : TripOf(g) = TripOf(h),
           NEW rs, rs = Receipts(E, up)
    PROVE  /\ rs \in Seq(Range(rs))
           /\ \A i \in DOMAIN rs : /\ rs[i].gen = pm.gen /\ FaresOf(rs[i], pg.had)
                                   /\ \A k \in Gen : rs[i].id # <<"rest", k>>
           /\ \A i, j \in DOMAIN rs : i # j => rs[i].ev \cap rs[j].ev = {}
<1> DEFINE s == SetToSeq(E)
           n == Cardinality(E)
<1>1. IsFiniteSet(E)
    BY FS_Subset DEF FareInv, EventsTrue
<1>2. n \in Nat /\ s \in [1..n -> E] /\ Len(s) = n /\ \A i, j \in 1..n : s[i] = s[j] => i = j
    BY <1>1, Listed
<1> HIDE DEF s, n
<1>3. /\ DOMAIN rs = 1..n
      /\ \A i \in 1..n : /\ rs[i].id = <<"fare", s[i].gs, s[i].n>> /\ rs[i].gen = pm.gen
                         /\ rs[i].ev = {<<s[i].gs, s[i].n>>}
    BY <1>2 DEF Receipts, s
<1>4. rs = [i \in 1..n |-> rs[i]]
    BY <1>2 DEF Receipts, s
<1>5. rs \in Seq(Range(rs))
  <2>1. \A i \in 1..n : rs[i] \in Range(rs)
      BY <1>3 DEF Range
  <2>2. rs \in [1..n -> Range(rs)]
      BY <1>4, <2>1
  <2>3. QED
      BY <1>2, <2>2
<1>6. ASSUME NEW i \in 1..n
      PROVE  rs[i].gen = pm.gen /\ FaresOf(rs[i], pg.had) /\ \A k \in Gen : rs[i].id # <<"rest", k>>
  <2>1. s[i] \in E
      BY <1>2
  <2>2. PICK g \in s[i].gs, h \in pg.had[pm.gen] : TripOf(g) = TripOf(h)
      BY <2>1
  <2>3. FaresOf(rs[i], pg.had)
    <3>1. \A x \in rs[i].ev : x[1] = s[i].gs
        BY <1>3
    <3>2. QED
        BY <1>3, <2>2, <3>1 DEF FaresOf
  <2>4. \A k \in Gen : rs[i].id # <<"rest", k>>
      BY <1>3, <<"fare", s[i].gs, s[i].n>>[1] = "fare" /\ \A k \in Gen : <<"rest", k>>[1] = "rest"
  <2>5. QED
      BY <1>3, <2>3, <2>4
<1>7. ASSUME NEW i \in 1..n, NEW j \in 1..n, i # j PROVE rs[i].ev \cap rs[j].ev = {}
  <2>1. s[i] \in evs /\ s[j] \in evs /\ s[i] # s[j]
      BY <1>2, <1>7
  <2>2. ~(s[i].gs = s[j].gs /\ s[i].n = s[j].n)
      BY <2>1 DEF FareInv, EventsTrue
  <2>3. <<s[i].gs, s[i].n>> # <<s[j].gs, s[j].n>>
      BY <2>2
  <2>4. QED
      BY <1>3, <2>3
<1>8. QED
    BY <1>3, <1>5, <1>6, <1>7

LEMMA PrepareStep ==
    ASSUME FareInv, pm # Nil, pm.act = Nil, ~pm.q, NEW E \in SUBSET evs, NEW up, Prepare(E, up),
           Straight => \A e \in E : \E g \in e.gs, h \in pg.had[pm.gen] : TripOf(g) = TripOf(h)
    PROVE  FareInv'
<1>1. DOMAIN pm = MissionFields /\ pm.fare \in Nat /\ pm.cost \in Nat
    BY Fields
<1> DEFINE m == [pm EXCEPT !.receipts = Receipts(E, up)]
<1>2. /\ DOMAIN m = MissionFields /\ m.fare = pm.fare /\ m.cost = pm.cost /\ m.gen = pm.gen /\ m.trip = pm.trip
      /\ m.groups = pm.groups /\ m.receipts = Receipts(E, up) /\ m.unknown = pm.unknown /\ m.q = pm.q
      /\ m.recovery = pm.recovery /\ m.act = Nil
    BY <1>1 DEF MissionFields
<1>3. pm' = m /\ UNCHANGED <<pw, evs, acc, snap, pg>>
    BY DEF Prepare
<1> HIDE DEF m
<1>4. Asks(m, Straight) /\ Steady
    BY <1>2, <1>3 DEF Asks, Steady
<1>5. CASE pm.recovery
    BY <1>1, <1>2, <1>3, <1>4, <1>5, SteerStep DEF Straight, Asks
<1>6. CASE ~pm.recovery
  <2>1. Straight
      BY <1>6 DEF Straight
  <2>2. /\ m.receipts \in Seq(Range(m.receipts))
        /\ \A i \in DOMAIN m.receipts : /\ m.receipts[i].gen = pm.gen /\ FaresOf(m.receipts[i], pg.had)
                                        /\ \A k \in Gen : m.receipts[i].id # <<"rest", k>>
        /\ \A i, j \in DOMAIN m.receipts : i # j => m.receipts[i].ev \cap m.receipts[j].ev = {}
      BY <1>2, <2>1, PreparedReceipts
  <2>3. ReceiptsTrue'
      BY <1>2, <1>3, <2>2 DEF ReceiptsTrue
  <2>4. GroupsTrue'
      BY <1>2, <1>3, <2>1 DEF FareInv, MissionTrue, GroupsTrue, AtHome, Away, Open, Coming, Waits
  <2>5. MissionTrue'
      BY <1>2, <1>3, <2>3, <2>4 DEF FareInv, MissionTrue
  <2>6. RequestTrue'
      BY <1>1, <1>2, <1>3 DEF RequestTrue
  <2>7. UnknownTrue'
      BY <1>2, <1>3, <2>1 DEF FareInv, UnknownTrue
  <2>8. ShipTypes' /\ ShipTrue' /\ EventsTrue' /\ RowsTrue' /\ BookTypes'
      BY <1>3 DEF FareInv, ShipTypes, ShipTrue, EventsTrue, Event, Open, Coming, TripOf, RowsTrue, BookTypes
  <2>9. QED
      BY <2>5, <2>6, <2>7, <2>8 DEF FareInv
<1>7. QED
    BY <1>5, <1>6

LEMMA ReceiptStep ==
    ASSUME FareInv, SyncReceipts
    PROVE  FareInv'
<1> DEFINE gs == pm.groups
           terminal(g) == TerminalOf(gs, pm.start, g)
           batch == BatchTerminal(gs, pm.start)
<1>1. pm # Nil /\ pm.act = Nil /\ ~pm.q /\ pm.groups # {}
    BY DEF SyncReceipts, Driven
<1>2. RowsOK(acc, pg.had, pg.gen)
    BY <1>1, FareGens
<1>3. CASE QuarantinePassage(pm, acc) /\ UNCHANGED <<pw, evs>>
    BY <1>1, <1>2, <1>3, QuarantineStep
<1>4. CASE Prepare(UNION {terminal(g) : g \in gs}, TRUE)
  <2> DEFINE E == UNION {terminal(g) : g \in gs}
  <2>1. E \in SUBSET evs
      BY DEF TerminalOf, Known
  <2>2. ASSUME Straight, NEW e \in E PROVE \E g \in e.gs, h \in pg.had[pm.gen] : TripOf(g) = TripOf(h)
    <3>1. PICK g \in gs : e \in terminal(g)
        OBVIOUS
    <3>2. Fits(e, g) /\ e \in evs /\ PassengerTerminalAt(e) # Nil
        BY <3>1 DEF TerminalOf, Known
    <3>3. pw.bt[g] \in Nat /\ pw.bt[g] + 1 = pm.trip
        BY <1>1, <2>2, BoardedAt
    <3>4. e.tag # Nil => e.tag \in pm.groups
        BY <3>2 DEF Fits
    <3>5. e.tag = Nil => PassengerTerminalAt(e) # Nil /\ PassengerTerminalAt(e) > pw.bt[g]
        BY <3>2 DEF Fits
    <3>6. QED
        BY <1>1, <2>2, <3>2, <3>3, <3>4, <3>5, FareOfVoyage
  <2> HIDE DEF E
  <2>3. Prepare(E, TRUE)
      BY <1>4 DEF E
  <2>4. QED
      BY <1>1, <2>1, <2>2, <2>3, PrepareStep
<1>5. CASE Prepare(batch, FALSE)
  <2>1. batch \in SUBSET evs
      BY DEF BatchTerminal, Known
  <2>2. ASSUME Straight, NEW e \in batch PROVE \E g \in e.gs, h \in pg.had[pm.gen] : TripOf(g) = TripOf(h)
    <3> DEFINE t == Min({pw.bt[g] : g \in pm.groups})
    <3>1. t \in Nat /\ t + 1 = pm.trip
        BY <1>1, <2>2, BoardedAt
    <3>2. /\ e \in evs /\ PassengerTerminalAt(e) # Nil /\ (e.tag # Nil => e.tag \in pm.groups)
          /\ (e.tag = Nil => PassengerTerminalAt(e) > t)
        BY DEF BatchTerminal, Known
    <3> HIDE DEF t
    <3>3. QED
        BY <1>1, <2>2, <3>1, <3>2, FareOfVoyage
  <2> HIDE DEF batch
  <2>3. QED
      BY <1>1, <1>5, <2>1, <2>2, PrepareStep
<1>6. QED
    BY <1>3, <1>4, <1>5 DEF SyncReceipts

\* Receipts that nothing else took join the books.
LEMMA PutKept ==
    ASSUME FareInv, pm # Nil, Straight, NEW J \in SUBSET DOMAIN pm.receipts, NEW b, NEW R,
           \A r \in R : \E j \in J : r = pm.receipts[j],
           \A j \in J : ~Taken(acc, pm.receipts[j]),
           b = [acc EXCEPT !.rows = @ \cup R]
    PROVE  RowsOK(b, pg.had, pg.gen)
<1>1. ReceiptsTrue /\ RowsOK(acc, pg.had, pg.gen) /\ pm.gen \in Gen /\ pm.gen <= pg.gen
    BY DEF FareInv, MissionTrue, RowsTrue
<1>2. DOMAIN acc = {"rows", "rec", "arch"}
    BY <1>1 DEF RowsOK
<1>3. DOMAIN b = DOMAIN acc /\ b.rec = acc.rec /\ b.rows = acc.rows \cup R
    BY <1>2
<1>4. ASSUME NEW r \in R
      PROVE  r.gen = pm.gen /\ FaresOf(r, pg.had) /\ \A k \in Gen : r.id # <<"rest", k>>
    BY <1>1 DEF ReceiptsTrue
<1>5. \A r, x \in R : r.ev \cap x.ev # {} => r = x
    BY <1>1 DEF ReceiptsTrue
<1>6. \A r \in R, x \in acc.rows : r.ev \cap x.ev # {} => r = x
    BY DEF Taken
<1>7. \A r, x \in b.rows : r.ev \cap x.ev # {} => r = x
    BY <1>1, <1>3, <1>5, <1>6 DEF RowsOK
<1>8. \A r \in b.rows : r.gen \in Gen /\ r.gen <= pg.gen /\ FaresOf(r, pg.had)
    BY <1>1, <1>3, <1>4 DEF RowsOK
<1>9. \A r \in b.rows, k \in Gen :
          r.id = <<"rest", k>> => b.rec[k] # Nil /\ (b.rec[k].st = "open" => r = RestRow(b.rec[k]))
    BY <1>1, <1>3, <1>4 DEF RowsOK
<1>10. QED
    BY <1>1, <1>3, <1>7, <1>8, <1>9 DEF RowsOK

LEMMA PutStep ==
    ASSUME FareInv, PutReceipts
    PROVE  FareInv'
<1> DEFINE n == Len(pm.receipts)
           bad == {i \in 1..n : Taken(acc, pm.receipts[i])}
           put(i) == [acc EXCEPT !.rows = @ \cup {pm.receipts[j] : j \in 1..i}]
<1>1. pm # Nil /\ pm.act = Nil /\ Straight
    BY DEF PutReceipts, Idle, Driven, Straight
<1>2. pm.receipts \in Seq(Range(pm.receipts))
    BY <1>1 DEF FareInv, MissionTrue, ReceiptsTrue
<1>3. n \in Nat /\ DOMAIN pm.receipts = 1..n
    BY <1>2
<1>4. ASSUME NEW i, 1..i \subseteq 1..n, \A j \in 1..i : j \notin bad
      PROVE  RowsOK(put(i), pg.had, pg.gen)
  <2> DEFINE J == 1..i
             R == {pm.receipts[j] : j \in 1..i}
  <2>1. J \in SUBSET DOMAIN pm.receipts /\ \A r \in R : \E j \in J : r = pm.receipts[j]
      BY <1>3, <1>4
  <2>2. \A j \in J : ~Taken(acc, pm.receipts[j])
      BY <1>4
  <2>3. put(i) = [acc EXCEPT !.rows = @ \cup R]
      OBVIOUS
  <2> HIDE DEF J, R, put
  <2>4. QED
      BY <1>1, <2>1, <2>2, <2>3, PutKept
<1>5. CASE bad # {}
  <2>1. bad \in SUBSET Nat /\ bad \subseteq 1..n
      BY <1>3
  <2> HIDE DEF bad
  <2>2. Min(bad) \in bad /\ \A j \in bad : Min(bad) <= j
    <3>1. \E j \in bad : \A l \in bad : j <= l
        BY <1>5, <2>1, LeastNumber
    <3>2. QED
        BY <3>1 DEF Min
  <2> DEFINE i == Min(bad) - 1
  <2>3. 1..i \subseteq 1..n /\ \A j \in 1..i : j \notin bad
    <3>1. PICK l : l = Min(bad)
        OBVIOUS
    <3>2. l \in 1..n /\ \A j \in bad : l <= j
        BY <2>1, <2>2, <3>1
    <3>3. 1..(l - 1) \subseteq 1..n /\ \A j \in 1..(l - 1) : j \notin bad
        BY <1>3, <3>2
    <3>4. QED
        BY <3>1, <3>3
  <2>4. RowsOK(put(i), pg.had, pg.gen)
      BY <1>4, <2>3
  <2>5. QuarantinePassage(pm, put(i)) /\ UNCHANGED <<pw, evs>>
      BY <1>5 DEF PutReceipts, bad
  <2> HIDE DEF i, put
  <2>6. QED
      BY <1>1, <2>4, <2>5, QuarantineStep
<1>6. CASE bad = {}
  <2>1. PICK i \in 0..n, faulty \in BOOLEAN :
            /\ pg' = [pg EXCEPT !.faults = Faults(faulty)]
            /\ acc' = put(i)
            /\ pm' = IF faulty THEN pm ELSE Nil
            /\ snap' = IF i = n THEN [snap EXCEPT !.hint = FALSE] ELSE snap
            /\ UNCHANGED <<pw, evs>>
      BY <1>6 DEF PutReceipts
  <2>2. RowsOK(acc', pg.had, pg.gen)
      BY <1>3, <1>4, <1>6, <2>1
  <2>3. DOMAIN snap = {"hint", "wait", "latch"} /\ DOMAIN pg = {"gen", "spent", "had", "again", "faults"}
      BY DEF FareInv, BookTypes
  <2>4. /\ DOMAIN snap' = DOMAIN snap /\ snap'.wait = snap.wait
        /\ DOMAIN pg' = DOMAIN pg /\ pg'.gen = pg.gen /\ pg'.had = pg.had
      BY <2>1, <2>3
  <2>5. RowsTrue' /\ RequestTrue' /\ pm' \in {Nil, pm}
      BY <2>1, <2>2, <2>4, BooksNow DEF FareInv, RequestTrue, Straight, Open
  <2>6. QED
      BY <2>1, <2>4, <2>5, QuietStep DEF Straight
<1>7. QED
    BY <1>5, <1>6

-----------------------------------------------------------------------------
(* The server *)

\* The server does what no settlement sees: a group that boarded stays so.
LEMMA WorldStep ==
    ASSUME FareInv, UNCHANGED <<acc, snap>>, DOMAIN pg' = DOMAIN pg, pg'.gen = pg.gen, pg'.had = pg.had,
           \/ pm' = Nil
           \/ /\ pm # Nil /\ pm'.gen = pm.gen /\ pm'.trip = pm.trip /\ pm'.groups = pm.groups
              /\ pm'.receipts = pm.receipts /\ pm'.unknown = pm.unknown /\ (Straight' => Straight),
           ShipTypes', ShipTrue', EventsTrue', RequestTrue', Coming' = Coming,
           \A g \in Coming : pw.grp[g] # "waiting" => pw'.grp[g] # "waiting",
           Straight' => (AtHome \/ Away)'
    PROVE  FareInv'
<1>1. BookTypes' /\ RowsTrue' /\ UnknownTrue'
    BY DEF FareInv, BookTypes, RowsTrue, UnknownTrue, Straight
<1>2. MissionTrue'
  <2>1. SUFFICES ASSUME pm' # Nil PROVE MissionTrue'
      BY DEF MissionTrue
  <2>2. pm'.gen \in Gen /\ pm'.gen <= pg'.gen /\ pm'.trip \in Nat
      BY <2>1 DEF FareInv, MissionTrue
  <2>3. ASSUME Straight' PROVE GroupsTrue'
    <3>1. GroupsTrue
        BY <2>1, <2>3 DEF FareInv, MissionTrue, Straight
    <3>2. \A g \in pm'.groups : g \in Coming' /\ pw'.grp[g] # "waiting" /\ TripOf(g) = pm'.trip
        BY <2>1, <3>1 DEF GroupsTrue
    <3>3. Waits' => snap'.wait.at = pm'.trip /\ pm'.groups # {}
        BY <2>1, <3>1 DEF GroupsTrue, Waits
    <3>4. pm'.groups \subseteq pg'.had[pm'.gen]
        BY <2>1, <3>1 DEF GroupsTrue
    <3>5. QED
        BY <2>3, <3>2, <3>3, <3>4 DEF GroupsTrue
  <2>4. ASSUME Straight' PROVE ReceiptsTrue'
      BY <2>1, <2>4 DEF FareInv, MissionTrue, Straight, ReceiptsTrue
  <2>5. QED
      BY <2>2, <2>3, <2>4 DEF MissionTrue
<1>3. QED
    BY <1>1, <1>2 DEF FareInv

LEMMA OfferTypes ==
    ASSUME ShipTypes
    PROVE  Len(pw.offers) \in Nat /\ DOMAIN pw.offers = 1..Len(pw.offers) /\ \A i \in DOMAIN pw.offers : pw.offers[i] \in Offers
BY DEF ShipTypes

LEMMA MissionPlace ==
    ASSUME FareInv, pm # Nil
    PROVE  pm.trip \in Nat /\ (Straight => AtHome \/ Away)
BY DEF FareInv, MissionTrue, GroupsTrue

LEMMA BoardsStep ==
    ASSUME FareInv, NEW g \in Coming, Boards(g)
    PROVE  FareInv'
<1>1. /\ pw.ship = "port" /\ g \in Waiting /\ Open # {} /\ pw' = [pw EXCEPT !.grp[g] = "aboard", !.bt[g] = pw.now]
      /\ UNCHANGED <<evs, pm, acc, snap, pg>>
    BY DEF Boards
<1>2. ShipTypes /\ ShipTrue /\ EventsTrue
    BY DEF FareInv
<1>3. /\ DOMAIN pw' = DOMAIN pw /\ pw'.ship = pw.ship /\ pw'.port = pw.port /\ pw'.now = pw.now /\ pw'.offers = pw.offers
      /\ pw'.grp = [pw.grp EXCEPT ![g] = "aboard"] /\ pw'.bt = [pw.bt EXCEPT ![g] = pw.now]
    BY <1>1, <1>2 DEF ShipTypes
<1>4. Coming' = Coming /\ Open' = Open
    BY <1>3 DEF Coming, Open
<1>5. ShipTypes'
    BY <1>2, <1>3, <1>4 DEF ShipTypes
<1>6. TripOf(g) = pw.port /\ pw.grp[g] = "waiting" /\ pw.now + 1 = pw.port
    BY <1>1, <1>2 DEF Waiting, ShipTrue
<1>7. \A h \in Coming : h # g => pw'.grp[h] = pw.grp[h] /\ pw'.bt[h] = pw.bt[h]
    BY <1>2, <1>3 DEF ShipTypes
<1>8. pw'.grp[g] = "aboard" /\ pw'.bt[g] = pw.now
    BY <1>2, <1>3 DEF ShipTypes
<1>9. ShipTrue'
  <2>1. \A h \in Coming : /\ pw'.grp[h] = "aboard" => TripOf(h) = pw.port
                          /\ pw'.grp[h] # "waiting" => TripOf(h) <= pw.port /\ pw'.bt[h] + 1 = TripOf(h)
      BY <1>2, <1>6, <1>7, <1>8 DEF ShipTrue, ShipTypes
  <2>2. QED
      BY <1>1, <1>3, <1>4, <1>6, <2>1 DEF ShipTrue
<1>10. EventsTrue'
  <2>1. \A e \in evs : Event(e)'
      BY <1>1, <1>2, <1>4, <1>6, <1>7 DEF EventsTrue, Event, TripOf
  <2>2. QED
      BY <1>1, <1>2, <2>1 DEF EventsTrue
<1>11. RequestTrue'
    BY <1>1, <1>4 DEF FareInv, RequestTrue, Straight
<1>12. Straight' => (AtHome \/ Away)'
    BY <1>1, <1>3, MissionPlace DEF Straight, AtHome, Away
<1>13. QED
    BY <1>1, <1>4, <1>5, <1>7, <1>8, <1>9, <1>10, <1>11, <1>12, WorldStep DEF Straight

\* The offers change and no open one appears while a departure is asked for.
LEMMA OffersStep ==
    ASSUME FareInv, UNCHANGED <<acc, snap, evs>>, DOMAIN pg' = DOMAIN pg, pg'.gen = pg.gen, pg'.had = pg.had,
           \/ pm' = Nil
           \/ /\ pm # Nil /\ pm'.gen = pm.gen /\ pm'.trip = pm.trip /\ pm'.groups = pm.groups
              /\ pm'.receipts = pm.receipts /\ pm'.unknown = pm.unknown /\ (Straight' => Straight),
           DOMAIN pw' = DOMAIN pw, UNCHANGED <<pw.ship, pw.port, pw.now, pw.grp, pw.bt>>,
           pw'.offers \in Seq(Offers), RequestTrue',
           \/ Open' \subseteq Open
           \/ pw.ship = "port" /\ (Straight' => pm'.groups = {})
    PROVE  FareInv'
<1>1. ShipTypes /\ ShipTrue /\ EventsTrue /\ Coming' = Coming
    BY DEF FareInv, Coming
<1>2. ShipTypes'
    BY <1>1 DEF ShipTypes
<1>3. ShipTrue'
    BY <1>1 DEF ShipTrue
<1>4. EventsTrue'
  <2>1. \A e \in evs : Event(e)'
      BY <1>1 DEF EventsTrue, Event, TripOf
  <2>2. QED
      BY <1>1, <2>1 DEF EventsTrue
<1>5. Straight' => (AtHome \/ Away)'
    BY <1>1, MissionPlace DEF Straight, AtHome, Away
<1>6. QED
    BY <1>1, <1>2, <1>3, <1>4, <1>5, WorldStep

\* An offer closes, or one is made.
LEMMA ClosedOffer ==
    ASSUME FareInv, NEW i, NEW w, w = [pw EXCEPT !.offers[i].open = FALSE]
    PROVE  /\ DOMAIN w = DOMAIN pw /\ w.ship = pw.ship /\ w.port = pw.port /\ w.now = pw.now /\ w.grp = pw.grp /\ w.bt = pw.bt
           /\ w.offers \in Seq(Offers) /\ {j \in DOMAIN w.offers : w.offers[j].open} \subseteq Open
<1>1. DOMAIN pw = {"ship", "port", "now", "offers", "style", "other", "grp", "bt"} /\ pw.offers \in Seq(Offers)
    BY DEF FareInv, ShipTypes
<1> DEFINE o == [pw.offers EXCEPT ![i].open = FALSE]
<1>2. /\ DOMAIN w = DOMAIN pw /\ w.ship = pw.ship /\ w.port = pw.port /\ w.now = pw.now /\ w.grp = pw.grp /\ w.bt = pw.bt
      /\ w.offers = o
    BY <1>1
<1>3. DOMAIN o = DOMAIN pw.offers
    OBVIOUS
<1>4. ASSUME NEW j \in DOMAIN pw.offers PROVE o[j] \in Offers /\ (o[j].open => pw.offers[j].open)
  <2>1. pw.offers[j] \in Offers
      BY <1>1
  <2>2. o[j] = IF j = i THEN [pw.offers[j] EXCEPT !.open = FALSE] ELSE pw.offers[j]
      OBVIOUS
  <2>3. [pw.offers[j] EXCEPT !.open = FALSE] \in Offers /\ ~[pw.offers[j] EXCEPT !.open = FALSE].open
      BY <2>1 DEF Offers
  <2>4. QED
      BY <2>1, <2>2, <2>3
<1>5. o \in Seq(Offers)
  <2>1. PICK n \in Nat : pw.offers \in [1..n -> Offers]
      BY <1>1
  <2>2. o = [j \in 1..n |-> o[j]]
      BY <2>1, <1>3
  <2>3. \A j \in 1..n : o[j] \in Offers
      BY <2>1, <1>4
  <2> HIDE DEF o
  <2>4. o \in [1..n -> Offers]
      BY <2>2, <2>3
  <2>5. QED
      BY <2>4
<1> HIDE DEF o
<1>6. {j \in DOMAIN o : o[j].open} \subseteq Open
    BY <1>3, <1>4 DEF Open
<1>7. QED
    BY <1>2, <1>5, <1>6

LEMMA MadeOffer ==
    ASSUME FareInv, NEW f \in Nat
    PROVE  Append(pw.offers, [open |-> TRUE, fare |-> f]) \in Seq(Offers)
<1>1. pw.offers \in Seq(Offers)
    BY DEF FareInv, ShipTypes
<1>2. [open |-> TRUE, fare |-> f] \in Offers
    BY DEF Offers
<1>3. QED
    BY <1>1, <1>2

LEMMA OfferSteps ==
    ASSUME FareInv, OfferCloses \/ OtherOffer
    PROVE  FareInv'
<1>1. CASE OfferCloses
  <2>1. PICK i \in Open : pw' = [pw EXCEPT !.offers[i].open = FALSE]
      BY <1>1 DEF OfferCloses
  <2>2. UNCHANGED <<evs, pm, acc, snap, pg>>
      BY <1>1 DEF OfferCloses
  <2>3. /\ DOMAIN pw' = DOMAIN pw /\ pw'.ship = pw.ship /\ pw'.port = pw.port /\ pw'.now = pw.now /\ pw'.grp = pw.grp
        /\ pw'.bt = pw.bt /\ pw'.offers \in Seq(Offers) /\ Open' \subseteq Open
    <3>1. PICK w : w = pw'
        OBVIOUS
    <3>2. Open' = {j \in DOMAIN w.offers : w.offers[j].open}
        BY <3>1 DEF Open
    <3>3. QED
        BY <2>1, <3>1, <3>2, ClosedOffer
  <2>4. RequestTrue'
      BY <2>2, <2>3 DEF FareInv, RequestTrue, Straight
  <2>5. QED
      BY <2>2, <2>3, <2>4, OffersStep DEF Straight
<1>2. CASE OtherOffer
  <2>1. /\ pw.ship = "port" /\ (pm # Nil => pm.groups = {}) /\ UNCHANGED <<evs, pm, acc, snap, pg>>
        /\ pw' = [pw EXCEPT !.offers = Append(@, [open |-> TRUE, fare |-> 2]), !.other = TRUE]
      BY <1>2 DEF OtherOffer
  <2>2. /\ DOMAIN pw' = DOMAIN pw /\ pw'.ship = pw.ship /\ pw'.port = pw.port /\ pw'.now = pw.now /\ pw'.grp = pw.grp
        /\ pw'.bt = pw.bt /\ pw'.offers \in Seq(Offers)
    <3>1. Append(pw.offers, [open |-> TRUE, fare |-> 2]) \in Seq(Offers)
        BY MadeOffer
    <3>2. DOMAIN pw = {"ship", "port", "now", "offers", "style", "other", "grp", "bt"}
        BY DEF FareInv, ShipTypes
    <3>3. QED
        BY <2>1, <3>1, <3>2
  <2>3. RequestTrue'
      BY <2>1, <2>2 DEF FareInv, RequestTrue, Straight
  <2>4. QED
      BY <2>1, <2>2, <2>3, OffersStep DEF Straight
<1>3. QED
    BY <1>1, <1>2

\* A request that was carried out keeps its mission as it is.
LEMMA ActsStep ==
    ASSUME FareInv, ServerActs
    PROVE  FareInv'
<1>1. pm # Nil /\ pm.act # Nil /\ ~pm.act.done /\ UNCHANGED <<evs, acc, snap>>
    BY DEF ServerActs, Pending
<1>2. DOMAIN pm = MissionFields /\ pm.fare \in Nat /\ pm.cost \in Nat
    BY <1>1, Fields
<1>3. /\ DOMAIN pm.act = {"stage", "arg", "fare", "base", "st", "done"}
      /\ pm.act.stage \in {"offer", "cancel", "depart"} /\ pm.act.fare \in Nat /\ Asks(pm, Straight)
    BY <1>1, RequestFields
<1>4. PICK st, f : pm' = [pm EXCEPT !.act.done = TRUE, !.act.st = st] /\ pg' = [pg EXCEPT !.faults = f]
    BY DEF ServerActs
<1>5. DOMAIN pg' = DOMAIN pg /\ pg'.gen = pg.gen /\ pg'.had = pg.had
    BY <1>4 DEF FareInv, BookTypes
<1> DEFINE m == [pm EXCEPT !.act.done = TRUE, !.act.st = st]
<1>6. /\ DOMAIN m = MissionFields /\ m.fare = pm.fare /\ m.cost = pm.cost /\ m.gen = pm.gen /\ m.trip = pm.trip
      /\ m.groups = pm.groups /\ m.receipts = pm.receipts /\ m.unknown = pm.unknown /\ m.q = pm.q
      /\ m.recovery = pm.recovery
    BY <1>2 DEF MissionFields
<1>7. DOMAIN m.act = DOMAIN pm.act /\ m.act.stage = pm.act.stage /\ m.act.fare = pm.act.fare /\ m.act.done
    BY <1>2, <1>3 DEF MissionFields
<1>8. pm' = m
    BY <1>4
<1> HIDE DEF m
<1>9. (pm' # Nil /\ (Straight' <=> Straight)) \/ pm' = Nil
    BY <1>1, <1>6, <1>8 DEF Straight
<1>10. RequestTrue'
  <2>1. /\ DOMAIN pm' = MissionFields /\ pm'.fare \in Nat /\ pm'.cost \in Nat
        /\ DOMAIN pm'.act = {"stage", "arg", "fare", "base", "st", "done"}
        /\ pm'.act.stage \in {"offer", "cancel", "depart"} /\ pm'.act.fare \in Nat /\ pm'.act.done
      BY <1>2, <1>3, <1>6, <1>7, <1>8
  <2>2. pm' # Nil /\ pm'.act.stage = "offer" /\ Straight' => pm'.groups = {}
      BY <1>1, <1>3, <1>6, <1>7, <1>8, <1>9 DEF Asks
  <2>3. pm'.act.stage = "depart" => pm'.groups # {}
      BY <1>1, <1>3, <1>6, <1>7, <1>8 DEF Asks
  <2>4. QED
      BY <2>1, <2>2, <2>3 DEF RequestTrue
<1>11. ShipTypes /\ ShipTrue /\ EventsTrue
    BY DEF FareInv
<1>12. DOMAIN pw = {"ship", "port", "now", "offers", "style", "other", "grp", "bt"}
    BY <1>11 DEF ShipTypes
<1>13. CASE pm.act.stage = "offer"
  <2>1. pw.ship = "port" /\ pw' = [pw EXCEPT !.offers = Append(@, [open |-> TRUE, fare |-> pm.act.fare])]
      BY <1>13 DEF ServerActs, Effect
  <2>2. Append(pw.offers, [open |-> TRUE, fare |-> pm.act.fare]) \in Seq(Offers)
      BY <1>3, MadeOffer
  <2>3. /\ DOMAIN pw' = DOMAIN pw /\ UNCHANGED <<pw.ship, pw.port, pw.now, pw.grp, pw.bt>> /\ pw'.offers \in Seq(Offers)
      BY <1>12, <2>1, <2>2
  <2>4. Straight' => pm'.groups = {}
      BY <1>1, <1>3, <1>6, <1>8, <1>9, <1>13 DEF Asks, Straight
  <2>5. QED
      BY <1>1, <1>5, <1>6, <1>8, <1>9, <1>10, <2>1, <2>3, <2>4, OffersStep
<1>14. CASE pm.act.stage = "cancel"
  <2>1. pw' = [pw EXCEPT !.offers[pm.act.arg].open = FALSE]
      BY <1>14 DEF ServerActs, Effect
  <2>2. /\ DOMAIN pw' = DOMAIN pw /\ pw'.ship = pw.ship /\ pw'.port = pw.port /\ pw'.now = pw.now /\ pw'.grp = pw.grp
        /\ pw'.bt = pw.bt /\ pw'.offers \in Seq(Offers) /\ Open' \subseteq Open
    <3>1. PICK w : w = pw'
        OBVIOUS
    <3>2. Open' = {j \in DOMAIN w.offers : w.offers[j].open}
        BY <3>1 DEF Open
    <3>3. QED
        BY <2>1, <3>1, <3>2, ClosedOffer
  <2>3. QED
      BY <1>1, <1>5, <1>6, <1>8, <1>9, <1>10, <2>2, OffersStep
<1>15. CASE pm.act.stage = "depart"
  <2>1. pw' = [pw EXCEPT !.ship = "sea"]
      BY <1>15 DEF ServerActs, Effect
  <2>2. /\ DOMAIN pw' = DOMAIN pw /\ pw'.ship = "sea" /\ pw'.port = pw.port /\ pw'.now = pw.now
        /\ pw'.offers = pw.offers /\ pw'.grp = pw.grp /\ pw'.bt = pw.bt
      BY <1>12, <2>1
  <2>3. Open = {} /\ pw.ship = "port" /\ pm.groups # {} /\ (Straight => pw.port = pm.trip)
      BY <1>1, <1>3, <1>15 DEF Asks
  <2>4. Coming' = Coming /\ Open' = Open
      BY <2>2 DEF Coming, Open
  <2>5. ShipTypes'
      BY <1>11, <2>2, <2>4 DEF ShipTypes
  <2>6. ShipTrue'
      BY <1>11, <2>2, <2>3, <2>4 DEF ShipTrue
  <2>7. EventsTrue'
    <3>1. \A e \in evs : Event(e)'
        BY <1>11, <2>2, <2>4 DEF EventsTrue, Event, TripOf
    <3>2. QED
        BY <1>1, <1>11, <3>1 DEF EventsTrue
  <2>8. Straight' => (AtHome \/ Away)'
    <3>1. SUFFICES ASSUME Straight' PROVE Away'
        OBVIOUS
    <3>2. pw.port = pm.trip /\ pm'.trip = pm.trip /\ pm'.groups = pm.groups
        BY <1>1, <1>6, <1>8, <1>9, <2>3, <3>1 DEF Straight
    <3>3. \A g \in Coming : TripOf(g) > pm.trip => pw.grp[g] = "waiting"
        BY <1>11, <3>2 DEF ShipTrue, ShipTypes, TripOf
    <3>4. QED
        BY <2>2, <2>3, <2>4, <3>2, <3>3 DEF Away
  <2>9. QED
      BY <1>1, <1>5, <1>6, <1>8, <1>9, <1>10, <2>2, <2>4, <2>5, <2>6, <2>7, <2>8, WorldStep
<1>16. QED
    BY <1>3, <1>13, <1>14, <1>15

\* The events of a set of groups that end now join those that are known.
LEMMA EventsGrow ==
    ASSUME FareInv, NEW new, evs' = evs \cup new, IsFiniteSet(new), Coming' = Coming,
           \A g \in Coming : pw.grp[g] \notin {"waiting", "aboard"} => pw'.grp[g] \notin {"waiting", "aboard"},
           \A e \in new : Event(e)' /\ \A f \in evs : ~(f.gs = e.gs /\ f.n = e.n),
           \A e, f \in new : e.gs = f.gs /\ e.n = f.n => e = f
    PROVE  EventsTrue'
<1>1. EventsTrue
    BY DEF FareInv
<1>2. IsFiniteSet(evs')
    BY <1>1, FS_Union DEF EventsTrue
<1>3. \A e \in evs : Event(e)'
    BY <1>1 DEF EventsTrue, Event, TripOf
<1>4. \A e, f \in evs' : e.gs = f.gs /\ e.n = f.n => e = f
    BY <1>1 DEF EventsTrue
<1>5. QED
    BY <1>2, <1>3, <1>4 DEF EventsTrue

\* The ship comes to the end of its voyage, or goes down.
LEMMA VoyageEnds ==
    ASSUME FareInv, Arrives \/ Sinks
    PROVE  FareInv'
<1>1. pw.ship = "sea" /\ UNCHANGED <<pm, acc, snap, pg>>
    BY DEF Arrives, Sinks
<1>2. ShipTypes /\ ShipTrue /\ EventsTrue
    BY DEF FareInv
<1>3. Open = {} /\ pw.now + 1 = pw.port /\ pw.port \in Nat /\ pw.now \in Nat
    BY <1>1, <1>2 DEF ShipTrue, ShipTypes
<1>4. PICK end \in {"landed", "lost"} :
          /\ pw'.grp = [g \in Coming |-> IF g \in Aboard THEN end ELSE pw.grp[g]]
          /\ DOMAIN pw' = DOMAIN pw /\ pw'.offers = pw.offers /\ pw'.bt = pw.bt /\ pw'.now = pw.now + 1
          /\ \/ Arrives /\ pw'.ship = "port" /\ pw'.port = pw.port + 1
             \/ Sinks /\ pw'.ship = "gone" /\ pw'.port = pw.port
    BY <1>2 DEF Arrives, Sinks, ShipTypes
<1>5. Coming' = Coming /\ Open' = Open
    BY <1>4 DEF Coming, Open
<1>6. \A g \in Coming : /\ g \in Aboard => pw'.grp[g] = end /\ TripOf(g) = pw.port
                        /\ g \notin Aboard => pw'.grp[g] = pw.grp[g] /\ pw.grp[g] # "aboard"
    BY <1>2, <1>4 DEF Aboard, ShipTrue
<1>7. ShipTypes'
  <2>1. pw'.grp \in [Coming -> {"waiting", "aboard", "landed", "lost"}]
      BY <1>2, <1>4 DEF ShipTypes
  <2>2. QED
      BY <1>2, <1>3, <1>4, <1>5, <2>1 DEF ShipTypes
<1>8. ShipTrue'
  <2>1. ASSUME NEW g \in Coming
        PROVE  /\ pw'.grp[g] # "aboard"
               /\ pw'.grp[g] # "waiting" => TripOf(g) <= pw'.port /\ pw'.bt[g] + 1 = TripOf(g)
    <3>1. pw'.grp[g] # "aboard" /\ (pw'.grp[g] # "waiting" => pw.grp[g] # "waiting")
        BY <1>6 DEF Aboard
    <3>2. TripOf(g) \in Nat /\ (pw.port <= pw'.port)
        BY <1>3, <1>4 DEF TripOf
    <3>3. QED
        BY <1>2, <1>3, <1>4, <3>1, <3>2 DEF ShipTrue, ShipTypes, TripOf
  <2>2. IF pw'.ship = "gone" THEN pw'.now = pw'.port ELSE pw'.now + 1 = pw'.port
      BY <1>3, <1>4
  <2>3. QED
      BY <1>3, <1>5, <2>1, <2>2 DEF ShipTrue
<1>9. Aboard \subseteq Coming /\ IsFiniteSet(Aboard)
  <2>1. IsFiniteSet(Group)
      BY FS_Singleton, FS_AddElement, IsFiniteSet({"a"}), IsFiniteSet({"a"} \cup {"b"}),
         IsFiniteSet({"a", "b"} \cup {"c"}) DEF Group
  <2>2. Aboard \in SUBSET Group /\ Aboard \subseteq Coming
      BY <1>2 DEF Aboard, ShipTypes
  <2>3. QED
      BY <2>1, <2>2, FS_Subset
<1>10. EventsTrue'
  <2>1. \A g \in Coming : pw.grp[g] \notin {"waiting", "aboard"} => pw'.grp[g] \notin {"waiting", "aboard"}
      BY <1>6
  <2>2. \A g \in Aboard : pw'.grp[g] \notin {"waiting", "aboard"}
      BY <1>6, <1>9
  <2>3. \A f \in evs : f.gs # {} /\ f.gs \cap Aboard = {}
      BY <1>2 DEF EventsTrue, Event, Aboard
  <2>4. CASE Arrives
    <3> DEFINE new == {FareEvent({g}, g, pw.now + 1, FALSE, 1) : g \in Aboard}
    <3>1. evs' = evs \cup new
        BY <2>4 DEF Arrives
    <3>2. IsFiniteSet(new)
      <4> DEFINE told == [g \in Aboard |-> FareEvent({g}, g, pw.now + 1, FALSE, 1)]
      <4>1. told \in Surjection(Aboard, new)
          BY DEF Surjection
      <4>2. QED
          BY ONLY <1>9, <4>1, FS_Surjection
    <3>3. ASSUME NEW e \in new PROVE Event(e)' /\ \A f \in evs : ~(f.gs = e.gs /\ f.n = e.n)
      <4>1. PICK g \in Aboard : e = FareEvent({g}, g, pw.now + 1, FALSE, 1)
          OBVIOUS
      <4>2. /\ DOMAIN e = {"gs", "tag", "at", "lost", "n", "rec"} /\ e.gs = {g} /\ e.tag \in {g, Nil}
            /\ e.at \in {pw.now + 1, Nil}
          BY <4>1 DEF FareEvent
      <4>3. Event(e)'
          BY <1>3, <1>5, <1>6, <1>9, <2>2, <4>2 DEF Event
      <4>4. QED
          BY <2>3, <4>2, <4>3
    <3>4. \A e, f \in new : e.gs = f.gs /\ e.n = f.n => e = f
      <4>1. SUFFICES ASSUME NEW g \in Aboard, NEW h \in Aboard,
                            FareEvent({g}, g, pw.now + 1, FALSE, 1).gs = FareEvent({h}, h, pw.now + 1, FALSE, 1).gs
                     PROVE  g = h
          OBVIOUS
      <4>2. {g} = {h}
          BY <4>1 DEF FareEvent
      <4>3. QED
          BY <4>2
    <3> HIDE DEF new
    <3>5. QED
        BY <1>5, <2>1, <3>1, <3>2, <3>3, <3>4, EventsGrow
  <2>5. CASE Sinks
    <3>0. PICK one : one = FareEvent(Aboard, Nil, pw.now + 1, TRUE, 1)
        OBVIOUS
    <3> DEFINE new == IF Aboard = {} THEN {} ELSE {one}
    <3>1. evs' = evs \cup new
        BY <2>5, <3>0 DEF Sinks
    <3>2. IsFiniteSet(new)
        BY FS_EmptySet, FS_Singleton
    <3>3. ASSUME Aboard # {} PROVE Event(one)' /\ \A f \in evs : ~(f.gs = one.gs /\ f.n = one.n)
      <4>1. /\ DOMAIN one = {"gs", "tag", "at", "lost", "n", "rec"} /\ one.gs = Aboard /\ one.tag = Nil
            /\ one.at \in {pw.now + 1, Nil}
          BY <3>0 DEF FareEvent
      <4>2. Event(one)'
        <5>1. one.gs # {} /\ one.gs \subseteq Coming' /\ \A g \in one.gs : pw'.grp[g] \notin {"waiting", "aboard"}
            BY <1>5, <1>9, <2>2, <3>3, <4>1
        <5>2. one.at # Nil => \A g \in one.gs : one.at = TripOf(g)
            BY <1>3, <1>6, <1>9, <4>1
        <5>3. QED
            BY <4>1, <5>1, <5>2 DEF Event, TripOf
      <4>3. QED
          BY <2>3, <3>3, <4>1, <4>2
    <3>4. CASE Aboard = {}
      <4>1. new = {}
          BY <3>4
      <4> HIDE DEF new
      <4>2. QED
          BY <1>5, <2>1, <3>1, <3>2, <4>1, EventsGrow
    <3>5. CASE Aboard # {}
      <4>1. new = {one}
          BY <3>5
      <4> HIDE DEF new
      <4>2. evs' = evs \cup {one} /\ IsFiniteSet({one})
          BY <3>1, <3>2, <4>1
      <4>3. QED
          BY <1>5, <2>1, <3>3, <3>5, <4>2, EventsGrow
    <3>6. QED
        BY <3>4, <3>5
  <2>6. QED
      BY <2>4, <2>5 DEF Arrives, Sinks
<1>11. RequestTrue'
    BY <1>1, <1>5 DEF FareInv, RequestTrue, Straight
<1>12. Straight' => (AtHome \/ Away)'
  <2>1. SUFFICES ASSUME Straight PROVE Away'
      BY <1>1 DEF Straight
  <2>2. Away
      BY <1>1, <2>1, MissionPlace DEF Straight, AtHome
  <2>3. \A g \in Coming : TripOf(g) > pm.trip => pw'.grp[g] = "waiting"
      BY <1>6, <2>2 DEF Away, Aboard
  <2>4. QED
      BY <1>1, <1>3, <1>4, <1>5, <2>2, <2>3 DEF Away
<1>13. \A g \in Coming : pw.grp[g] # "waiting" => pw'.grp[g] # "waiting"
    BY <1>6
<1>14. QED
    BY <1>1, <1>5, <1>7, <1>8, <1>10, <1>11, <1>12, <1>13, WorldStep DEF Straight

\* An event is told again or recorded.
LEMMA EventSteps ==
    ASSUME FareInv, Repeats \/ Recorded
    PROVE  FareInv'
<1>1. UNCHANGED <<pw, pm, acc, snap>>
    BY DEF Repeats, Recorded
<1>2. DOMAIN pg' = DOMAIN pg /\ pg'.gen = pg.gen /\ pg'.had = pg.had
    BY DEF Repeats, Recorded, FareInv, BookTypes
<1>3. EventsTrue
    BY DEF FareInv
<1>4. EventsTrue'
  <2>1. CASE Repeats
    <3>1. PICK e \in evs : (\A f \in evs : f.gs = e.gs => f.n = 1) /\ evs' = evs \cup {[e EXCEPT !.n = 2, !.rec = Nil]}
        BY <2>1 DEF Repeats
    <3>0. PICK x : x = [e EXCEPT !.n = 2, !.rec = Nil]
        OBVIOUS
    <3>2. Event(e)
        BY <1>3 DEF EventsTrue
    <3>3. DOMAIN x = DOMAIN e /\ x.gs = e.gs /\ x.tag = e.tag /\ x.at = e.at /\ x.n = 2
        BY <3>2, <3>0 DEF Event
    <3>4. Event(x)'
        BY <1>1, <3>2, <3>3 DEF Event, Coming, TripOf
    <3>5. \A f \in evs : ~(f.gs = x.gs /\ f.n = x.n)
        BY <3>1, <3>3
    <3>6. evs' = evs \cup {x} /\ IsFiniteSet({x})
        BY <3>1, <3>0, FS_Singleton
    <3>7. Coming' = Coming /\ \A g \in Coming : pw'.grp[g] = pw.grp[g]
        BY <1>1 DEF Coming
    <3>8. QED
        BY <3>4, <3>5, <3>6, <3>7, EventsGrow
  <2>2. CASE Recorded
    <3>1. PICK e \in evs : evs' = (evs \ {e}) \cup {[e EXCEPT !.rec = pw.now]}
        BY <2>2 DEF Recorded
    <3>0. PICK x : x = [e EXCEPT !.rec = pw.now]
        OBVIOUS
    <3>2. Event(e) /\ IsFiniteSet(evs)
        BY <1>3 DEF EventsTrue
    <3>3. DOMAIN x = DOMAIN e /\ x.gs = e.gs /\ x.tag = e.tag /\ x.at = e.at /\ x.n = e.n
        BY <3>2, <3>0 DEF Event
    <3>4. evs' = (evs \ {e}) \cup {x}
        BY <3>1, <3>0
    <3>5. \A f \in evs' : Event(f)'
      <4>1. Event(x)'
          BY <1>1, <3>2, <3>3 DEF Event, Coming, TripOf
      <4>2. \A f \in evs : Event(f)'
          BY <1>1, <1>3 DEF EventsTrue, Event, Coming, TripOf
      <4>3. QED
          BY <3>4, <4>1, <4>2
    <3>6. IsFiniteSet(evs')
        BY <3>2, <3>4, FS_RemoveElement, FS_AddElement
    <3>7. \A f, h \in evs' : f.gs = h.gs /\ f.n = h.n => f = h
        BY <1>3, <3>3, <3>4 DEF EventsTrue
    <3>8. QED
        BY <3>5, <3>6, <3>7 DEF EventsTrue
  <2>3. QED
      BY <2>1, <2>2
<1>5. ShipTypes' /\ ShipTrue' /\ RequestTrue' /\ Coming' = Coming
    BY <1>1 DEF FareInv, ShipTypes, ShipTrue, RequestTrue, Coming, Open, Straight
<1>6. Straight' => (AtHome \/ Away)'
    BY <1>1, MissionPlace DEF Straight, AtHome, Away, Open, Coming
<1>7. QED
    BY <1>1, <1>2, <1>4, <1>5, <1>6, WorldStep DEF Straight

LEMMA FareStep == FareInv /\ [PassengersNext]_pvars => FareInv'
<1>1. SUFFICES ASSUME FareInv, [PassengersNext]_pvars PROVE FareInv'
    OBVIOUS
<1>2. CASE UNCHANGED pvars
    BY <1>1, <1>2, WaitStep DEF pvars
<1>3. CASE PassengersNext
  <2>1. CASE \E g \in Coming : Boards(g) \/ SyncBoarded(g)
      BY <1>1, <2>1, BoardsStep, SyncSteps
  <2>2. CASE OfferCloses \/ OtherOffer \/ Arrives \/ Sinks \/ Repeats \/ Recorded
      BY <1>1, <2>2, OfferSteps, VoyageEnds, EventSteps
  <2>3. CASE ServerActs \/ RequestLost \/ ServerRefuses \/ RequestDamaged
      BY <1>1, <2>3, ActsStep, ResultSteps, ApartSteps
  <2>4. CASE RetireQuarantinedAction \/ DriveQuarantined \/ DriveRecovery
      BY <1>1, <2>4, ApartSteps
  <2>5. CASE ConsiderPassage \/ RecoverPassage \/ SyncAboard \/ SyncReceipts \/ PutReceipts
      BY <1>1, <2>5, AdmissionSteps, SyncSteps, ReceiptStep, PutStep
  <2>6. CASE BeginWait \/ CaptureStale \/ Completes \/ SweepWait
      BY <1>1, <2>6, WaitSteps, CompleteStep
  <2>7. CASE \E k \in Gen : ScanReceipt(k) \/ ReceiptExpires(k)
      BY <1>1, <2>7, ArchiveSteps
  <2>8. CASE AdoptOffer \/ CancelUnsafe \/ BetterPlan \/ CancelToSail \/ Depart \/ CloseOut \/ OfferEnded
      BY <1>1, <2>8, AtOriginSteps, DepartStep
  <2>9. CASE PostOffer \/ QuoteFails \/ Reprice
      BY <1>1, <2>9, AtOriginSteps
  <2>10. CASE Concludes \/ ReconcileOffer \/ ReconcileCancel \/ ReconcileDepart
      BY <1>1, <2>10, ResultSteps
  <2>11. QED
      BY <1>3, <2>1, <2>2, <2>3, <2>4, <2>5, <2>6, <2>7, <2>8, <2>9, <2>10 DEF PassengersNext
<1>4. QED
    BY <1>1, <1>2, <1>3

LEMMA RowsFares == FareInv => FareToItsVoyage
BY DEF FareInv, RowsTrue, RowsOK, FaresOf, FareToItsVoyage

\* A fare is counted by one settlement at most, and by one of a passage of the
\* voyage it was paid on, for any ways the server writes its events and any
\* number of passages, offers, repeated events and failed writes.
THEOREM FareToItsVoyageHolds == PassengersSpec => []FareToItsVoyage
<1>1. PassengersInit => FareInv
    BY InitFare
<1>2. FareInv /\ [PassengersNext]_pvars => FareInv'
    BY FareStep
<1>3. FareInv => FareToItsVoyage
    BY RowsFares
<1>4. QED
    BY <1>1, <1>2, <1>3, PTL DEF PassengersSpec

-----------------------------------------------------------------------------
(* What a passage spent *)

RowsOf(a, k) == {r \in a.rows : r.gen = k}
Unrecovered(R, k) == {r \in R : r.id # <<"recovery", k>>}
RecoveryRow(k, extra) == [id |-> <<"recovery", k>>, gen |-> k, ev |-> {}, cost |-> extra, known |-> FALSE]
MarkRow(k, residual) == [id |-> <<"mark", k>>, gen |-> k, ev |-> {}, known |-> FALSE, cost |-> residual]

\* The settlements R of the generation k carry no more than it spent.  Its
\* archive is what the settlements up to the marker carry, and one recovery
\* may carry more.
GenOK(R, arch, spent, k) ==
    /\ arch \in Nat \cup {Nil} /\ spent \in Nat
    /\ arch = Nil => Sum(R) <= spent /\ \A r \in R : r.id \notin Marker(k)
    /\ arch # Nil => /\ \E r \in R : r.id = <<"mark", k>>
                     /\ Sum(Unrecovered(R, k)) = arch /\ arch <= spent
                     /\ \A r, x \in R : r.id = <<"recovery", k>> /\ x.id = r.id => r = x /\ arch + r.cost <= spent

Costed(S) == IsFiniteSet(S) /\ \A r \in S : r.cost \in Nat
Books(a, spent) ==
    /\ Costed(a.rows)
    /\ a.arch \in [Gen -> Nat \cup {Nil}] /\ spent \in [Gen -> Nat]
    /\ \A r \in a.rows, k \in Gen : r.id \in Marker(k) => r.gen = k
    /\ \A k \in Gen : GenOK(RowsOf(a, k), a.arch[k], spent[k], k)

\* Settlements carry a number of costs.
LEMMA SumNat == ASSUME NEW S, Costed(S) PROVE Sum(S) \in Nat
<1> DEFINE f == [r \in S |-> r.cost]
           z == [r \in S |-> 0]
<1>1. IsFiniteSet(S) /\ \A r \in S : f[r] \in Int /\ z[r] \in Int /\ z[r] = 0 /\ z[r] <= f[r]
    BY DEF Costed
<1>2. DOMAIN f = S
    OBVIOUS
<1>3. Sum(S) = SumFunctionOnSet(f, S)
    BY <1>2 DEF Sum, SumFunction
<1> HIDE DEF f, z
<1>4. SumFunctionOnSet(f, S) \in Int
    BY <1>1, SumType
<1>5. SumFunctionOnSet(z, S) = 0
    BY <1>1, SumZero
<1>6. SumFunctionOnSet(z, S) <= SumFunctionOnSet(f, S)
    BY <1>1, SumMonotone
<1>7. QED
    BY <1>3, <1>4, <1>5, <1>6

LEMMA SumNone == Sum({}) = 0
<1> DEFINE f == [r \in {} |-> r.cost]
<1>1. DOMAIN f = {} /\ Sum({}) = SumFunctionOnSet(f, DOMAIN f)
    BY DEF Sum, SumFunction
<1> HIDE DEF f
<1>2. SumFunctionOnSet(f, {}) = 0
    BY SumEmpty
<1>3. QED
    BY <1>1, <1>2

\* One more settlement carries its own costs more.
LEMMA SumPlus ==
    ASSUME NEW S, NEW x, x \notin S, Costed(S), x.cost \in Nat
    PROVE  Sum(S \cup {x}) = Sum(S) + x.cost /\ Costed(S \cup {x})
<1> DEFINE T == S \cup {x}
           f == [r \in T |-> r.cost]
           e == [r \in S |-> r.cost]
<1>1. Costed(T) /\ IsFiniteSet(S) /\ IsFiniteSet(T)
    BY FS_AddElement DEF Costed
<1>2. Sum(T) = SumFunctionOnSet(f, T) /\ Sum(S) = SumFunctionOnSet(e, S)
  <2>1. DOMAIN f = T /\ DOMAIN e = S
      OBVIOUS
  <2> HIDE DEF T
  <2>2. QED
      BY <2>1 DEF Sum, SumFunction
<1>3. /\ \A r \in S : f[r] \in Int /\ e[r] \in Int /\ f[r] = e[r]
      /\ \A r \in T : f[r] \in Int
      /\ f[x] = x.cost
    BY <1>1 DEF Costed
<1> HIDE DEF f, e
<1>4. SumFunctionOnSet(f, S \cup {x}) = f[x] + SumFunctionOnSet(f, S)
    BY <1>1, <1>3, SumAdd
<1>5. SumFunctionOnSet(f, S) = SumFunctionOnSet(e, S)
    BY <1>1, <1>3, SumSame
<1>6. Sum(S) \in Nat
    BY SumNat
<1>7. QED
    BY <1>1, <1>2, <1>3, <1>4, <1>5, <1>6

LEMMA SumOne == ASSUME NEW x, x.cost \in Nat PROVE Sum({x}) = x.cost
<1>1. Costed({}) /\ x \notin {}
    BY FS_EmptySet DEF Costed
<1>2. Sum({} \cup {x}) = Sum({}) + x.cost
    BY <1>1, SumPlus
<1>3. {} \cup {x} = {x}
    OBVIOUS
<1>4. QED
    BY <1>2, <1>3, SumNone

LEMMA CostedPart == ASSUME NEW T, Costed(T), NEW S \in SUBSET T PROVE Costed(S)
BY FS_Subset DEF Costed

LEMMA CostedPlus == ASSUME NEW S, NEW x, Costed(S), x.cost \in Nat PROVE Costed(S \cup {x})
BY FS_AddElement DEF Costed

\* Part of the settlements carries part of the costs.
LEMMA SumLess ==
    ASSUME NEW T, Costed(T), NEW S \in SUBSET T
    PROVE  Sum(S) <= Sum(T)
<1> DEFINE bad == {s \in SUBSET T : ~(S \subseteq s => Sum(S) <= Sum(s))}
<1>1. SUFFICES ASSUME bad # {} PROVE FALSE
    OBVIOUS
<1>2. PICK t \in bad : \A u \in bad : ~(u \subseteq t /\ u # t)
  <2>1. bad \in SUBSET (SUBSET T) /\ IsFiniteSet(T)
      BY DEF Costed
  <2> HIDE DEF bad
  <2>2. QED
      BY <1>1, <2>1, MinimalSubset
<1>3. t \in SUBSET T /\ S \subseteq t /\ ~(Sum(S) <= Sum(t))
    BY <1>2
<1>4. Sum(S) \in Nat
    BY CostedPart, SumNat
<1>5. t # S
    BY <1>3, <1>4
<1>6. PICK x \in t : x \notin S
    BY <1>3, <1>5
<1>7. PICK u \in SUBSET T : u = t \ {x}
    BY <1>3
<1>8. Sum(S) <= Sum(u)
    BY <1>2, <1>3, <1>6, <1>7
<1>9. t = u \cup {x} /\ x \notin u /\ x \in T
    BY <1>3, <1>6, <1>7
<1>10. Costed(u) /\ x.cost \in Nat /\ Sum(u) \in Nat
    BY <1>9, CostedPart, SumNat DEF Costed
<1>11. Sum(u \cup {x}) = Sum(u) + x.cost
    BY <1>9, <1>10, SumPlus
<1>12. QED
    BY <1>3, <1>4, <1>8, <1>9, <1>10, <1>11

\* A settlement in place of another with the same costs.
LEMMA SumSwap ==
    ASSUME NEW S, Costed(S), NEW x \in S, NEW y, y \notin S \ {x}, y.cost = x.cost
    PROVE  Sum((S \ {x}) \cup {y}) = Sum(S) /\ Costed((S \ {x}) \cup {y})
<1> DEFINE u == S \ {x}
<1>1. u \in SUBSET S /\ x \notin u /\ u \cup {x} = S /\ y \notin u /\ x.cost \in Nat
    BY DEF Costed
<1> HIDE DEF u
<1>2. Costed(u)
    BY <1>1, CostedPart
<1>3. Sum(u \cup {x}) = Sum(u) + x.cost /\ Sum(u \cup {y}) = Sum(u) + y.cost /\ Costed(u \cup {y})
    BY <1>1, <1>2, SumPlus
<1>4. QED
    BY <1>1, <1>3 DEF u

-----------------------------------------------------------------------------
(* The books *)

LEMMA BooksChange ==
    ASSUME NEW a, NEW spent, Books(a, spent), NEW b, NEW more, NEW k \in Gen, Costed(b.rows),
           b.arch \in [Gen -> Nat \cup {Nil}], more \in [Gen -> Nat],
           \A r \in b.rows, j \in Gen : r.id \in Marker(j) => r.gen = j,
           \A j \in Gen : j # k => RowsOf(b, j) = RowsOf(a, j) /\ b.arch[j] = a.arch[j] /\ more[j] = spent[j],
           GenOK(RowsOf(b, k), b.arch[k], more[k], k)
    PROVE  Books(b, more)
<1>1. ASSUME NEW j \in Gen PROVE GenOK(RowsOf(b, j), b.arch[j], more[j], j)
    BY DEF Books
<1>2. QED
    BY <1>1 DEF Books

\* The settlements of a passage are costed.
LEMMA RowsCosted ==
    ASSUME NEW a, NEW spent, Books(a, spent), NEW k \in Gen
    PROVE  /\ Costed(RowsOf(a, k)) /\ Costed(Unrecovered(RowsOf(a, k), k))
           /\ Sum(RowsOf(a, k)) \in Nat /\ Sum(Unrecovered(RowsOf(a, k), k)) \in Nat
           /\ a.arch[k] \in Nat \cup {Nil} /\ spent[k] \in Nat
           /\ GenOK(RowsOf(a, k), a.arch[k], spent[k], k)
<1>1. Costed(a.rows) /\ RowsOf(a, k) \in SUBSET a.rows /\ Unrecovered(RowsOf(a, k), k) \in SUBSET a.rows
    BY DEF Books, RowsOf, Unrecovered
<1>2. Costed(RowsOf(a, k)) /\ Costed(Unrecovered(RowsOf(a, k), k))
    BY <1>1, CostedPart
<1>3. QED
    BY <1>2, SumNat DEF Books

\* The markers of a passage are its own settlements.
LEMMA Markers ==
    ASSUME NEW k, NEW j
    PROVE  /\ <<"mark", k>> \in Marker(j) <=> k = j
           /\ <<"recovery", k>> \in Marker(j) <=> k = j
           /\ <<"rest", k>> \notin Marker(j)
           /\ <<"mark", k>> # <<"recovery", j>>
           /\ \A g, n : <<"fare", g, n>> \notin Marker(j)
<1>1. <<"mark", k>>[1] = "mark" /\ <<"recovery", k>>[1] = "recovery" /\ <<"rest", k>>[1] = "rest"
      /\ <<"mark", k>>[2] = k /\ <<"recovery", k>>[2] = k
    OBVIOUS
<1>2. \A g, n : <<"fare", g, n>>[1] = "fare"
    OBVIOUS
<1>3. /\ <<"mark", j>>[1] = "mark" /\ <<"recovery", j>>[1] = "recovery"
      /\ <<"mark", j>>[2] = j /\ <<"recovery", j>>[2] = j
    OBVIOUS
<1>4. QED
    BY <1>1, <1>2, <1>3 DEF Marker

\* A settlement that is no marker joins the books of a passage not set apart.
LEMMA BookRow ==
    ASSUME NEW a, NEW spent, Books(a, spent), NEW k \in Gen, a.arch[k] = Nil, NEW x, x \notin a.rows, x.gen = k,
           x.cost \in Nat, \A j \in Gen : x.id \notin Marker(j), Sum(RowsOf(a, k)) + x.cost <= spent[k],
           NEW b, b.rows = a.rows \cup {x}, b.arch = a.arch
    PROVE  /\ Books(b, spent) /\ Sum(RowsOf(b, k)) = Sum(RowsOf(a, k)) + x.cost
           /\ RowsOf(b, k) = RowsOf(a, k) \cup {x}
           /\ \A j \in Gen : j # k => RowsOf(b, j) = RowsOf(a, j)
<1>1. /\ RowsOf(b, k) = RowsOf(a, k) \cup {x} /\ x \notin RowsOf(a, k)
      /\ \A j \in Gen : j # k => RowsOf(b, j) = RowsOf(a, j)
    BY DEF RowsOf
<1>2. Costed(RowsOf(a, k)) /\ GenOK(RowsOf(a, k), a.arch[k], spent[k], k)
    BY RowsCosted
<1>3. Sum(RowsOf(b, k)) = Sum(RowsOf(a, k)) + x.cost
    BY <1>1, <1>2, SumPlus
<1>4. Costed(b.rows)
    BY CostedPlus DEF Books
<1>5. GenOK(RowsOf(b, k), b.arch[k], spent[k], k)
    BY <1>1, <1>2, <1>3 DEF GenOK
<1>6. \A r \in b.rows, j \in Gen : r.id \in Marker(j) => r.gen = j
    BY DEF Books
<1>7. b.arch \in [Gen -> Nat \cup {Nil}] /\ spent \in [Gen -> Nat]
    BY DEF Books
<1>8. ASSUME NEW j \in Gen PROVE GenOK(RowsOf(b, j), b.arch[j], spent[j], j)
  <2>1. CASE j = k
      BY <1>5, <2>1
  <2>2. CASE j # k
      BY <1>1, <2>2 DEF Books
  <2>3. QED
      BY <2>1, <2>2
<1>9. Books(b, spent)
    BY <1>4, <1>6, <1>7, <1>8 DEF Books
<1>10. QED
    BY <1>1, <1>3, <1>9

\* The passage is set apart: with its marker it carries what it had spent.
LEMMA BookArchive ==
    ASSUME NEW a, NEW spent, Books(a, spent), NEW m, m.gen \in Gen, m.cost = spent[m.gen],
           DOMAIN a = {"rows", "rec", "arch"}, NEW b, b = ArchiveQuarantined(a, m)
    PROVE  /\ Books(b, spent) /\ b.arch[m.gen] # Nil /\ b.rec = a.rec /\ DOMAIN b = DOMAIN a /\ a.rows \subseteq b.rows
           /\ \A j \in Gen : j # m.gen => RowsOf(b, j) = RowsOf(a, j) /\ b.arch[j] = a.arch[j]
           /\ a.arch[m.gen] # Nil => b.rows = a.rows /\ b.arch = a.arch
           /\ a.arch[m.gen] = Nil => b.arch[m.gen] = m.cost /\ \A r \in b.rows : r.id # <<"recovery", m.gen>>
<1> DEFINE k == m.gen
           R == RowsOf(a, k)
<1>0. k \in Gen
    OBVIOUS
<1>1. GenOK(R, a.arch[k], spent[k], k) /\ Costed(R) /\ Sum(R) \in Nat /\ spent[k] \in Nat
    BY RowsCosted
<1>2. a.arch \in [Gen -> Nat \cup {Nil}] /\ spent \in [Gen -> Nat] /\ Costed(a.rows)
      /\ \A r \in a.rows, j \in Gen : r.id \in Marker(j) => r.gen = j
    BY DEF Books
<1>3. CASE a.arch[k] # Nil
  <2>1. \E r \in a.rows : r.id = <<"mark", k>>
      BY <1>1, <1>3 DEF GenOK, RowsOf
  <2>2. b = [a EXCEPT !.arch[k] = a.arch[k], !.rows = a.rows]
      BY <1>3, <2>1 DEF ArchiveQuarantined
  <2>3. DOMAIN b = DOMAIN a /\ b.rows = a.rows /\ b.rec = a.rec /\ b.arch = [a.arch EXCEPT ![k] = a.arch[k]]
      BY <2>2
  <2>4. b.arch = a.arch
      BY <1>2, <2>3
  <2>5. \A j \in Gen : RowsOf(b, j) = RowsOf(a, j)
      BY <2>3 DEF RowsOf
  <2>6. Books(b, spent)
      BY <2>3, <2>4, <2>5 DEF Books
  <2>7. QED
      BY <1>3, <2>3, <2>4, <2>5, <2>6
<1>4. CASE a.arch[k] = Nil
  <2>1. \A r \in R : r.id \notin Marker(k)
      BY <1>1, <1>4 DEF GenOK
  <2>2. \A r \in a.rows : r.id \notin Marker(k)
      BY <1>2, <2>1 DEF RowsOf
  <2>3. {r \in a.rows : r.gen = k /\ r.id \notin Marker(k)} = R
      BY <2>1 DEF RowsOf
  <2>4. Carried(a, k) = Sum(R) /\ Sum(R) <= m.cost /\ m.cost \in Nat
      BY <1>1, <1>4, <2>3 DEF Carried, GenOK
  <2> DEFINE left == MarkerResidual(a, k, m.cost)
             x == MarkRow(k, left)
  <2>5. left \in Nat /\ Sum(R) + left = m.cost
      BY <1>1, <2>4 DEF MarkerResidual
  <2>6. ~\E r \in a.rows : r.id = <<"mark", k>>
      BY <2>2 DEF Marker
  <2>7. b = [a EXCEPT !.arch[k] = m.cost, !.rows = a.rows \cup {x}]
      BY <1>4, <2>6 DEF ArchiveQuarantined, MarkRow
  <2>8. x.id = <<"mark", k>> /\ x.gen = k /\ x.cost = left
      BY DEF MarkRow
  <2> HIDE DEF left, x
  <2>9. /\ b.rows = a.rows \cup {x} /\ b.arch = [a.arch EXCEPT ![k] = m.cost] /\ b.rec = a.rec /\ DOMAIN b = DOMAIN a
      BY <2>7
  <2>10. x \notin a.rows /\ x \notin R
      BY <2>6, <2>8 DEF RowsOf
  <2>11. /\ RowsOf(b, k) = R \cup {x} /\ \A j \in Gen : j # k => RowsOf(b, j) = RowsOf(a, j)
      BY <2>8, <2>9 DEF RowsOf
  <2>12. Sum(R \cup {x}) = m.cost /\ Costed(b.rows)
    <3>1. x.cost \in Nat
        BY <2>5, <2>8
    <3>2. Sum(R \cup {x}) = Sum(R) + x.cost
        BY <1>1, <2>10, <3>1, SumPlus
    <3>3. Costed(b.rows)
        BY <1>2, <2>9, <3>1, CostedPlus
    <3>4. QED
        BY <2>5, <2>8, <3>2, <3>3
  <2>13. \A r \in b.rows : r.id # <<"recovery", k>>
    <3>1. x.id # <<"recovery", k>>
        BY <2>8, Markers
    <3>2. \A r \in a.rows : r.id # <<"recovery", k>>
        BY <2>2 DEF Marker
    <3>3. QED
        BY <2>9, <3>1, <3>2
  <2>14. Unrecovered(RowsOf(b, k), k) = R \cup {x}
      BY <2>11, <2>13 DEF Unrecovered, RowsOf
  <2>15. b.arch \in [Gen -> Nat \cup {Nil}] /\ b.arch[k] = m.cost /\ \A j \in Gen : j # k => b.arch[j] = a.arch[j]
      BY <1>2, <2>4, <2>9
  <2>16. m.cost # Nil
      BY <2>4, PassengersNil
  <2>17. GenOK(RowsOf(b, k), b.arch[k], spent[k], k)
    <3>1. \E r \in RowsOf(b, k) : r.id = <<"mark", k>>
        BY <2>8, <2>11
    <3>2. \A r \in RowsOf(b, k) : r.id # <<"recovery", k>>
        BY <2>13 DEF RowsOf
    <3>3. Sum(Unrecovered(RowsOf(b, k), k)) = b.arch[k] /\ b.arch[k] = spent[k]
        BY <2>12, <2>14, <2>15
    <3> HIDE DEF k
    <3>4. QED
        BY <1>1, <2>15, <2>16, <3>1, <3>2, <3>3 DEF GenOK
  <2>18. \A r \in b.rows, j \in Gen : r.id \in Marker(j) => r.gen = j
    <3>1. ASSUME NEW j \in Gen, x.id \in Marker(j) PROVE x.gen = j
      <4>1. <<"mark", k>> \in Marker(j) <=> k = j
          BY Markers
      <4>2. QED
          BY <2>8, <3>1, <4>1
    <3>2. QED
        BY <1>2, <2>9, <3>1
  <2>19. Books(b, spent)
    <3>1. /\ Costed(b.rows) /\ b.arch \in [Gen -> Nat \cup {Nil}] /\ spent \in [Gen -> Nat]
          /\ \A j \in Gen : j # k => RowsOf(b, j) = RowsOf(a, j) /\ b.arch[j] = a.arch[j] /\ spent[j] = spent[j]
        BY <1>2, <2>11, <2>12, <2>15
    <3> HIDE DEF k, R
    <3>2. ASSUME NEW j \in Gen PROVE GenOK(RowsOf(b, j), b.arch[j], spent[j], j)
        BY <2>17, <3>1 DEF Books
    <3>3. QED
        BY <2>18, <3>1, <3>2 DEF Books
  <2>20. QED
      BY <1>4, <2>9, <2>11, <2>13, <2>15, <2>16, <2>19
<1>5. QED
    BY <1>3, <1>4

-----------------------------------------------------------------------------
(* The rows *)

\* The mission row has its type, and an event is one of two copies.
Typed ==
    /\ pm # Nil => pm \in Passages
    /\ \A e \in evs : e.n \in {1, 2} /\ e.gs \subseteq Group

\* What the argument needs of the types of the ship and its offers.
LEMMA WorldTypes ==
    ASSUME FareInv
    PROVE  /\ pw.port \in Nat /\ pw.now \in Nat /\ Len(pw.offers) \in Nat
           /\ DOMAIN pw.offers \subseteq Nat /\ Open \subseteq DOMAIN pw.offers
           /\ \A i \in DOMAIN pw.offers : pw.offers[i].fare \in Nat
           /\ Aboard \subseteq Group /\ Coming \subseteq Group
<1>1. pw.port \in Nat /\ pw.now \in Nat /\ pw.offers \in Seq(Offers) /\ Coming \subseteq Group
    BY DEF FareInv, ShipTypes
<1>2. \A i \in DOMAIN pw.offers : pw.offers[i] \in Offers
    BY <1>1
<1>3. QED
    BY <1>1, <1>2 DEF Offers, Open, Aboard

LEMMA RequestType ==
    ASSUME FareInv, NEW stage \in {"offer", "cancel", "depart"}, NEW arg \in Nat, NEW fare \in Nat
    PROVE  Request(stage, arg, fare) \in Requests
<1>1. Len(pw.offers) \in Nat
    BY WorldTypes
<1>2. QED
    BY <1>1 DEF Request, Requests

\* The missions n and m differ in their offer and their request at most.
Like(n, m) ==
    /\ n.gen = m.gen /\ n.cost = m.cost /\ n.q = m.q /\ n.recovery = m.recovery /\ n.extra = m.extra
    /\ n.unknown = m.unknown /\ n.receipts = m.receipts /\ n.groups = m.groups

\* Every step of a mission keeps the type of its row.
LEMMA StageTypes ==
    ASSUME FareInv, NEW m \in Passages, NEW stage \in {"offer", "cancel", "depart"}, NEW arg \in Nat, Stage(m, stage, arg)
    PROVE  pm' \in Passages /\ Like(pm', m)
<1>1. m.fare \in Nat
    BY DEF Passages
<1>2. Request(stage, arg, m.fare) \in Requests
    BY <1>1, RequestType
<1>3. pm' = [m EXCEPT !.act = Request(stage, arg, m.fare)]
    BY DEF Stage
<1>4. QED
    BY <1>2, <1>3 DEF Passages, Like

LEMMA CancelTypes == ASSUME FareInv, NEW m \in Passages, Cancel(m) PROVE pm' \in Passages /\ Like(pm', m)
<1>1. PICK i \in Open : Stage(m, "cancel", i)
    BY DEF Cancel
<1>2. i \in Nat
    BY WorldTypes
<1>3. QED
    BY <1>1, <1>2, StageTypes

LEMMA HomeTypes ==
    ASSUME FareInv, Typed,
           \/ AdoptOffer \/ CancelUnsafe \/ BetterPlan \/ CancelToSail \/ CloseOut \/ OfferEnded
           \/ PostOffer \/ QuoteFails \/ Reprice
    PROVE  (pm' \in Passages /\ Like(pm', pm)) \/ (pm' = Nil /\ pm.groups = {})
<1>1. pm # Nil
    BY DEF AdoptOffer, CancelUnsafe, BetterPlan, CancelToSail, CloseOut, OfferEnded, PostOffer, QuoteFails, Reprice,
           Ours, AtOrigin, Here, Idle, Driven, Keeps, DeleteMission
<1>2. pm \in Passages
    BY <1>1 DEF Typed
<1>3. CASE AdoptOffer
  <2>1. PICK i \in Open : pm' = [pm EXCEPT !.offer = i, !.abandon = TRUE, !.reoffer = FALSE, !.fare = pw.offers[i].fare]
      BY <1>3 DEF AdoptOffer
  <2>2. i \in Nat /\ pw.offers[i].fare \in Nat
      BY WorldTypes
  <2>3. QED
      BY <1>2, <2>1, <2>2 DEF Passages, Like
<1>4. [pm EXCEPT !.abandon = TRUE, !.reoffer = FALSE] \in Passages
    BY <1>2 DEF Passages
<1>5. Like([pm EXCEPT !.abandon = TRUE, !.reoffer = FALSE], pm) /\ \A n, m : Like(n, m) /\ Like(m, pm) => Like(n, pm)
    BY <1>2 DEF Passages, Like
<1>6. CASE CancelUnsafe
    BY <1>4, <1>6, <1>5, CancelTypes DEF CancelUnsafe
<1>7. CASE BetterPlan
    BY <1>4, <1>7, <1>5, CancelTypes DEF BetterPlan, DeleteMission
<1>8. CASE CancelToSail
    BY <1>2, <1>8, CancelTypes DEF CancelToSail
<1>9. CASE CloseOut
    BY <1>2, <1>9, CancelTypes DEF CloseOut, DeleteMission
<1>10. CASE OfferEnded
    BY <1>10 DEF OfferEnded, DeleteMission
<1>11. CASE PostOffer
  <2>1. Stage(pm, "offer", 0)
      BY <1>11 DEF PostOffer
  <2>2. QED
      BY <1>2, <2>1, StageTypes
<1>12. CASE QuoteFails
  <2>1. pm' = [pm EXCEPT !.abandon = TRUE]
      BY <1>12 DEF QuoteFails
  <2>2. QED
      BY <1>2, <2>1 DEF Passages, Like
<1>13. CASE Reprice
  <2>1. [pm EXCEPT !.fare = IF pm.reoffer THEN @ ELSE Floor, !.reoffer = TRUE] \in Passages
      BY <1>2 DEF Passages, Floor
  <2>2. Like([pm EXCEPT !.fare = IF pm.reoffer THEN @ ELSE Floor, !.reoffer = TRUE], pm)
      BY <1>2 DEF Passages, Like
  <2>3. QED
      BY <1>13, <1>5, <2>1, <2>2, CancelTypes DEF Reprice
<1>14. QED
    BY <1>3, <1>6, <1>7, <1>8, <1>9, <1>10, <1>11, <1>12, <1>13

LEMMA FinishTypes ==
    ASSUME FareInv, NEW i \in Nat, pm \in Passages, pm.act # Nil
    PROVE  Finish(i) \in Passages /\ Like(Finish(i), pm)
<1>1. pm.act \in Requests
    BY DEF Passages
<1>2. QED
    BY <1>1 DEF Finish, Passages, Requests, Like

LEMMA AnswerTypes ==
    ASSUME FareInv, Typed,
           \/ Concludes \/ ReconcileOffer \/ ReconcileCancel \/ ReconcileDepart
           \/ ServerActs \/ RequestLost \/ ServerRefuses
    PROVE  pm' \in Passages /\ Like(pm', pm)
<1>1. pm # Nil /\ pm.act # Nil
    BY DEF Concludes, ReconcileOffer, ReconcileCancel, ReconcileDepart, ServerActs, RequestLost, ServerRefuses,
           Answered, Pending
<1>2. pm \in Passages
    BY <1>1 DEF Typed
<1>3. pm.act \in Requests
    BY <1>1, <1>2 DEF Passages
<1>4. Len(pw.offers) \in Nat /\ DOMAIN pw.offers \subseteq Nat /\ Open \subseteq DOMAIN pw.offers
      /\ \A i \in DOMAIN pw.offers : pw.offers[i].fare \in Nat
    BY WorldTypes
<1>5. [pm EXCEPT !.act = Nil] \in Passages /\ [pm EXCEPT !.act = Nil, !.abandon = TRUE] \in Passages
      /\ Like([pm EXCEPT !.act = Nil], pm) /\ Like([pm EXCEPT !.act = Nil, !.abandon = TRUE], pm)
    BY <1>2 DEF Passages, Like
<1>6. MatchedOffers \subseteq DOMAIN pw.offers
    BY <1>4 DEF MatchedOffers
<1>7. ASSUME NEW st \in {"sent", "ok", "lost", "refused", "conflict"} PROVE [pm EXCEPT !.act.st = st] \in Passages /\ Like([pm EXCEPT !.act.st = st], pm)
  <2>1. [pm.act EXCEPT !.st = st] \in Requests
      BY <1>3 DEF Requests
  <2>2. [pm EXCEPT !.act = [pm.act EXCEPT !.st = st]] \in Passages /\ Like([pm EXCEPT !.act = [pm.act EXCEPT !.st = st]], pm)
      BY <1>2, <2>1 DEF Passages, Like
  <2>3. QED
      BY <2>2
<1>8. CASE Concludes
    BY <1>2, <1>1, <1>4, <1>5, <1>8, FinishTypes DEF Concludes
<1>9. CASE ReconcileOffer
  <2>1. CASE Rejected
      BY <1>5, <2>1, <1>1 DEF Rejected
  <2>2. ASSUME NEW i \in MatchedOffers, NEW above \in BOOLEAN,
               pm' = [pm EXCEPT !.act = Nil, !.offer = i, !.reoffer = FALSE, !.fare = pw.offers[i].fare, !.abandon = above]
        PROVE  pm' \in Passages /\ Like(pm', pm)
      BY <1>2, <1>4, <1>6, <2>2 DEF Passages, Like
  <2>3. ASSUME NEW i \in MatchedOffers, pm' = Finish(i) PROVE pm' \in Passages /\ Like(pm', pm)
      BY <1>1, <1>2, <1>4, <1>6, <2>3, FinishTypes
  <2>4. CASE pm' = [pm EXCEPT !.act.st = "sent"] \/ pm' = [pm EXCEPT !.act = Nil, !.abandon = TRUE]
      BY <1>1, <1>5, <1>7, <2>4
  <2>5. QED
      BY <1>1, <1>9, <2>1, <2>2, <2>3, <2>4 DEF ReconcileOffer
<1>10. CASE ReconcileCancel
    BY <1>1, <1>2, <1>5, <1>10, FinishTypes DEF ReconcileCancel
<1>11. CASE ReconcileDepart
    BY <1>1, <1>5, <1>7, <1>11 DEF ReconcileDepart
<1>12. CASE ServerActs
  <2>1. PICK st \in {"ok", "lost"} : pm' = [pm EXCEPT !.act.done = TRUE, !.act.st = st]
      BY <1>12 DEF ServerActs
  <2>2. [pm.act EXCEPT !.done = TRUE, !.st = st] \in Requests
      BY <1>3 DEF Requests
  <2>3. pm' = [pm EXCEPT !.act = [pm.act EXCEPT !.done = TRUE, !.st = st]]
      BY <1>2, <2>1 DEF Passages
  <2>4. [pm EXCEPT !.act = [pm.act EXCEPT !.done = TRUE, !.st = st]] \in Passages
        /\ Like([pm EXCEPT !.act = [pm.act EXCEPT !.done = TRUE, !.st = st]], pm)
      BY <1>2, <2>2 DEF Passages, Like
  <2>5. QED
      BY <1>1, <2>3, <2>4
<1>13. CASE RequestLost
    BY <1>1, <1>7, <1>13 DEF RequestLost
<1>14. CASE ServerRefuses
    BY <1>1, <1>7, <1>14 DEF ServerRefuses
<1>15. QED
    BY <1>8, <1>9, <1>10, <1>11, <1>12, <1>13, <1>14

LEMMA ApartTypes ==
    ASSUME FareInv, pm \in Passages
    PROVE  /\ [pm EXCEPT !.q = TRUE, !.recovery = FALSE] \in Passages
           /\ [pm EXCEPT !.act = Nil] \in Passages
           /\ \A x \in Nat \cup {Nil} : [pm EXCEPT !.extra = x] \in Passages
           /\ [pm EXCEPT !.q = FALSE, !.recovery = TRUE, !.groups = Aboard, !.abandon = TRUE, !.offer = 0,
                         !.reoffer = FALSE, !.unknown = Nil, !.receipts = << >>, !.extra = Nil] \in Passages
           /\ [pm EXCEPT !.groups = Aboard, !.cost = @ + Stores] \in Passages
           /\ \A i \in Nat : [pm EXCEPT !.groups = Aboard, !.offer = i] \in Passages
<1>1. Aboard \subseteq Group
    BY WorldTypes
<1>2. << >> \in Seq(Fares)
    OBVIOUS
<1>3. [pm EXCEPT !.q = TRUE, !.recovery = FALSE] \in Passages /\ [pm EXCEPT !.act = Nil] \in Passages
    BY DEF Passages
<1>4. \A x \in Nat \cup {Nil} : [pm EXCEPT !.extra = x] \in Passages
    BY DEF Passages
<1>5. [pm EXCEPT !.q = FALSE, !.recovery = TRUE, !.groups = Aboard, !.abandon = TRUE, !.offer = 0,
                 !.reoffer = FALSE, !.unknown = Nil, !.receipts = << >>, !.extra = Nil] \in Passages
    BY <1>1, <1>2 DEF Passages
<1>6. pm.cost + Stores \in Nat
    BY DEF Passages, Stores
<1>7. [pm EXCEPT !.groups = Aboard, !.cost = pm.cost + Stores] \in Passages
    BY <1>1, <1>6 DEF Passages
<1>8. [pm EXCEPT !.groups = Aboard, !.cost = @ + Stores] = [pm EXCEPT !.groups = Aboard, !.cost = pm.cost + Stores]
    OBVIOUS
<1>9. \A i \in Nat : [pm EXCEPT !.groups = Aboard, !.offer = i] \in Passages
    BY <1>1 DEF Passages
<1>10. QED
    BY <1>3, <1>4, <1>5, <1>7, <1>8, <1>9

LEMMA NewTypes ==
    ASSUME FareInv
    PROVE  /\ [NewMission EXCEPT !.groups = Aboard] \in Passages
           /\ \A i \in Nat, f \in Nat : [NewMission EXCEPT !.offer = i, !.fare = f] \in Passages
           /\ [NewMission EXCEPT !.fare = 2, !.abandon = FALSE, !.cost = 1] \in Passages
<1>1. Aboard \subseteq Group /\ pw.port \in Nat /\ pw.now \in Nat /\ pg.gen \in Nat
    BY WorldTypes DEF FareInv, BookTypes
<1>2. << >> \in Seq(Fares)
    OBVIOUS
<1>3. NewMission \in Passages
    BY <1>1, <1>2 DEF NewMission, Passages
<1>4. PICK m \in Passages : m = NewMission
    BY <1>3
<1>5. [m EXCEPT !.groups = Aboard] \in Passages
    BY <1>1 DEF Passages
<1>6. \A i \in Nat, f \in Nat : [m EXCEPT !.offer = i, !.fare = f] \in Passages
    BY DEF Passages
<1>7. [m EXCEPT !.fare = 2, !.abandon = FALSE, !.cost = 1] \in Passages
    BY DEF Passages
<1>8. QED
    BY <1>4, <1>5, <1>6, <1>7

-----------------------------------------------------------------------------
(* The invariant *)

Booked(a, k)    == Sum(RowsOf(a, k))
Recovered(a, k) == \E r \in a.rows : r.id = <<"recovery", k>>
Rested(a, k)    == \E r \in RowsOf(a, k) : r.id = <<"rest", k>>
Plain(m)        == ~m.q /\ ~m.recovery

\* The groups of the mission share a voyage.
Company == pm # Nil => \A g, h \in pm.groups : TripOf(g) = TripOf(h)

\* A mission that was not set apart: it booked nothing before its receipts,
\* which carry what it spent, or its completion, which does.
PlainCosts(m, a, had) ==
    LET R == RowsOf(a, m.gen)
    IN  /\ a.arch[m.gen] = Nil /\ m.groups = had[m.gen]
        /\ m.unknown # Nil => m.unknown.cost = m.cost /\ m.unknown.st = "open" /\ m.receipts = << >>
        /\ a.rec[m.gen] # Nil => m.unknown # Nil /\ a.rec[m.gen].cost = m.cost
        /\ m.receipts = << >> /\ R # {} => a.rec[m.gen] # Nil /\ R = {RestRow(a.rec[m.gen])}
        /\ m.receipts # << >> => R \subseteq Range(m.receipts) /\ Sum(Range(m.receipts)) = m.cost

\* A mission knows what it spent.  One that was set apart has booked all of it,
\* and so has a recovery that knows what it adds, unless a recovery of the
\* passage suffered a setback.
ApartCosts(m, a, spent, again) ==
    LET k == m.gen
    IN  /\ m.recovery => a.arch[k] # Nil /\ ~m.q /\ a.rec[k] = Nil
        /\ m.recovery /\ m.extra # Nil => RecoveryRow(k, m.extra) \in a.rows
        /\ a.arch[k] # Nil /\ k \notin again =>
              /\ m.q \/ m.extra # Nil => Booked(a, k) = spent[k]
              /\ m.q \/ m.extra = Nil => ~Recovered(a, k)
        /\ m.q /\ a.rec[k] # Nil /\ a.arch[k] = Nil => Booked(a, k) = spent[k]
MissionCosts(m, a, spent, again, had) ==
    /\ m.cost = spent[m.gen]
    /\ ApartCosts(m, a, spent, again)
    /\ Plain(m) => PlainCosts(m, a, had)

\* A completion without fares is begun with an empty hold, which stays empty.
Closing     == (Plain(pm) /\ pm.unknown # Nil) \/ acc.rec[pm.gen] # Nil
HoldEmptied == pw.ship = "port" /\ Open = {} /\ Aboard = {} /\ pm.act = Nil /\ pm.groups # {}
MissionBooked ==
    pm # Nil => MissionCosts(pm, acc, pg.spent, pg.again, pg.had) /\ (Closing => HoldEmptied)

\* A passage without its mission has booked what it spent, a completion without
\* fares is booked unless its mission is still at it, and what is to come has
\* no archive.
GenTrue(k) ==
    /\ k <= pg.gen /\ ~MissionOf(k) /\ pg.had[k] # {} /\ k \notin pg.again => Booked(acc, k) = pg.spent[k]
    /\ acc.rec[k] # Nil =>
          \/ Rested(acc, k)
          \/ MissionOf(k) /\ Plain(pm) /\ Waits /\ acc.rec[k].st = "open" /\ ~HasRest(acc, k)
    /\ k > pg.gen => acc.arch[k] = Nil

CostInv ==
    /\ Typed /\ Company /\ Books(acc, pg.spent) /\ MissionBooked
    /\ \A k \in Gen : GenTrue(k)

-----------------------------------------------------------------------------
(* The shares of a batch *)

LEMMA PairSize == ASSUME NEW x, NEW y PROVE IsFiniteSet({x, y}) /\ Cardinality({x, y}) \in {1, 2}
<1>1. IsFiniteSet({x}) /\ Cardinality({x}) = 1 /\ {x, y} = {x} \cup {y}
    BY FS_Singleton
<1>2. CASE y \in {x}
  <2>1. {x, y} = {x}
      BY <1>2
  <2>2. QED
      BY <1>1, <2>1
<1>3. CASE y \notin {x}
    BY <1>1, <1>3, FS_AddElement
<1>4. QED
    BY <1>2, <1>3

\* Groups of one voyage are one or two.
LEMMA CompanySize ==
    ASSUME NEW gs \in SUBSET Group, gs # {}, \A g, h \in gs : TripOf(g) = TripOf(h)
    PROVE  IsFiniteSet(gs) /\ Cardinality(gs) \in {1, 2} /\ \E x, y \in gs : gs = {x, y}
<1>1. \E x, y \in gs : gs = {x, y}
  <2>1. PICK x \in gs : TRUE
      OBVIOUS
  <2>2. CASE \E y \in gs : y # x
    <3>1. PICK y \in gs : y # x
        BY <2>2
    <3>2. ASSUME NEW z \in gs, z # x, z # y PROVE FALSE
      <4>1. TripOf(x) = TripOf(y) /\ TripOf(x) = TripOf(z)
          BY <2>1, <3>1
      <4>2. x \in {"a", "b", "c"} /\ y \in {"a", "b", "c"} /\ z \in {"a", "b", "c"} /\ x # y
          BY <2>1, <3>1 DEF Group
      <4>3. QED
          BY <3>2, <4>1, <4>2 DEF TripOf
    <3>3. gs = {x, y}
        BY <2>1, <3>1, <3>2
    <3>4. QED
        BY <2>1, <3>1, <3>3
  <2>3. CASE ~\E y \in gs : y # x
    <3>1. gs = {x, x}
        BY <2>3
    <3>2. QED
        BY <3>1
  <2>4. QED
      BY <2>2, <2>3
<1>2. PICK x \in gs, y \in gs : gs = {x, y}
    BY <1>1
<1>3. IsFiniteSet({x, y}) /\ Cardinality({x, y}) \in {1, 2}
    BY PairSize
<1>4. QED
    BY <1>1, <1>2, <1>3

\* The receipts of one or two events carry the costs of the passage.
LEMMA PreparedCosts ==
    ASSUME FareInv, Typed, pm # Nil, NEW E \in SUBSET evs, NEW up, Cardinality(E) \in {1, 2},
           NEW rs, rs = Receipts(E, up)
    PROVE  rs \in Seq(Fares) /\ rs # << >> /\ Costed(Range(rs)) /\ Sum(Range(rs)) = pm.cost
<1> DEFINE s == SetToSeq(E)
           n == Cardinality(E)
<1>1. IsFiniteSet(E) /\ \A e, f \in evs : e.gs = f.gs /\ e.n = f.n => e = f
    BY FS_Subset DEF FareInv, EventsTrue
<1>2. n \in {1, 2} /\ s \in [1..n -> E] /\ Len(s) = n /\ \A i, j \in 1..n : s[i] = s[j] => i = j
    BY <1>1, Listed
<1>3. pm \in Passages /\ \A e \in E : e.n \in {1, 2} /\ e.gs \subseteq Group
    BY DEF Typed
<1> HIDE DEF s, n
<1>4. pm.cost \in Nat /\ pm.gen \in Nat
    BY <1>3 DEF Passages
<1> DEFINE c(i) == Shares(n, pm.cost, up)[i]
<1>5. /\ \A i \in 1..n : c(i) \in Nat
      /\ n = 1 => c(1) = pm.cost
      /\ n = 2 => c(1) + c(2) = pm.cost
  <2>1. CASE n = 1
      BY <1>4, <2>1 DEF Shares
  <2>2. CASE n = 2
    <3> DEFINE first == IF up THEN (pm.cost + 1) \div 2 ELSE pm.cost \div 2
    <3>1. first \in Nat /\ first <= pm.cost
        BY <1>4
    <3> HIDE DEF first
    <3>2. Shares(n, pm.cost, up) = <<first, pm.cost - first>>
        BY <2>2 DEF Shares, first
    <3>3. c(1) = first /\ c(2) = pm.cost - first
        BY <3>2
    <3>4. QED
        BY <1>4, <2>2, <3>1, <3>3
  <2>3. QED
      BY <1>2, <2>1, <2>2
<1> HIDE DEF c
<1>6. rs = [i \in 1..n |-> [id |-> <<"fare", s[i].gs, s[i].n>>, gen |-> pm.gen, ev |-> {<<s[i].gs, s[i].n>>},
                            cost |-> c(i), known |-> TRUE]]
    BY <1>2 DEF Receipts, s, c
<1>7. ASSUME NEW i \in 1..n PROVE rs[i] \in Fares /\ rs[i].cost = c(i) /\ rs[i].id = <<"fare", s[i].gs, s[i].n>>
  <2>1. s[i].gs \in SUBSET Group /\ s[i].n \in {1, 2}
      BY <1>2, <1>3
  <2>2. <<"fare", s[i].gs, s[i].n>> \in {"fare"} \X (SUBSET Group) \X {1, 2} /\ <<s[i].gs, s[i].n>> \in (SUBSET Group) \X {1, 2}
      BY <2>1
  <2>3. QED
      BY <1>4, <1>5, <1>6, <2>2 DEF Fares
<1>8. rs \in [1..n -> Fares] /\ n \in Nat
  <2>1. rs = [i \in 1..n |-> rs[i]]
      BY <1>6
  <2>2. QED
      BY <1>2, <1>7, <2>1
<1>9. rs \in Seq(Fares) /\ Len(rs) = n /\ rs # << >>
    BY <1>2, <1>8
<1>10. CASE n = 1
  <2>1. Range(rs) = {rs[1]}
      BY <1>8, <1>10 DEF Range
  <2>2. Costed({}) /\ rs[1].cost \in Nat /\ rs[1].cost = pm.cost
      BY <1>5, <1>7, <1>10, FS_EmptySet DEF Costed
  <2>3. Sum({} \cup {rs[1]}) = Sum({}) + rs[1].cost /\ Costed({} \cup {rs[1]})
      BY <2>2, SumPlus
  <2>4. {} \cup {rs[1]} = {rs[1]}
      OBVIOUS
  <2>5. Sum({rs[1]}) = pm.cost /\ Costed({rs[1]})
      BY <1>4, <2>2, <2>3, <2>4, SumNone
  <2>6. QED
      BY <1>9, <2>1, <2>5
<1>11. CASE n = 2
  <2>1. Range(rs) = {rs[1]} \cup {rs[2]}
    <3>1. DOMAIN rs = {1, 2}
        BY <1>8, <1>11
    <3>2. QED
        BY <3>1 DEF Range
  <2>2. rs[1] # rs[2]
    <3>1. s[1] # s[2] /\ s[1] \in evs /\ s[2] \in evs
        BY <1>2, <1>11
    <3>2. <<"fare", s[1].gs, s[1].n>> # <<"fare", s[2].gs, s[2].n>>
        BY <1>1, <3>1
    <3>3. QED
        BY <1>7, <1>11, <3>2
  <2>3. Costed({}) /\ rs[1].cost \in Nat /\ rs[2].cost \in Nat /\ rs[1].cost + rs[2].cost = pm.cost
      BY <1>5, <1>7, <1>11, FS_EmptySet DEF Costed
  <2>4. Sum({} \cup {rs[1]}) = Sum({}) + rs[1].cost /\ Costed({} \cup {rs[1]})
      BY <2>3, SumPlus
  <2>5. {} \cup {rs[1]} = {rs[1]}
      OBVIOUS
  <2>6. Sum({rs[1]}) = rs[1].cost /\ Costed({rs[1]}) /\ rs[2] \notin {rs[1]}
      BY <2>2, <2>3, <2>4, <2>5, SumNone
  <2>7. Sum({rs[1]} \cup {rs[2]}) = Sum({rs[1]}) + rs[2].cost /\ Costed({rs[1]} \cup {rs[2]})
      BY <2>3, <2>6, SumPlus
  <2>8. QED
      BY <1>9, <2>1, <2>3, <2>6, <2>7
<1>12. QED
    BY <1>2, <1>10, <1>11

\* What becomes of fare events that came together.
LEMMA ReceiptChoices ==
    ASSUME FareInv, Typed, Company, SyncReceipts
    PROVE  \/ QuarantinePassage(pm, acc) /\ UNCHANGED <<pw, evs>>
           \/ \E E \in SUBSET evs, up \in BOOLEAN : Cardinality(E) \in {1, 2} /\ Prepare(E, up)
<1> DEFINE gs == pm.groups
           terminal(g) == TerminalOf(gs, pm.start, g)
           batch == BatchTerminal(gs, pm.start)
<1>1. pm # Nil /\ pm.groups # {} /\ pm \in Passages
    BY DEF SyncReceipts, Driven, Typed
<1>2. gs \in SUBSET Group /\ \A g, h \in gs : TripOf(g) = TripOf(h)
    BY <1>1 DEF Passages, Company
<1>3. Cardinality(gs) \in {1, 2} /\ \E x, y \in gs : gs = {x, y}
    BY <1>1, <1>2, CompanySize
<1>4. IsFiniteSet(evs)
    BY DEF FareInv, EventsTrue
<1>5. CASE Prepare(UNION {terminal(g) : g \in gs}, TRUE) /\ (\A g \in gs : terminal(g) # {})
           /\ ~\E g \in gs : Cardinality(terminal(g)) > 1
  <2>1. \A g : terminal(g) \in SUBSET evs
      BY DEF TerminalOf, Known
  <2> HIDE DEF terminal
  <2>2. ASSUME NEW g \in gs PROVE \E e \in evs : terminal(g) = {e}
    <3>1. IsFiniteSet(terminal(g)) /\ Cardinality(terminal(g)) \in Nat /\ terminal(g) # {}
        BY <1>4, <1>5, <2>1, FS_Subset, FS_CardinalityType
    <3>2. Cardinality(terminal(g)) # 0
        BY <3>1, FS_EmptySet
    <3>3. Cardinality(terminal(g)) = 1
        BY <1>5, <3>1, <3>2
    <3>4. PICK e : terminal(g) = {e}
        BY <3>1, <3>3, FS_Singleton
    <3>5. QED
        BY <2>1, <3>4
  <2>3. PICK x \in gs, y \in gs : gs = {x, y}
      BY <1>3
  <2>4. PICK e \in evs, f \in evs : terminal(x) = {e} /\ terminal(y) = {f}
      BY <2>2
  <2>5. UNION {terminal(g) : g \in gs} = {e, f}
      BY <2>3, <2>4
  <2>6. Cardinality({e, f}) \in {1, 2} /\ Prepare({e, f}, TRUE) /\ {e, f} \in SUBSET evs
      BY <1>5, <2>5, PairSize
  <2>7. QED
      BY <2>6
<1>6. CASE Prepare(batch, FALSE) /\ ~(Cardinality(batch) > Cardinality(gs))
           /\ (Cardinality(batch) = Cardinality(gs) \/ WholeShipLoss(batch))
  <2>1. batch \in SUBSET evs
      BY DEF BatchTerminal, Known
  <2> HIDE DEF batch
  <2>2. IsFiniteSet(batch) /\ Cardinality(batch) \in Nat /\ (Cardinality(batch) = 0 => batch = {})
      BY <1>4, <2>1, FS_Subset, FS_CardinalityType, FS_EmptySet
  <2>3. Cardinality(batch) \in {1, 2}
      BY <1>3, <1>6, <2>2 DEF WholeShipLoss
  <2>4. QED
      BY <1>6, <2>1, <2>3
<1>7. QED
    BY <1>5, <1>6 DEF SyncReceipts

-----------------------------------------------------------------------------
(* The steps *)

\* What a passage that was set apart carries: its archive and one recovery.
LEMMA SumMarked ==
    ASSUME NEW a, NEW spent, Books(a, spent), NEW k \in Gen, a.arch[k] # Nil
    PROVE  /\ ~Recovered(a, k) => Booked(a, k) = a.arch[k]
           /\ \A x \in a.rows : x.id = <<"recovery", k>> => Booked(a, k) = a.arch[k] + x.cost /\ x.cost \in Nat
           /\ a.arch[k] \in Nat /\ a.arch[k] <= spent[k] /\ Booked(a, k) <= spent[k]
<1> DEFINE R == RowsOf(a, k)
           U == Unrecovered(R, k)
<1>1. Costed(R) /\ Costed(U) /\ Sum(U) \in Nat /\ a.arch[k] \in Nat /\ spent[k] \in Nat /\ GenOK(R, a.arch[k], spent[k], k)
    BY RowsCosted
<1>2. Sum(U) = a.arch[k] /\ a.arch[k] <= spent[k]
    BY <1>1 DEF GenOK
<1>3. ~Recovered(a, k) => U = R
    BY DEF Recovered, Unrecovered, RowsOf
<1>4. ASSUME NEW x \in a.rows, x.id = <<"recovery", k>>
      PROVE  Sum(R) = a.arch[k] + x.cost /\ x.cost \in Nat /\ a.arch[k] + x.cost <= spent[k]
  <2>1. x.gen = k
    <3>1. <<"recovery", k>> \in Marker(k)
        BY Markers
    <3>2. QED
        BY <1>4, <3>1 DEF Books
  <2>2. x \in R /\ x \notin U
      BY <1>4, <2>1 DEF RowsOf, Unrecovered
  <2>3. \A r \in R : r.id = <<"recovery", k>> => r = x
      BY <1>1, <1>4, <2>2 DEF GenOK
  <2>4. R = U \cup {x}
      BY <2>2, <2>3 DEF Unrecovered
  <2>5. x.cost \in Nat
      BY <1>1, <2>2 DEF Costed
  <2>6. Sum(U \cup {x}) = Sum(U) + x.cost
      BY <1>1, <2>2, <2>5, SumPlus
  <2>7. a.arch[k] + x.cost <= spent[k]
      BY <1>1, <1>4, <2>2 DEF GenOK
  <2>8. QED
      BY <1>2, <2>4, <2>5, <2>6, <2>7
<1>5. QED
    BY <1>1, <1>2, <1>3, <1>4 DEF Booked, Recovered

LEMMA BookedNat ==
    ASSUME NEW a, NEW spent, Books(a, spent), NEW k \in Gen
    PROVE  Booked(a, k) \in Nat /\ Booked(a, k) <= spent[k] /\ spent[k] \in Nat
<1>1. CASE a.arch[k] = Nil
    BY <1>1, RowsCosted DEF Booked, GenOK
<1>2. CASE a.arch[k] # Nil
    BY <1>2, RowsCosted, SumMarked DEF Booked
<1>3. QED
    BY <1>1, <1>2

\* The invariant is what PassageCostedOnce says, and more.
LEMMA CostsOnce == CostInv => PassageCostedOnce
<1>1. SUFFICES ASSUME CostInv PROVE PassageCostedOnce
    OBVIOUS
<1>2. ASSUME NEW k \in Gen
      PROVE  /\ Booked(acc, k) <= pg.spent[k]
             /\ (k <= pg.gen /\ ~MissionOf(k) /\ pg.had[k] # {} /\ k \notin pg.again) => Booked(acc, k) = pg.spent[k]
    BY <1>1, BookedNat DEF CostInv, GenTrue
<1>3. QED
    BY <1>2 DEF PassageCostedOnce, Booked, RowsOf

\* Before its first mission a company has booked and spent nothing.
LEMMA InitCosts == PassengersInit => CostInv
<1>1. SUFFICES ASSUME PassengersInit PROVE CostInv
    OBVIOUS
<1>2. /\ pm = Nil /\ evs = {} /\ acc = [rows |-> {}, rec |-> [k \in Gen |-> Nil], arch |-> [k \in Gen |-> Nil]]
      /\ pg = [gen |-> 0, spent |-> [k \in Gen |-> 0], had |-> [k \in Gen |-> {}], again |-> {}, faults |-> 0]
    BY <1>1 DEF PassengersInit
<1>3. Typed /\ Company /\ MissionBooked
    BY <1>2 DEF Typed, Company, MissionBooked
<1>4. Books(acc, pg.spent)
  <2>1. acc.rows = {} /\ acc.arch = [k \in Gen |-> Nil] /\ pg.spent = [k \in Gen |-> 0]
      BY <1>2
  <2>2. Costed(acc.rows)
      BY <2>1, FS_EmptySet DEF Costed
  <2>3. \A k \in Gen : RowsOf(acc, k) = {}
      BY <2>1 DEF RowsOf
  <2>4. \A k \in Gen : GenOK(RowsOf(acc, k), acc.arch[k], pg.spent[k], k)
    <3>1. ASSUME NEW k \in Gen PROVE GenOK({}, Nil, 0, k)
        BY SumNone DEF GenOK
    <3>2. QED
        BY <2>1, <2>3, <3>1
  <2>5. acc.arch \in [Gen -> Nat \cup {Nil}] /\ pg.spent \in [Gen -> Nat]
      BY <2>1
  <2>6. QED
      BY <2>1, <2>2, <2>4, <2>5 DEF Books
<1>5. ASSUME NEW k \in Gen PROVE GenTrue(k)
    BY <1>2 DEF GenTrue
<1>6. QED
    BY <1>3, <1>4, <1>5 DEF CostInv

\* The step books nothing, and the passages stay what they are.
Counts == acc' = acc /\ pg'.gen = pg.gen /\ pg'.spent = pg.spent /\ pg'.had = pg.had /\ pg'.again = pg.again

\* The step concerns one passage, that of the mission.
Elsewhere(k) ==
    /\ pg'.gen = pg.gen
    /\ \A j \in Gen : j # k =>
          /\ pg'.had[j] = pg.had[j] /\ pg'.spent[j] = pg.spent[j] /\ (j \in pg.again => j \in pg'.again)
          /\ RowsOf(acc', j) = RowsOf(acc, j) /\ acc'.rec[j] = acc.rec[j] /\ acc'.arch[j] = acc.arch[j]

\* A step that concerns one passage leaves the books of the others true.
LEMMA GensKept ==
    ASSUME CostInv, pm # Nil, NEW k \in Gen, pm.gen = k, pm' # Nil => pm'.gen = k, Elsewhere(k), GenTrue(k)'
    PROVE  \A j \in Gen : GenTrue(j)'
<1>1. SUFFICES ASSUME NEW j \in Gen, j # k PROVE GenTrue(j)'
    OBVIOUS
<1>2. GenTrue(j)
    BY DEF CostInv
<1>3. ~MissionOf(j) /\ ~MissionOf(j)'
    BY <1>1 DEF MissionOf
<1>4. /\ pg'.gen = pg.gen /\ pg'.had[j] = pg.had[j] /\ pg'.spent[j] = pg.spent[j] /\ (j \in pg.again => j \in pg'.again)
      /\ RowsOf(acc', j) = RowsOf(acc, j) /\ acc'.rec[j] = acc.rec[j] /\ acc'.arch[j] = acc.arch[j]
    BY <1>1 DEF Elsewhere
<1>5. Booked(acc, j)' = Booked(acc, j) /\ Rested(acc, j)' = Rested(acc, j)
    BY <1>4 DEF Booked, Rested
<1>6. QED
    BY <1>2, <1>3, <1>4, <1>5 DEF GenTrue

LEMMA CountsElsewhere == ASSUME Counts, NEW k PROVE Elsewhere(k)
BY DEF Counts, Elsewhere

\* The passage of a mission has begun, and its books are true.
LEMMA MissionGen ==
    ASSUME FareInv, CostInv, pm # Nil
    PROVE  pm \in Passages /\ pm.gen \in Gen /\ pm.gen <= pg.gen /\ ~(pm.gen > pg.gen) /\ GenTrue(pm.gen)
<1>1. pm.gen \in Gen /\ pm.gen <= pg.gen /\ pg.gen \in Nat /\ pm.gen \in Nat
    BY FareGens, PassengersAssumption DEF Gen
<1>2. QED
    BY <1>1 DEF CostInv, Typed

\* A request, or another offer: the mission has booked what it had booked.
LEMMA LikeStep ==
    ASSUME FareInv, CostInv, Counts, Typed', pm # Nil, pm' \in Passages, Like(pm', pm),
           Closing => HoldEmptied' /\ (Waits => Waits')
    PROVE  CostInv'
<1> DEFINE k == pm.gen
<1>1. pm \in Passages /\ k \in Gen /\ k <= pg.gen /\ GenTrue(k) /\ pm' # Nil /\ pm'.gen = k
    BY MissionGen, PassengersNil DEF Like
<1>2. Books(acc, pg.spent)' /\ Company'
    BY <1>1 DEF CostInv, Counts, Company, Like, TripOf
<1>3. Plain(pm') = Plain(pm)
    BY DEF Like, Plain
<1>4. MissionBooked'
  <2>1. MissionCosts(pm, acc, pg.spent, pg.again, pg.had) /\ (Closing => HoldEmptied)
      BY DEF CostInv, MissionBooked
  <2>2. ApartCosts(pm', acc, pg.spent, pg.again)
      BY <2>1 DEF MissionCosts, ApartCosts, Like
  <2>3. Plain(pm') => PlainCosts(pm', acc, pg.had)
      BY <1>3, <2>1 DEF MissionCosts, PlainCosts, Like
  <2>4. MissionCosts(pm', acc, pg.spent, pg.again, pg.had)
      BY <2>1, <2>2, <2>3 DEF MissionCosts, Like
  <2>5. Closing' => Closing
      BY <1>3 DEF Closing, Counts, Like
  <2>6. QED
      BY <2>4, <2>5 DEF MissionBooked, Counts
<1>5. GenTrue(k)'
  <2>1. MissionOf(k) /\ MissionOf(k)'
      BY <1>1 DEF MissionOf
  <2>2. acc.rec[k] # Nil /\ Waits => Waits'
      BY DEF Closing
  <2>3. QED
      BY <1>1, <1>3, <2>1, <2>2 DEF GenTrue, Counts
<1>6. \A j \in Gen : GenTrue(j)'
    BY <1>1, <1>5, CountsElsewhere, GensKept
<1>7. QED
    BY <1>2, <1>4, <1>6 DEF CostInv

\* Nothing happens to the ship's books while it has no mission.
LEMMA NoMissionStep ==
    ASSUME FareInv, CostInv, Counts, Typed', pm = Nil, pm' = Nil
    PROVE  CostInv'
<1>1. Books(acc, pg.spent)' /\ Company' /\ MissionBooked'
    BY DEF CostInv, Counts, Company, MissionBooked
<1>2. ASSUME NEW k \in Gen PROVE GenTrue(k)'
  <2>1. GenTrue(k)
      BY DEF CostInv
  <2>2. QED
      BY <2>1 DEF GenTrue, Counts, MissionOf
<1>3. QED
    BY <1>1, <1>2 DEF CostInv

\* A mission at the port of departure is not closing, nor one with a request.
LEMMA NotClosing ==
    ASSUME CostInv, pm # Nil, pm.act # Nil \/ (Plain(pm) /\ pm.unknown = Nil)
    PROVE  ~Closing /\ acc.rec[pm.gen] = Nil
<1>1. MissionCosts(pm, acc, pg.spent, pg.again, pg.had) /\ (Closing => HoldEmptied)
    BY DEF CostInv, MissionBooked
<1>2. CASE pm.act # Nil
    BY <1>1, <1>2 DEF HoldEmptied, Closing
<1>3. CASE Plain(pm) /\ pm.unknown = Nil
    BY <1>1, <1>3 DEF MissionCosts, PlainCosts, Closing
<1>4. QED
    BY <1>2, <1>3

\* A mission without groups is given up.
LEMMA GivenUp ==
    ASSUME FareInv, CostInv, Counts, Typed', pm # Nil, Plain(pm), pm.unknown = Nil, pm.groups = {}, pm' = Nil
    PROVE  CostInv'
<1>1. PICK k \in Gen : k = pm.gen /\ k <= pg.gen /\ GenTrue(k)
    BY MissionGen
<1>2. Books(acc, pg.spent)' /\ Company' /\ MissionBooked'
    BY DEF CostInv, Counts, Company, MissionBooked
<1>3. pg.had[k] = {} /\ acc.rec[k] = Nil
    BY <1>1, NotClosing DEF CostInv, MissionBooked, MissionCosts, PlainCosts
<1>4. GenTrue(k)'
    BY <1>1, <1>3 DEF GenTrue, Counts
<1>5. \A j \in Gen : GenTrue(j)'
    BY <1>1, <1>4, CountsElsewhere, GensKept
<1>6. QED
    BY <1>2, <1>5 DEF CostInv

\* What a mission does at the port of departure.
LEMMA HomeCosts ==
    ASSUME FareInv, CostInv,
           \/ AdoptOffer \/ CancelUnsafe \/ BetterPlan \/ CancelToSail \/ CloseOut \/ OfferEnded
           \/ PostOffer \/ QuoteFails \/ Reprice
    PROVE  CostInv'
<1>1. pm # Nil /\ Plain(pm) /\ pm.unknown = Nil
    BY DEF AdoptOffer, CancelUnsafe, BetterPlan, CancelToSail, CloseOut, OfferEnded, PostOffer, QuoteFails, Reprice,
           Ours, AtOrigin, Here, Idle, Driven, Plain
<1>2. Keeps
    BY DEF AdoptOffer, CancelUnsafe, BetterPlan, CancelToSail, CloseOut, OfferEnded, PostOffer, QuoteFails, Reprice,
           DeleteMission
<1>3. Counts /\ evs' = evs /\ ~Closing
    BY <1>1, <1>2, NotClosing DEF Counts, Keeps
<1>4. (pm' \in Passages /\ Like(pm', pm)) \/ (pm' = Nil /\ pm.groups = {})
    BY HomeTypes DEF CostInv
<1>5. Typed'
    BY <1>3, <1>4 DEF CostInv, Typed
<1>6. QED
    BY <1>1, <1>3, <1>4, <1>5, LikeStep, GivenUp

\* A request is answered, and what it did is found out.
LEMMA AnswerCosts ==
    ASSUME FareInv, CostInv,
           \/ Concludes \/ ReconcileOffer \/ ReconcileCancel \/ ReconcileDepart
           \/ ServerActs \/ RequestLost \/ ServerRefuses
    PROVE  CostInv'
<1>1. pm # Nil /\ pm.act # Nil
    BY DEF Concludes, ReconcileOffer, ReconcileCancel, ReconcileDepart, ServerActs, RequestLost, ServerRefuses,
           Answered, Pending
<1>2. Counts /\ evs' = evs
  <2>1. DOMAIN pg = {"gen", "spent", "had", "again", "faults"}
      BY DEF FareInv, BookTypes
  <2>2. CASE Concludes \/ ReconcileOffer \/ ReconcileCancel \/ ReconcileDepart
      BY <2>2 DEF Concludes, ReconcileOffer, ReconcileCancel, ReconcileDepart, Keeps, Rejected, Counts
  <2>3. CASE ServerActs \/ RequestLost \/ ServerRefuses
      BY <2>1, <2>3 DEF ServerActs, RequestLost, ServerRefuses, Counts
  <2>4. QED
      BY <2>2, <2>3
<1>3. pm' \in Passages /\ Like(pm', pm)
    BY AnswerTypes DEF CostInv
<1>4. Typed'
    BY <1>2, <1>3 DEF CostInv, Typed
<1>5. QED
    BY <1>1, <1>2, <1>3, <1>4, NotClosing, LikeStep

\* The mission looks on.
LEMMA WorldCosts ==
    ASSUME FareInv, CostInv, Counts, pm' = pm, Typed',
           pm # Nil /\ Closing /\ HoldEmptied => HoldEmptied' /\ (Waits => Waits')
    PROVE  CostInv'
<1>1. CASE pm = Nil
    BY <1>1, NoMissionStep
<1>2. CASE pm # Nil
  <2>1. pm' \in Passages /\ Like(pm', pm)
      BY <1>2, MissionGen DEF Like
  <2>2. Closing => HoldEmptied
      BY <1>2 DEF CostInv, MissionBooked
  <2>3. QED
      BY <1>2, <2>1, <2>2, LikeStep
<1>3. QED
    BY <1>1, <1>2

\* Groups board, and the ship arrives or sinks.
LEMMA ShipCosts ==
    ASSUME FareInv, CostInv,
           \/ \E g \in Coming : Boards(g)
           \/ OfferCloses \/ OtherOffer \/ Arrives \/ Sinks \/ Repeats \/ Recorded
    PROVE  CostInv'
<1>1. pm' = pm /\ acc' = acc /\ snap' = snap
    BY DEF Boards, OfferCloses, OtherOffer, Arrives, Sinks, Repeats, Recorded
<1>2. Counts
  <2>1. DOMAIN pg = {"gen", "spent", "had", "again", "faults"}
      BY DEF FareInv, BookTypes
  <2>2. pg' = pg \/ pg' = [pg EXCEPT !.faults = @ + 1]
      BY DEF Boards, OfferCloses, OtherOffer, Arrives, Sinks, Repeats, Recorded
  <2>3. QED
      BY <1>1, <2>1, <2>2 DEF Counts
<1>3. \A e \in evs : Event(e) /\ e.n \in {1, 2} /\ e.gs \subseteq Group
    BY DEF FareInv, EventsTrue, CostInv, Typed
<1>4. \A e \in evs' : e.n \in {1, 2} /\ e.gs \subseteq Group
  <2>1. CASE evs' = evs
      BY <1>3, <2>1
  <2>2. CASE Arrives \/ Sinks
    <3>1. Aboard \subseteq Group
        BY WorldTypes
    <3>2. ASSUME NEW e \in evs', e \notin evs PROVE e.n = 1 /\ e.gs \subseteq Aboard
        BY <2>2, <3>2 DEF Arrives, Sinks, FareEvent
    <3>3. QED
        BY <1>3, <3>1, <3>2
  <2>3. CASE Repeats
    <3>1. PICK e \in evs : evs' = evs \cup {[e EXCEPT !.n = 2, !.rec = Nil]}
        BY <2>3 DEF Repeats
    <3>2. PICK x : x = [e EXCEPT !.n = 2, !.rec = Nil]
        OBVIOUS
    <3>3. x.n = 2 /\ x.gs = e.gs
        BY <1>3, <3>2 DEF Event
    <3>4. QED
        BY <1>3, <3>1, <3>2, <3>3
  <2>4. CASE Recorded
    <3>1. PICK e \in evs : evs' = (evs \ {e}) \cup {[e EXCEPT !.rec = pw.now]}
        BY <2>4 DEF Recorded
    <3>2. PICK x : x = [e EXCEPT !.rec = pw.now]
        OBVIOUS
    <3>3. x.n = e.n /\ x.gs = e.gs
        BY <1>3, <3>2 DEF Event
    <3>4. QED
        BY <1>3, <3>1, <3>2, <3>3
  <2>5. QED
      BY <2>1, <2>2, <2>3, <2>4 DEF Boards, OfferCloses, OtherOffer
<1>5. Typed'
    BY <1>1, <1>4 DEF CostInv, Typed
<1>6. pm # Nil /\ HoldEmptied => HoldEmptied'
  <2>1. CASE Repeats \/ Recorded
      BY <1>1, <2>1 DEF Repeats, Recorded, HoldEmptied, Open, Aboard, Coming
  <2>2. CASE Arrives \/ Sinks
      BY <2>2 DEF Arrives, Sinks, HoldEmptied
  <2>3. CASE OtherOffer
      BY <2>3 DEF OtherOffer, HoldEmptied
  <2>4. CASE OfferCloses \/ \E g \in Coming : Boards(g)
      BY <2>4 DEF OfferCloses, Boards, HoldEmptied
  <2>5. QED
      BY <2>1, <2>2, <2>3, <2>4
<1>7. Waits' = Waits
    BY <1>1 DEF Waits
<1>8. QED
    BY <1>1, <1>2, <1>5, <1>6, <1>7, WorldCosts

\* Waits and captures book nothing.
LEMMA WaitCosts ==
    ASSUME FareInv, CostInv, BeginWait \/ CaptureStale \/ SweepWait \/ UNCHANGED pvars
    PROVE  CostInv'
<1>1. pm' = pm /\ acc' = acc /\ pw' = pw /\ evs' = evs
    BY DEF BeginWait, CaptureStale, SweepWait, pvars
<1>2. Counts
  <2>1. DOMAIN pg = {"gen", "spent", "had", "again", "faults"}
      BY DEF FareInv, BookTypes
  <2>2. pg' = pg \/ pg' = [pg EXCEPT !.faults = @ + 1]
      BY DEF BeginWait, CaptureStale, SweepWait, pvars
  <2>3. QED
      BY <1>1, <2>1, <2>2 DEF Counts
<1>3. Typed' /\ (HoldEmptied => HoldEmptied')
    BY <1>1 DEF CostInv, Typed, HoldEmptied, Open, Aboard, Coming
<1>4. CASE BeginWait \/ CaptureStale
  <2>1. pm # Nil /\ Plain(pm) /\ pm.unknown = Nil
      BY <1>4 DEF BeginWait, CaptureStale, Here, Idle, Driven, Plain
  <2>2. QED
      BY <1>1, <1>2, <1>3, <2>1, NotClosing, WorldCosts
<1>5. CASE SweepWait \/ UNCHANGED pvars
  <2>1. Waits => Waits'
      BY <1>1, <1>5 DEF SweepWait, pvars, Waits, Swept
  <2>2. QED
      BY <1>1, <1>2, <1>3, <2>1, WorldCosts
<1>6. QED
    BY <1>4, <1>5

\* A mission buys stores before it sails.
LEMMA SpendCosts ==
    ASSUME FareInv, CostInv, Typed', Company', pm # Nil, acc' = acc, Spend, ~pm.q, ~Closing,
           pm' \in Passages, pm'.gen = pm.gen, pm'.cost = pm.cost + Stores, pm'.q = pm.q, pm'.recovery = pm.recovery,
           pm'.extra = pm.extra, pm'.unknown = pm.unknown, pm'.receipts = pm.receipts,
           Plain(pm) => pm'.groups = pm.groups /\ pm.unknown = Nil /\ pm.receipts = << >>
    PROVE  CostInv'
<1>1. PICK k \in Gen : k = pm.gen /\ k <= pg.gen /\ GenTrue(k)
    BY MissionGen
<1>2. /\ pm \in Passages /\ pm' # Nil /\ Books(acc, pg.spent) /\ MissionCosts(pm, acc, pg.spent, pg.again, pg.had)
      /\ acc.rec[k] = Nil
    BY <1>1, PassengersNil, MissionGen DEF CostInv, MissionBooked, Closing
<1>3. Stores \in Nat
    BY DEF Stores
<1>4. /\ pg'.gen = pg.gen /\ pg'.had = pg.had /\ pg'.spent = [pg.spent EXCEPT ![k] = @ + Stores]
      /\ pg'.again = pg.again \cup Again(pm.extra # Nil)
  <2>1. DOMAIN pg = {"gen", "spent", "had", "again", "faults"}
      BY DEF FareInv, BookTypes
  <2>2. QED
      BY <1>1, <2>1 DEF Spend
<1>5. pg.spent \in [Gen -> Nat]
    BY <1>2 DEF Books
<1>6. pg'.spent \in [Gen -> Nat] /\ pg'.spent[k] = pg.spent[k] + Stores /\ \A j \in Gen : j # k => pg'.spent[j] = pg.spent[j]
    BY <1>3, <1>4, <1>5
<1>7. Books(acc, pg.spent)'
  <2>1. GenOK(RowsOf(acc, k), acc.arch[k], pg'.spent[k], k)
    <3>1. GenOK(RowsOf(acc, k), acc.arch[k], pg.spent[k], k) /\ Costed(RowsOf(acc, k))
          /\ Sum(RowsOf(acc, k)) \in Nat /\ acc.arch[k] \in Nat \cup {Nil} /\ pg.spent[k] \in Nat
        BY <1>2, RowsCosted
    <3>2. PICK s \in Nat, t \in Nat : s = pg.spent[k] /\ t = pg'.spent[k] /\ s <= t
        BY <1>3, <1>5, <1>6
    <3>3. PICK R, arch : R = RowsOf(acc, k) /\ arch = acc.arch[k]
        OBVIOUS
    <3>4. GenOK(R, arch, s, k) /\ Sum(R) \in Nat /\ arch \in Nat \cup {Nil} /\ \A r \in R : r.cost \in Nat
        BY <3>1, <3>2, <3>3 DEF Costed
    <3>5. GenOK(R, arch, t, k)
        BY <3>2, <3>4 DEF GenOK
    <3>6. QED
        BY <3>2, <3>3, <3>5
  <2>2. Books(acc, pg'.spent)
    <3>1. Costed(acc.rows) /\ acc.arch \in [Gen -> Nat \cup {Nil}] /\ \A r \in acc.rows, j \in Gen : r.id \in Marker(j) => r.gen = j
        BY <1>2 DEF Books
    <3>2. QED
        BY <1>2, <1>6, <2>1, <3>1, BooksChange
  <2>3. QED
      BY <2>2
<1>8. MissionBooked'
  <2>1. pm'.cost = pg'.spent[k]
      BY <1>1, <1>2, <1>6 DEF MissionCosts
  <2>2. ApartCosts(pm', acc, pg'.spent, pg'.again)
    <3>1. k \notin pg'.again => k \notin pg.again /\ pm.extra = Nil
        BY <1>1, <1>4 DEF Again
    <3>2. QED
        BY <1>1, <1>2, <3>1 DEF MissionCosts, ApartCosts
  <2>3. Plain(pm') => PlainCosts(pm', acc, pg'.had)
      BY <1>1, <1>2, <1>4 DEF MissionCosts, PlainCosts, Plain
  <2>4. ~Closing'
      BY <1>1, <1>2 DEF Closing, Plain
  <2>5. QED
      BY <1>1, <2>1, <2>2, <2>3, <2>4 DEF MissionBooked, MissionCosts
<1>9. GenTrue(k)'
    BY <1>1, <1>2, <1>4 DEF GenTrue, MissionOf
<1>10. Elsewhere(k)
    BY <1>4, <1>6 DEF Elsewhere
<1>11. QED
    BY <1>1, <1>2, <1>7, <1>8, <1>9, <1>10, GensKept DEF CostInv

\* A mission sails.
LEMMA DepartCosts ==
    ASSUME FareInv, CostInv, Depart
    PROVE  CostInv'
<1>1. pm # Nil /\ ~pm.q /\ Plain(pm) /\ pm.unknown = Nil /\ pm.receipts = << >> /\ acc' = acc /\ evs' = evs /\ Spend
      /\ Stage([pm EXCEPT !.cost = @ + Stores], "depart", 0)
    BY DEF Depart, Ours, AtOrigin, Here, Idle, Driven, Plain
<1>2. pm \in Passages
    BY <1>1, MissionGen
<1>3. PICK m \in Passages : m = [pm EXCEPT !.cost = @ + Stores]
  <2>1. PICK cost \in Nat : cost = pm.cost + Stores
      BY <1>2 DEF Passages, Stores
  <2>2. [pm EXCEPT !.cost = cost] \in Passages
      BY <1>2 DEF Passages
  <2>3. QED
      BY <2>1, <2>2
<1>4. /\ m.gen = pm.gen /\ m.cost = pm.cost + Stores /\ m.q = pm.q /\ m.recovery = pm.recovery /\ m.extra = pm.extra
      /\ m.unknown = pm.unknown /\ m.receipts = pm.receipts /\ m.groups = pm.groups
    BY <1>2, <1>3 DEF Passages
<1>5. pm' \in Passages /\ Like(pm', m)
    BY <1>1, <1>3, StageTypes
<1>6. Typed' /\ Company'
    BY <1>1, <1>4, <1>5 DEF CostInv, Typed, Company, Like, TripOf
<1>7. QED
    BY <1>1, <1>4, <1>5, <1>6, NotClosing, SpendCosts DEF Like

\* The mission learns who boarded.
LEMMA LearnCosts ==
    ASSUME FareInv, CostInv, Here, NEW new \in SUBSET Group, Learn(new),
           \A g \in new : TripOf(g) = pm.trip
    PROVE  CostInv'
<1>1. pm # Nil /\ Plain(pm) /\ pm.unknown = Nil /\ pm.receipts = << >> /\ Straight
    BY DEF Here, Idle, Driven, Plain, Straight
<1>2. PICK k \in Gen : k = pm.gen /\ k <= pg.gen /\ GenTrue(k)
    BY <1>1, MissionGen
<1>3. /\ pm \in Passages /\ Books(acc, pg.spent) /\ MissionCosts(pm, acc, pg.spent, pg.again, pg.had) /\ ~Closing
      /\ acc.rec[k] = Nil
    BY <1>1, <1>2, NotClosing, MissionGen DEF CostInv, MissionBooked
<1>4. /\ pm' = [pm EXCEPT !.groups = @ \cup new] /\ acc' = acc /\ evs' = evs
      /\ pg' = [pg EXCEPT !.had[k] = @ \cup new]
    BY <1>2 DEF Learn
<1>5. /\ pm' \in Passages /\ pm'.groups = pm.groups \cup new
      /\ pm'.gen = pm.gen /\ pm'.cost = pm.cost /\ pm'.q = pm.q /\ pm'.recovery = pm.recovery /\ pm'.extra = pm.extra
      /\ pm'.unknown = pm.unknown /\ pm'.receipts = pm.receipts
    BY <1>3, <1>4 DEF Passages
<1>6. /\ pg'.gen = pg.gen /\ pg'.spent = pg.spent /\ pg'.again = pg.again
      /\ pg'.had[k] = pg.had[k] \cup new /\ \A j \in Gen : j # k => pg'.had[j] = pg.had[j]
    BY <1>4 DEF FareInv, BookTypes
<1>7. pm' # Nil
    BY <1>5, PassengersNil
<1>8. Typed' /\ Company' /\ Books(acc, pg.spent)'
  <2>1. \A g \in pm.groups : TripOf(g) = pm.trip
      BY <1>1 DEF FareInv, MissionTrue, GroupsTrue
  <2>2. \A g \in pm'.groups : TripOf(g) = pm.trip
      BY <1>5, <2>1
  <2>3. Company'
      BY <2>2 DEF Company, TripOf
  <2>4. QED
      BY <1>3, <1>4, <1>5, <1>6, <2>3 DEF CostInv, Typed
<1>9. MissionBooked'
  <2>1. ApartCosts(pm', acc, pg.spent, pg.again)
      BY <1>3, <1>5 DEF MissionCosts, ApartCosts
  <2>2. PlainCosts(pm', acc, pg'.had)
      BY <1>1, <1>2, <1>3, <1>5, <1>6 DEF MissionCosts, PlainCosts
  <2>3. ~Closing'
      BY <1>1, <1>2, <1>3, <1>4, <1>5 DEF Closing
  <2>4. QED
      BY <1>3, <1>4, <1>5, <1>6, <2>1, <2>2, <2>3 DEF MissionBooked, MissionCosts
<1>10. GenTrue(k)'
    BY <1>2, <1>3, <1>4, <1>5, <1>6, <1>7 DEF GenTrue, MissionOf
<1>11. Elsewhere(k)
    BY <1>4, <1>6 DEF Elsewhere
<1>12. QED
    BY <1>1, <1>2, <1>5, <1>8, <1>9, <1>10, <1>11, GensKept DEF CostInv

\* The mission learns who is aboard, from a capture or from one group.
LEMMA SyncCosts ==
    ASSUME FareInv, CostInv, SyncAboard \/ \E g \in Coming : SyncBoarded(g)
    PROVE  CostInv'
<1>1. Aboard \subseteq Group /\ Coming \subseteq Group
    BY WorldTypes
<1>2. CASE SyncAboard
    BY <1>1, <1>2, LearnCosts DEF SyncAboard
<1>3. ASSUME NEW g \in Coming, SyncBoarded(g) PROVE CostInv'
  <2>1. Here /\ Learn({g}) /\ {g} \in SUBSET Group /\ \A h \in {g} : TripOf(h) = pm.trip
      BY <1>1, <1>3 DEF SyncBoarded
  <2>2. QED
      BY <2>1, LearnCosts
<1>4. QED
    BY <1>2, <1>3

\* A mission is admitted for a new passage.
LEMMA AdmitCosts ==
    ASSUME FareInv, CostInv, NEW m \in Passages, Admit(m), m.gen = pg.gen + 1, Plain(m), m.unknown = Nil,
           m.receipts = << >>, \A g, h \in m.groups : TripOf(g) = TripOf(h)
    PROVE  CostInv'
<1>1. pm = Nil /\ pm' = m /\ acc' = acc /\ evs' = evs /\ pg.gen < MaxGen
      /\ pg' = [pg EXCEPT !.gen = @ + 1, !.spent[pg.gen + 1] = m.cost, !.had[pg.gen + 1] = m.groups]
    BY DEF Admit
<1>2. pg.gen \in Nat /\ DOMAIN pg = {"gen", "spent", "had", "again", "faults"} /\ pg.had \in [Gen -> SUBSET Group]
    BY DEF FareInv, BookTypes
<1>3. PICK k \in Gen : k = pg.gen + 1
    BY <1>1, <1>2, PassengersAssumption DEF Gen
<1>4. Books(acc, pg.spent) /\ \A j \in Gen : GenTrue(j)
    BY DEF CostInv
<1>5. pg.spent \in [Gen -> Nat] /\ m.cost \in Nat /\ m # Nil
    BY <1>4, PassengersNil DEF Books, Passages
<1>6. /\ pg'.gen = pg.gen + 1 /\ pg'.again = pg.again
      /\ pg'.spent \in [Gen -> Nat] /\ pg'.spent[k] = m.cost /\ pg'.had[k] = m.groups
      /\ \A j \in Gen : j # k => pg'.spent[j] = pg.spent[j] /\ pg'.had[j] = pg.had[j]
    BY <1>1, <1>2, <1>3, <1>5
<1>7. RowsOf(acc, k) = {} /\ acc.arch[k] = Nil /\ acc.rec[k] = Nil
  <2>1. RowsOK(acc, pg.had, pg.gen)
      BY DEF FareInv, RowsTrue
  <2>2. \A r \in acc.rows : r.gen \in Gen /\ r.gen <= pg.gen
      BY <2>1 DEF RowsOK
  <2>3. \A j \in Gen : j \in Nat
      BY PassengersAssumption DEF Gen
  <2>4. RowsOf(acc, k) = {}
      BY <1>2, <1>3, <2>2, <2>3 DEF RowsOf
  <2>5. acc.rec[k] = Nil
      BY <1>2, <1>3, <2>1 DEF RowsOK
  <2>6. acc.arch[k] = Nil
      BY <1>2, <1>3, <1>4 DEF GenTrue
  <2>7. QED
      BY <2>4, <2>5, <2>6
<1>8. Books(acc, pg.spent)'
  <2>1. GenOK(RowsOf(acc, k), acc.arch[k], pg'.spent[k], k)
      BY <1>5, <1>6, <1>7, SumNone DEF GenOK
  <2>2. Costed(acc.rows) /\ acc.arch \in [Gen -> Nat \cup {Nil}] /\ \A r \in acc.rows, j \in Gen : r.id \in Marker(j) => r.gen = j
      BY <1>4 DEF Books
  <2>3. Books(acc, pg'.spent)
      BY <1>4, <1>6, <2>1, <2>2, BooksChange
  <2>4. QED
      BY <1>1, <2>3
<1>9. Typed' /\ Company'
    BY <1>1 DEF CostInv, Typed, Company, TripOf
<1>10. MissionBooked'
  <2>1. MissionCosts(m, acc, pg'.spent, pg'.again, pg'.had)
      BY <1>3, <1>6, <1>7 DEF MissionCosts, ApartCosts, PlainCosts, Plain
  <2>2. ~Closing'
      BY <1>1, <1>3, <1>7 DEF Closing
  <2>3. QED
      BY <1>1, <2>1, <2>2 DEF MissionBooked
<1>11. ASSUME NEW j \in Gen PROVE GenTrue(j)'
  <2>1. CASE j = k
      BY <1>1, <1>2, <1>3, <1>5, <1>6, <1>7, <2>1 DEF GenTrue, MissionOf
  <2>2. CASE j # k
    <3>1. j \in Nat /\ (j <= pg'.gen => j <= pg.gen) /\ (j > pg'.gen => j > pg.gen)
        BY <1>2, <1>3, <1>6, <2>2, PassengersAssumption DEF Gen
    <3>2. ~MissionOf(j)
        BY <1>1 DEF MissionOf
    <3>3. QED
        BY <1>1, <1>4, <1>6, <2>2, <3>1, <3>2 DEF GenTrue
  <2>3. QED
      BY <2>1, <2>2
<1>12. QED
    BY <1>8, <1>9, <1>10, <1>11 DEF CostInv

\* A passage begins, plain or as a recovery.
LEMMA AdmissionCosts ==
    ASSUME FareInv, CostInv, ConsiderPassage \/ RecoverPassage
    PROVE  CostInv'
<1>1. NewMission \in [gen : {pg.gen + 1}, trip : {pw.port}, start : {pw.now}, offer : {0}, fare : {1}, reoffer : {FALSE},
                      abandon : {TRUE}, groups : {{}}, act : {Nil}, cost : {0}, receipts : {<< >>}, unknown : {Nil},
                      q : {FALSE}, recovery : {FALSE}, extra : {Nil}]
    BY DEF NewMission
<1>2. \A g, h \in Aboard : TripOf(g) = TripOf(h)
    BY DEF FareInv, ShipTrue, Aboard
<1>3. ASSUME NEW i \in Open, Admit([NewMission EXCEPT !.offer = i, !.fare = pw.offers[i].fare]) PROVE CostInv'
  <2>1. PICK m : m = [NewMission EXCEPT !.offer = i, !.fare = pw.offers[i].fare]
      OBVIOUS
  <2>2. m \in Passages
    <3>1. i \in Nat /\ pw.offers[i].fare \in Nat
        BY WorldTypes
    <3>2. QED
        BY <2>1, <3>1, NewTypes
  <2>3. m.gen = pg.gen + 1 /\ ~m.q /\ ~m.recovery /\ m.unknown = Nil /\ m.receipts = << >> /\ m.groups = {}
      BY <1>1, <2>1
  <2>4. QED
      BY <1>3, <2>1, <2>2, <2>3, AdmitCosts DEF Plain
<1>4. ASSUME Admit([NewMission EXCEPT !.fare = 2, !.abandon = FALSE, !.cost = 1]) PROVE CostInv'
  <2>1. PICK m : m = [NewMission EXCEPT !.fare = 2, !.abandon = FALSE, !.cost = 1]
      OBVIOUS
  <2>2. m \in Passages
      BY <2>1, NewTypes
  <2>3. m.gen = pg.gen + 1 /\ ~m.q /\ ~m.recovery /\ m.unknown = Nil /\ m.receipts = << >> /\ m.groups = {}
      BY <1>1, <2>1
  <2>4. QED
      BY <1>4, <2>1, <2>2, <2>3, AdmitCosts DEF Plain
<1>5. ASSUME Admit([NewMission EXCEPT !.groups = Aboard]) PROVE CostInv'
  <2>1. PICK m : m = [NewMission EXCEPT !.groups = Aboard]
      OBVIOUS
  <2>2. m \in Passages
      BY <2>1, NewTypes
  <2>3. m.gen = pg.gen + 1 /\ ~m.q /\ ~m.recovery /\ m.unknown = Nil /\ m.receipts = << >> /\ m.groups = Aboard
      BY <1>1, <2>1
  <2>4. QED
      BY <1>2, <1>5, <2>1, <2>2, <2>3, AdmitCosts DEF Plain
<1>6. QED
    BY <1>3, <1>4, <1>5 DEF ConsiderPassage, RecoverPassage

\* With its marker, a passage carries what its mission spent.
LEMMA Archiving ==
    ASSUME FareInv, CostInv, pm # Nil, NEW k \in Gen, k = pm.gen, NEW a, Books(a, pg.spent),
           DOMAIN a = {"rows", "rec", "arch"}, NEW b, b = ArchiveQuarantined(a, pm)
    PROVE  /\ Books(b, pg.spent) /\ b.arch[k] # Nil /\ b.rec = a.rec /\ DOMAIN b = DOMAIN a /\ a.rows \subseteq b.rows
           /\ \A j \in Gen : j # k => RowsOf(b, j) = RowsOf(a, j) /\ b.arch[j] = a.arch[j]
           /\ a.arch[k] # Nil => b.rows = a.rows /\ b.arch = a.arch /\ Booked(b, k) = Booked(a, k)
                                 /\ Recovered(b, k) = Recovered(a, k)
           /\ a.arch[k] = Nil => Booked(b, k) = pg.spent[k] /\ ~Recovered(b, k)
           /\ Rested(a, k) => Rested(b, k)
<1>1. pm.cost = pg.spent[k]
    BY DEF CostInv, MissionBooked, MissionCosts
<1>2. /\ Books(b, pg.spent) /\ b.arch[k] # Nil /\ b.rec = a.rec /\ DOMAIN b = DOMAIN a /\ a.rows \subseteq b.rows
      /\ \A j \in Gen : j # k => RowsOf(b, j) = RowsOf(a, j) /\ b.arch[j] = a.arch[j]
      /\ a.arch[k] # Nil => b.rows = a.rows /\ b.arch = a.arch
      /\ a.arch[k] = Nil => b.arch[k] = pm.cost /\ \A r \in b.rows : r.id # <<"recovery", k>>
    BY <1>1, BookArchive
<1>3. a.arch[k] # Nil => Booked(b, k) = Booked(a, k) /\ Recovered(b, k) = Recovered(a, k)
    BY <1>2 DEF Booked, Recovered, RowsOf
<1>4. a.arch[k] = Nil => Booked(b, k) = pg.spent[k] /\ ~Recovered(b, k)
  <2>1. a.arch[k] = Nil => ~Recovered(b, k)
      BY <1>2 DEF Recovered
  <2>2. ~Recovered(b, k) => Booked(b, k) = b.arch[k]
      BY <1>2, SumMarked
  <2>3. QED
      BY <1>1, <1>2, <2>1, <2>2
<1>5. Rested(a, k) => Rested(b, k)
    BY <1>2 DEF Rested, RowsOf
<1>6. QED
    BY <1>2, <1>3, <1>4, <1>5

\* The mission is set apart.
LEMMA SetApart ==
    ASSUME FareInv, CostInv, pm # Nil, ~pm.q, UNCHANGED <<pw, evs>>,
           NEW k \in Gen, k = pm.gen, NEW a, DOMAIN a = {"rows", "rec", "arch"}, a.rec = acc.rec, Books(a, pg.spent),
           a.arch = acc.arch, \A j \in Gen : j # k => RowsOf(a, j) = RowsOf(acc, j),
           acc.rec[k] # Nil => Rested(a, k) /\ Booked(a, k) = pg.spent[k],
           pm' = [pm EXCEPT !.q = TRUE, !.recovery = FALSE],
           pg'.gen = pg.gen, pg'.spent = pg.spent, pg'.had = pg.had, pg'.again = pg.again \cup Again(pm.recovery),
           acc' \in {a, ArchiveQuarantined(a, pm)}
    PROVE  CostInv'
<1>1. pm \in Passages /\ ~(k > pg.gen) /\ GenTrue(k) /\ MissionCosts(pm, acc, pg.spent, pg.again, pg.had) /\ (Closing => HoldEmptied)
    BY MissionGen DEF CostInv, MissionBooked
<1>2. /\ pm' \in Passages /\ pm' # Nil /\ pm'.q /\ ~pm'.recovery /\ pm'.gen = k /\ pm'.cost = pm.cost /\ pm'.act = pm.act
      /\ pm'.groups = pm.groups
  <2>1. pm' \in Passages
      BY <1>1, ApartTypes
  <2>2. QED
      BY <1>1, <2>1, PassengersNil DEF Passages
<1>3. PICK b : b = ArchiveQuarantined(a, pm)
    OBVIOUS
<1>4. /\ Books(b, pg.spent) /\ b.arch[k] # Nil /\ b.rec = a.rec /\ a.rows \subseteq b.rows
      /\ \A j \in Gen : j # k => RowsOf(b, j) = RowsOf(a, j) /\ b.arch[j] = a.arch[j]
      /\ a.arch[k] = Nil => Booked(b, k) = pg.spent[k] /\ ~Recovered(b, k)
      /\ Rested(a, k) => Rested(b, k)
    BY <1>3, Archiving
<1>5. /\ Books(acc', pg.spent) /\ acc'.rec = acc.rec
      /\ \A j \in Gen : j # k => RowsOf(acc', j) = RowsOf(acc, j) /\ acc'.arch[j] = acc.arch[j]
      /\ Rested(a, k) => Rested(acc', k)
      /\ acc' = a \/ acc' = b
    BY <1>3, <1>4
<1>6. Books(acc, pg.spent)' /\ Typed' /\ Company'
    BY <1>2, <1>5 DEF CostInv, Typed, Company, TripOf
<1>7. MissionBooked'
  <2>1. ASSUME acc'.arch[k] # Nil, k \notin pg'.again PROVE Booked(acc', k) = pg.spent[k] /\ ~Recovered(acc', k)
    <3>1. ~pm.recovery
        BY <2>1 DEF Again
    <3>2. a.arch[k] = Nil
        BY <1>1, <3>1 DEF MissionCosts, Plain, PlainCosts
    <3>3. QED
        BY <1>4, <1>5, <2>1, <3>2
  <2>2. ASSUME acc'.rec[k] # Nil, acc'.arch[k] = Nil PROVE Booked(acc', k) = pg.spent[k]
      BY <1>4, <1>5, <2>2
  <2>3. ApartCosts(pm', acc', pg'.spent, pg'.again)
      BY <1>2, <2>1, <2>2 DEF ApartCosts
  <2>4. Closing' => HoldEmptied'
    <3>1. Closing' => acc.rec[k] # Nil
        BY <1>2, <1>5 DEF Closing, Plain
    <3>2. QED
        BY <1>1, <1>2, <3>1 DEF Closing, HoldEmptied, Open, Aboard, Coming
  <2>5. QED
      BY <1>1, <1>2, <2>3, <2>4 DEF MissionBooked, MissionCosts, Plain
<1>8. GenTrue(k)'
    BY <1>1, <1>2, <1>5 DEF GenTrue, MissionOf
<1>9. Elsewhere(k)
    BY <1>5 DEF Elsewhere
<1>10. QED
    BY <1>2, <1>6, <1>7, <1>8, <1>9, GensKept DEF CostInv

LEMMA QuarantineCosts ==
    ASSUME FareInv, CostInv, pm # Nil, ~pm.q, UNCHANGED <<pw, evs>>,
           NEW k \in Gen, k = pm.gen, NEW a, DOMAIN a = {"rows", "rec", "arch"}, a.rec = acc.rec, Books(a, pg.spent),
           a.arch = acc.arch, \A j \in Gen : j # k => RowsOf(a, j) = RowsOf(acc, j),
           acc.rec[k] # Nil => Rested(a, k) /\ Booked(a, k) = pg.spent[k],
           QuarantinePassage(pm, a)
    PROVE  CostInv'
<1>1. PICK f : pg' = [pg EXCEPT !.faults = f, !.again = @ \cup Again(pm.recovery)]
    BY DEF QuarantinePassage
<1>2. /\ pg'.gen = pg.gen /\ pg'.spent = pg.spent /\ pg'.had = pg.had /\ pg'.again = pg.again \cup Again(pm.recovery)
    BY <1>1 DEF FareInv, BookTypes
<1>3. pm' = [pm EXCEPT !.q = TRUE, !.recovery = FALSE] /\ acc' \in {a, ArchiveQuarantined(a, pm)}
    BY DEF QuarantinePassage
<1>4. QED
    BY <1>2, <1>3, SetApart

LEMMA AccFields == CostInv /\ FareInv => DOMAIN acc = {"rows", "rec", "arch"} /\ Books(acc, pg.spent)
BY DEF CostInv, FareInv, RowsTrue, RowsOK

\* A mission whose request was damaged is set apart.
LEMMA DamagedCosts ==
    ASSUME FareInv, CostInv, RequestDamaged
    PROVE  CostInv'
<1>1. pm # Nil /\ ~pm.q /\ pm.act # Nil /\ UNCHANGED <<pw, evs, acc>> /\ pm' = [pm EXCEPT !.q = TRUE, !.recovery = FALSE]
    BY DEF RequestDamaged
<1>2. PICK k \in Gen : k = pm.gen
    BY <1>1, MissionGen
<1>3. acc.rec[k] = Nil
    BY <1>1, <1>2, NotClosing
<1>4. /\ pg'.gen = pg.gen /\ pg'.spent = pg.spent /\ pg'.had = pg.had /\ pg'.again = pg.again \cup Again(pm.recovery)
    BY DEF RequestDamaged, FareInv, BookTypes
<1>5. QED
    BY <1>1, <1>2, <1>3, <1>4, AccFields, SetApart

\* A mission that was set apart is archived, and stays so or recovers.
LEMMA ArchiveCosts ==
    ASSUME FareInv, CostInv, pm # Nil, pm.q, UNCHANGED <<evs, pg>>, acc' = ArchiveQuarantined(acc, pm),
           acc.rec[pm.gen] = Nil, pm' \in Passages, pm'.gen = pm.gen, pm'.cost = pm.cost, Company',
           \/ pm'.q /\ ~pm'.recovery
           \/ ~pm'.q /\ pm'.recovery /\ pm'.extra = Nil
    PROVE  CostInv'
<1>1. PICK k \in Gen : k = pm.gen /\ ~(k > pg.gen) /\ GenTrue(k)
    BY MissionGen
<1>2. MissionCosts(pm, acc, pg.spent, pg.again, pg.had) /\ pm' # Nil
    BY PassengersNil DEF CostInv, MissionBooked
<1>3. /\ Books(acc', pg.spent) /\ acc'.arch[k] # Nil /\ acc'.rec = acc.rec
      /\ \A j \in Gen : j # k => RowsOf(acc', j) = RowsOf(acc, j) /\ acc'.arch[j] = acc.arch[j]
      /\ acc.arch[k] # Nil => Booked(acc', k) = Booked(acc, k) /\ Recovered(acc', k) = Recovered(acc, k)
      /\ acc.arch[k] = Nil => Booked(acc', k) = pg.spent[k] /\ ~Recovered(acc', k)
    BY <1>1, AccFields, Archiving
<1>4. MissionBooked'
  <2>1. k \notin pg.again => Booked(acc', k) = pg.spent[k] /\ ~Recovered(acc', k)
      BY <1>1, <1>2, <1>3 DEF MissionCosts, ApartCosts
  <2>2. ApartCosts(pm', acc', pg.spent, pg.again)
      BY <1>1, <1>3, <2>1 DEF ApartCosts
  <2>3. ~Plain(pm') /\ ~Closing'
      BY <1>1, <1>3 DEF Plain, Closing
  <2>4. QED
      BY <1>1, <1>2, <2>2, <2>3 DEF MissionBooked, MissionCosts
<1>5. GenTrue(k)'
    BY <1>1, <1>2, <1>3 DEF GenTrue, MissionOf
<1>6. Elsewhere(k)
    BY <1>3 DEF Elsewhere
<1>7. Typed' /\ Books(acc, pg.spent)'
    BY <1>3 DEF CostInv, Typed
<1>8. QED
    BY <1>1, <1>4, <1>5, <1>6, <1>7, GensKept DEF CostInv

\* A recovery books what it adds.
LEMMA BookRecovery ==
    ASSUME NEW a, NEW spent, Books(a, spent), NEW k \in Gen, a.arch[k] # Nil, ~Recovered(a, k), NEW extra,
           extra = spent[k] - a.arch[k], NEW x, x = RecoveryRow(k, extra), NEW b, b.rows = a.rows \cup {x}, b.arch = a.arch
    PROVE  /\ Books(b, spent) /\ Booked(b, k) = spent[k] /\ extra \in Nat
           /\ \A j \in Gen : j # k => RowsOf(b, j) = RowsOf(a, j)
<1> DEFINE R == RowsOf(a, k)
<1>1. Costed(R) /\ GenOK(R, a.arch[k], spent[k], k) /\ spent[k] \in Nat /\ a.arch[k] \in Nat
    BY RowsCosted
<1>2. extra \in Nat /\ a.arch[k] + extra = spent[k] /\ Booked(a, k) = a.arch[k]
    BY <1>1, SumMarked
<1>3. x.id = <<"recovery", k>> /\ x.gen = k /\ x.cost = extra
    BY DEF RecoveryRow
<1>4. x \notin a.rows /\ \A r \in R : r.id # <<"recovery", k>>
    BY <1>3 DEF Recovered, RowsOf
<1>5. x \notin R /\ RowsOf(b, k) = R \cup {x} /\ \A j \in Gen : j # k => RowsOf(b, j) = RowsOf(a, j)
    BY <1>3, <1>4 DEF RowsOf
<1>6. Booked(b, k) = spent[k]
  <2>1. Sum(R \cup {x}) = Sum(R) + x.cost
      BY <1>1, <1>2, <1>3, <1>5, SumPlus
  <2>2. QED
      BY <1>2, <1>3, <1>5, <2>1 DEF Booked
<1>7. GenOK(RowsOf(b, k), b.arch[k], spent[k], k)
  <2>1. Unrecovered(RowsOf(b, k), k) = Unrecovered(R, k)
      BY <1>3, <1>5 DEF Unrecovered
  <2>2. \E r \in RowsOf(b, k) : r.id = <<"mark", k>>
      BY <1>1, <1>5 DEF GenOK
  <2>3. \A r, y \in RowsOf(b, k) : r.id = <<"recovery", k>> /\ y.id = r.id => r = y /\ a.arch[k] + r.cost <= spent[k]
      BY <1>1, <1>2, <1>3, <1>4, <1>5
  <2> HIDE DEF R
  <2>4. QED
      BY <1>1, <2>1, <2>2, <2>3 DEF GenOK
<1>8. Costed(b.rows)
    BY <1>2, <1>3, CostedPlus DEF Books
<1>9. \A r \in b.rows, j \in Gen : r.id \in Marker(j) => r.gen = j
  <2>1. ASSUME NEW j \in Gen, x.id \in Marker(j) PROVE x.gen = j
    <3>1. <<"recovery", k>> \in Marker(j) <=> k = j
        BY Markers
    <3>2. QED
        BY <1>3, <2>1, <3>1
  <2>2. QED
      BY <2>1 DEF Books
<1>10. Books(b, spent)
  <2>1. b.arch \in [Gen -> Nat \cup {Nil}] /\ spent \in [Gen -> Nat]
      BY DEF Books
  <2> HIDE DEF R
  <2>2. QED
      BY <1>5, <1>7, <1>8, <1>9, <2>1, BooksChange
<1>11. QED
    BY <1>2, <1>5, <1>6, <1>10

\* The hull is given back: the mission is gone, or will be.
LEMMA HandsBack ==
    ASSUME FareInv, CostInv, pm # Nil, pm.act = Nil, pm.q \/ pm.recovery, Release
    PROVE  CostInv'
<1>1. PICK k \in Gen : k = pm.gen /\ ~(k > pg.gen) /\ GenTrue(k)
    BY MissionGen
<1>2. /\ pm \in Passages /\ Books(acc, pg.spent) /\ DOMAIN acc = {"rows", "rec", "arch"}
      /\ MissionCosts(pm, acc, pg.spent, pg.again, pg.had) /\ (Closing => HoldEmptied)
    BY MissionGen, AccFields DEF CostInv, MissionBooked
<1>3. CASE pm.recovery /\ pm.extra = Nil /\ \E r \in acc.rows : r.id = <<"recovery", k>>
  <2>1. QuarantinePassage(pm, acc) /\ UNCHANGED <<pw, evs>>
      BY <1>1, <1>3 DEF Release
  <2>2. ~pm.q /\ acc.rec[k] = Nil
      BY <1>1, <1>2, <1>3 DEF MissionCosts, ApartCosts
  <2>3. QED
      BY <1>1, <1>2, <2>1, <2>2, QuarantineCosts
<1>4. CASE ~(pm.recovery /\ pm.extra = Nil /\ \E r \in acc.rows : r.id = <<"recovery", k>>)
  <2>1. PICK a : a = ArchiveQuarantined(acc, pm)
      OBVIOUS
  <2>2. PICK extra : extra = IF pm.extra # Nil THEN pm.extra ELSE pm.cost - a.arch[k]
      OBVIOUS
  <2>3. PICK marks : marks = IF pm.recovery THEN {RecoveryRow(k, extra)} ELSE {}
      OBVIOUS
  <2>4. PICK faulty \in BOOLEAN :
            /\ pg' = [pg EXCEPT !.faults = Faults(faulty)]
            /\ acc' = [a EXCEPT !.rows = @ \cup marks]
            /\ pm' = IF faulty THEN [pm EXCEPT !.extra = IF pm.recovery THEN extra ELSE Nil] ELSE Nil
            /\ UNCHANGED <<pw, evs>>
      BY <1>1, <1>4, <2>1, <2>2, <2>3 DEF Release, RecoveryRow
  <2>5. /\ Books(a, pg.spent) /\ a.arch[k] # Nil /\ a.rec = acc.rec /\ DOMAIN a = {"rows", "rec", "arch"}
        /\ \A j \in Gen : j # k => RowsOf(a, j) = RowsOf(acc, j) /\ a.arch[j] = acc.arch[j]
        /\ acc.arch[k] # Nil => a.rows = acc.rows /\ a.arch = acc.arch /\ Booked(a, k) = Booked(acc, k)
                                /\ Recovered(a, k) = Recovered(acc, k)
        /\ acc.arch[k] = Nil => Booked(a, k) = pg.spent[k] /\ ~Recovered(a, k)
        /\ Rested(acc, k) => Rested(a, k)
      BY <1>1, <1>2, <2>1, Archiving
  <2>6. DOMAIN acc' = DOMAIN a /\ acc'.rows = a.rows \cup marks /\ acc'.rec = acc.rec /\ acc'.arch = a.arch
      BY <2>4, <2>5
  <2>7. pg'.gen = pg.gen /\ pg'.spent = pg.spent /\ pg'.had = pg.had /\ pg'.again = pg.again
      BY <2>4 DEF FareInv, BookTypes
  <2>8. /\ Books(acc', pg.spent) /\ \A j \in Gen : j # k => RowsOf(acc', j) = RowsOf(acc, j)
        /\ k \notin pg.again => Booked(acc', k) = pg.spent[k] /\ (pm.q => ~Recovered(acc', k))
        /\ pm.recovery => extra \in Nat /\ RecoveryRow(k, extra) \in acc'.rows
    <3>1. CASE pm.q
      <4>1. ~pm.recovery /\ acc'.rows = a.rows
          BY <1>1, <1>2, <2>3, <2>6, <3>1 DEF MissionCosts, ApartCosts
      <4>2. /\ \A j \in Gen : RowsOf(acc', j) = RowsOf(a, j)
            /\ Booked(acc', k) = Booked(a, k) /\ Recovered(acc', k) = Recovered(a, k)
          BY <4>1 DEF RowsOf, Booked, Recovered
      <4>3. Books(acc', pg.spent)
          BY <2>5, <2>6, <4>1, <4>2 DEF Books
      <4>4. k \notin pg.again => Booked(a, k) = pg.spent[k] /\ ~Recovered(a, k)
          BY <1>1, <1>2, <2>5, <3>1 DEF MissionCosts, ApartCosts
      <4>5. QED
          BY <2>5, <4>1, <4>2, <4>3, <4>4
    <3>2. CASE ~pm.q /\ pm.extra # Nil
      <4>1. pm.recovery /\ acc.arch[k] # Nil /\ RecoveryRow(k, extra) \in acc.rows /\ extra \in Nat
          BY <1>1, <1>2, <2>2, <3>2 DEF MissionCosts, ApartCosts, Passages
      <4>2. acc'.rows = acc.rows /\ acc'.arch = acc.arch
          BY <2>3, <2>5, <2>6, <4>1
      <4>3. (\A j \in Gen : RowsOf(acc', j) = RowsOf(acc, j)) /\ Booked(acc', k) = Booked(acc, k)
          BY <4>2 DEF RowsOf, Booked
      <4>4. Books(acc', pg.spent)
          BY <1>2, <4>2, <4>3 DEF Books
      <4>5. k \notin pg.again => Booked(acc, k) = pg.spent[k]
          BY <1>1, <1>2, <3>2, <4>1 DEF MissionCosts, ApartCosts
      <4>6. QED
          BY <3>2, <4>1, <4>2, <4>3, <4>4, <4>5
    <3>3. CASE ~pm.q /\ pm.extra = Nil
      <4>1. pm.recovery /\ acc.arch[k] # Nil /\ ~Recovered(acc, k) /\ pm.cost = pg.spent[k]
          BY <1>1, <1>2, <1>4, <3>3 DEF MissionCosts, ApartCosts, Recovered
      <4>2. /\ ~Recovered(a, k) /\ extra = pg.spent[k] - a.arch[k]
            /\ acc'.rows = a.rows \cup {RecoveryRow(k, extra)}
          BY <2>2, <2>3, <2>5, <2>6, <3>3, <4>1
      <4>3. /\ Books(acc', pg.spent) /\ Booked(acc', k) = pg.spent[k] /\ extra \in Nat
            /\ \A j \in Gen : j # k => RowsOf(acc', j) = RowsOf(a, j)
          BY <2>5, <2>6, <4>2, BookRecovery
      <4>4. QED
          BY <2>5, <3>3, <4>2, <4>3
    <3>4. QED
        BY <3>1, <3>2, <3>3
  <2>9. Elsewhere(k) /\ Books(acc, pg.spent)'
      BY <2>5, <2>6, <2>7, <2>8 DEF Elsewhere
  <2>10. acc.rec[k] # Nil => Rested(acc', k)
    <3>1. acc.rec[k] # Nil => Rested(acc, k)
        BY <1>1 DEF GenTrue, Plain
    <3>2. Rested(a, k) => Rested(acc', k)
        BY <2>6 DEF Rested, RowsOf
    <3>3. QED
        BY <2>5, <3>1, <3>2
  <2>11. CASE ~faulty
    <3>1. pm' = Nil
        BY <2>4, <2>11
    <3>2. Typed' /\ Company' /\ MissionBooked'
        BY <2>4, <3>1 DEF CostInv, Typed, Company, MissionBooked
    <3>3. GenTrue(k)'
        BY <1>1, <2>6, <2>7, <2>8, <2>10 DEF GenTrue
    <3>4. QED
        BY <1>1, <2>9, <3>1, <3>2, <3>3, GensKept DEF CostInv
  <2>12. CASE faulty
    <3>1. PICK e \in Nat \cup {Nil} : e = IF pm.recovery THEN extra ELSE Nil
        BY <2>8
    <3>2. pm' = [pm EXCEPT !.extra = e]
        BY <2>4, <2>12, <3>1
    <3>3. pm' \in Passages
        BY <1>2, <3>2, ApartTypes
    <3>4. /\ pm' # Nil /\ pm'.gen = k /\ pm'.cost = pm.cost /\ pm'.q = pm.q /\ pm'.recovery = pm.recovery
          /\ pm'.extra = e /\ pm'.groups = pm.groups /\ pm'.act = pm.act
        BY <1>1, <1>2, <3>2, <3>3, PassengersNil DEF Passages
    <3>5. Typed' /\ Company'
        BY <2>4, <3>3, <3>4 DEF CostInv, Typed, Company, TripOf
    <3>6. pm.recovery => ~pm.q /\ acc.rec[k] = Nil /\ e = extra /\ e # Nil
        BY <1>1, <1>2, <2>8, <3>1, PassengersNil DEF MissionCosts, ApartCosts
    <3>7. ApartCosts(pm', acc', pg.spent, pg.again)
        BY <2>5, <2>6, <2>8, <3>1, <3>4, <3>6 DEF ApartCosts
    <3>8. ~Plain(pm')
        BY <3>4 DEF Plain
    <3>9. Closing' => HoldEmptied'
      <4>1. Closing' => Closing
          BY <1>1, <2>6, <3>4, <3>8 DEF Closing
      <4>2. QED
          BY <1>2, <2>4, <3>4, <4>1 DEF HoldEmptied, Open, Aboard, Coming
    <3>10. MissionBooked'
        BY <1>1, <1>2, <2>7, <3>4, <3>7, <3>8, <3>9 DEF MissionBooked, MissionCosts
    <3>11. GenTrue(k)'
        BY <1>1, <2>6, <2>7, <2>10, <3>4 DEF GenTrue, MissionOf
    <3>12. QED
        BY <1>1, <2>9, <3>4, <3>5, <3>10, <3>11, GensKept DEF CostInv
  <2>13. QED
      BY <2>11, <2>12
<1>5. QED
    BY <1>3, <1>4

\* A passage set apart is archived and its request is retired.
LEMMA RetireCosts ==
    ASSUME FareInv, CostInv, RetireQuarantinedAction
    PROVE  CostInv'
<1>1. /\ pm # Nil /\ pm.q /\ pm.act # Nil /\ acc' = ArchiveQuarantined(acc, pm) /\ UNCHANGED <<evs, pg>>
      /\ pm' = [pm EXCEPT !.act = Nil]
    BY DEF RetireQuarantinedAction
<1>2. pm \in Passages /\ acc.rec[pm.gen] = Nil
    BY <1>1, MissionGen, NotClosing
<1>3. ~pm.recovery
    BY <1>1 DEF CostInv, MissionBooked, MissionCosts, ApartCosts
<1>4. pm' \in Passages
    BY <1>1, <1>2, ApartTypes
<1>5. pm'.gen = pm.gen /\ pm'.cost = pm.cost /\ pm'.q /\ ~pm'.recovery /\ pm'.groups = pm.groups
    BY <1>1, <1>2, <1>3 DEF Passages
<1>6. Company'
    BY <1>1, <1>5 DEF CostInv, Company, TripOf
<1>7. QED
    BY <1>1, <1>2, <1>4, <1>5, <1>6, ArchiveCosts

LEMMA OneVoyage == FareInv => \A g, h \in Aboard : TripOf(g) = TripOf(h)
BY DEF FareInv, ShipTrue, Aboard

\* An occupied hull that was set apart becomes a recovery.
LEMMA DriveCosts ==
    ASSUME FareInv, CostInv, DriveQuarantined
    PROVE  CostInv'
<1>1. pm # Nil /\ pm.q /\ pm.act = Nil /\ pm \in Passages
    BY MissionGen DEF DriveQuarantined
<1>2. CASE ~AboardFresh
  <2>1. snap' = [snap EXCEPT !.hint = TRUE] /\ UNCHANGED <<pw, evs, pm, acc, pg>>
      BY <1>2 DEF DriveQuarantined
  <2>2. Counts /\ Typed' /\ (HoldEmptied => HoldEmptied')
      BY <2>1 DEF Counts, CostInv, Typed, HoldEmptied, Open, Aboard, Coming
  <2>3. Waits => Waits'
      BY <2>1 DEF Waits, FareInv, BookTypes
  <2>4. QED
      BY <2>1, <2>2, <2>3, WorldCosts
<1>3. CASE AboardFresh /\ Aboard = {} /\ Open = {}
  <2>1. Release
      BY <1>3 DEF DriveQuarantined
  <2>2. QED
      BY <1>1, <2>1, HandsBack
<1>4. CASE AboardFresh /\ ~(Aboard = {} /\ Open = {})
  <2>1. PICK m : m = [pm EXCEPT !.q = FALSE, !.recovery = TRUE, !.groups = Aboard, !.abandon = TRUE, !.offer = 0,
                                !.reoffer = FALSE, !.unknown = Nil, !.receipts = << >>, !.extra = Nil]
      OBVIOUS
  <2>2. acc' = ArchiveQuarantined(acc, pm) /\ pm' = m /\ UNCHANGED <<pw, evs, pg>>
      BY <1>4, <2>1 DEF DriveQuarantined
  <2>3. m \in Passages
      BY <1>1, <2>1, ApartTypes
  <2>4. m.gen = pm.gen /\ m.cost = pm.cost /\ ~m.q /\ m.recovery /\ m.extra = Nil /\ m.groups = Aboard
      BY <1>1, <2>1 DEF Passages
  <2>5. acc.rec[pm.gen] = Nil
      BY <1>1, <1>4 DEF CostInv, MissionBooked, Closing, HoldEmptied
  <2>6. Company'
      BY <2>2, <2>4, OneVoyage DEF Company, TripOf
  <2>7. QED
      BY <1>1, <2>2, <2>3, <2>4, <2>5, <2>6, ArchiveCosts
<1>5. QED
    BY <1>2, <1>3, <1>4

\* A recovery cancels its offer, hands back the hull or sails.
LEMMA RecoveryCosts ==
    ASSUME FareInv, CostInv, DriveRecovery
    PROVE  CostInv'
<1>1. pm # Nil /\ pm.recovery /\ pm.act = Nil /\ pm \in Passages
    BY MissionGen DEF DriveRecovery
<1>2. PICK k \in Gen : k = pm.gen /\ k <= pg.gen /\ GenTrue(k) /\ ~(k > pg.gen)
    BY <1>1, MissionGen
<1>3. MissionCosts(pm, acc, pg.spent, pg.again, pg.had) /\ ~pm.q /\ acc.rec[k] = Nil
    BY <1>1, <1>2 DEF CostInv, MissionBooked, MissionCosts, ApartCosts
<1>4. ~Closing
    BY <1>1, <1>2, <1>3 DEF Closing, Plain
<1>5. CASE Release
    BY <1>1, <1>5, HandsBack
<1>6. ASSUME NEW i \in Open, Stage([pm EXCEPT !.groups = Aboard, !.offer = i], "cancel", i), UNCHANGED <<pw, evs, acc, snap, pg>>
      PROVE  CostInv'
  <2>1. PICK m : m = [pm EXCEPT !.groups = Aboard, !.offer = i]
      OBVIOUS
  <2>2. i \in Nat
      BY WorldTypes
  <2>3. m \in Passages
      BY <1>1, <2>1, <2>2, ApartTypes
  <2>4. /\ m.gen = pm.gen /\ m.cost = pm.cost /\ m.q = pm.q /\ m.recovery = pm.recovery /\ m.extra = pm.extra
        /\ m.groups = Aboard
      BY <1>1, <2>1 DEF Passages
  <2>5. pm' \in Passages /\ Like(pm', m) /\ pm' # Nil
      BY <1>6, <2>1, <2>2, <2>3, StageTypes, PassengersNil
  <2>6. /\ pm'.gen = k /\ pm'.cost = pm.cost /\ pm'.q = pm.q /\ pm'.recovery = pm.recovery /\ pm'.extra = pm.extra
        /\ pm'.groups = Aboard
      BY <1>2, <2>4, <2>5 DEF Like
  <2>7. Counts /\ Typed' /\ Company' /\ Books(acc, pg.spent)'
      BY <1>6, <2>5, <2>6, OneVoyage DEF Counts, CostInv, Typed, Company, TripOf
  <2>8. ApartCosts(pm', acc, pg.spent, pg.again)
      BY <1>2, <1>3, <2>6 DEF MissionCosts, ApartCosts
  <2>9. ~Plain(pm') /\ ~Closing'
      BY <1>1, <1>3, <1>6, <2>6 DEF Plain, Closing
  <2>10. MissionBooked'
      BY <1>2, <1>3, <1>6, <2>6, <2>8, <2>9 DEF MissionBooked, MissionCosts
  <2>11. GenTrue(k)'
      BY <1>2, <1>3, <1>6, <2>5, <2>6 DEF GenTrue, MissionOf
  <2>12. QED
      BY <1>1, <1>2, <2>6, <2>7, <2>10, <2>11, CountsElsewhere, GensKept DEF CostInv
<1>7. ASSUME Spend, Stage([pm EXCEPT !.groups = Aboard, !.cost = @ + Stores], "depart", 0), UNCHANGED <<pw, evs, acc, snap>>
      PROVE  CostInv'
  <2>1. PICK m : m = [pm EXCEPT !.groups = Aboard, !.cost = @ + Stores]
      OBVIOUS
  <2>2. m \in Passages
      BY <1>1, <2>1, ApartTypes
  <2>3. /\ m.gen = pm.gen /\ m.cost = pm.cost + Stores /\ m.q = pm.q /\ m.recovery = pm.recovery /\ m.extra = pm.extra
        /\ m.unknown = pm.unknown /\ m.receipts = pm.receipts /\ m.groups = Aboard
      BY <1>1, <2>1 DEF Passages
  <2>4. pm' \in Passages /\ Like(pm', m)
      BY <1>7, <2>1, <2>2, StageTypes
  <2>5. Typed' /\ Company'
      BY <1>7, <2>3, <2>4, OneVoyage DEF CostInv, Typed, Company, Like, TripOf
  <2>6. ~Plain(pm)
      BY <1>1 DEF Plain
  <2>7. QED
      BY <1>1, <1>3, <1>4, <1>7, <2>3, <2>4, <2>5, <2>6, SpendCosts DEF Like
<1>8. QED
    BY <1>5, <1>6, <1>7 DEF DriveRecovery

\* Fares become receipts of a passage that has booked nothing.
LEMMA ReceiptCosts ==
    ASSUME FareInv, CostInv, SyncReceipts
    PROVE  CostInv'
<1>1. /\ pm # Nil /\ ~pm.q /\ pm.receipts = << >> /\ (pm.recovery => pw.ship = "gone") /\ (pm.unknown # Nil => pw.ship = "gone")
    BY DEF SyncReceipts, Driven
<1>2. PICK k \in Gen : k = pm.gen /\ k <= pg.gen /\ GenTrue(k) /\ ~(k > pg.gen)
    BY <1>1, MissionGen
<1>3. /\ pm \in Passages /\ MissionCosts(pm, acc, pg.spent, pg.again, pg.had) /\ (Closing => HoldEmptied)
      /\ Books(acc, pg.spent) /\ DOMAIN acc = {"rows", "rec", "arch"}
    BY <1>1, MissionGen, AccFields DEF CostInv, MissionBooked
<1>4. ~Closing /\ acc.rec[k] = Nil /\ (Plain(pm) => pm.unknown = Nil)
  <2>1. Closing => Plain(pm) /\ pm.unknown = Nil
      BY <1>1, <1>3 DEF HoldEmptied, Plain
  <2>2. ~Closing
      BY <1>1, <2>1, NotClosing
  <2>3. QED
      BY <1>2, <2>2 DEF Closing
<1>5. CASE QuarantinePassage(pm, acc) /\ UNCHANGED <<pw, evs>>
    BY <1>1, <1>2, <1>3, <1>4, <1>5, QuarantineCosts
<1>6. ASSUME NEW E \in SUBSET evs, NEW up \in BOOLEAN, Cardinality(E) \in {1, 2}, Prepare(E, up)
      PROVE  CostInv'
  <2>1. PICK rs : rs = Receipts(E, up)
      OBVIOUS
  <2>2. rs \in Seq(Fares) /\ rs # << >> /\ Sum(Range(rs)) = pm.cost
      BY <1>1, <1>6, <2>1, PreparedCosts DEF CostInv
  <2>3. pm' = [pm EXCEPT !.receipts = rs] /\ UNCHANGED <<pw, evs, acc, snap, pg>>
      BY <1>6, <2>1 DEF Prepare
  <2>4. /\ pm' \in Passages /\ pm'.gen = k /\ pm'.cost = pm.cost /\ pm'.q = pm.q /\ pm'.recovery = pm.recovery
        /\ pm'.extra = pm.extra /\ pm'.unknown = pm.unknown /\ pm'.groups = pm.groups /\ pm'.receipts = rs
      BY <1>2, <1>3, <2>2, <2>3 DEF Passages
  <2>5. pm' # Nil /\ Counts
      BY <2>3, <2>4, PassengersNil DEF Counts
  <2>6. Typed' /\ Company' /\ Books(acc, pg.spent)'
      BY <1>1, <1>3, <2>3, <2>4 DEF CostInv, Typed, Company, TripOf
  <2>7. ApartCosts(pm', acc, pg.spent, pg.again)
      BY <1>2, <1>3, <2>4 DEF MissionCosts, ApartCosts
  <2>8. ASSUME Plain(pm') PROVE PlainCosts(pm', acc, pg.had)
    <3>1. Plain(pm) /\ PlainCosts(pm, acc, pg.had) /\ pm.unknown = Nil
        BY <1>3, <1>4, <2>4, <2>8 DEF Plain, MissionCosts
    <3>2. RowsOf(acc, k) = {}
        BY <1>1, <1>2, <1>4, <3>1 DEF PlainCosts
    <3>3. QED
        BY <1>2, <1>4, <2>2, <2>4, <3>1, <3>2 DEF PlainCosts
  <2>9. ~Closing'
      BY <1>4, <2>3, <2>4 DEF Closing, Plain
  <2>10. MissionBooked'
      BY <1>2, <1>3, <2>3, <2>4, <2>7, <2>8, <2>9 DEF MissionBooked, MissionCosts
  <2>11. GenTrue(k)'
      BY <1>2, <1>4, <2>3, <2>4, <2>5 DEF GenTrue, MissionOf
  <2>12. QED
      BY <1>1, <1>2, <2>4, <2>5, <2>6, <2>10, <2>11, CountsElsewhere, GensKept DEF CostInv
<1>7. QED
    BY <1>5, <1>6, ReceiptChoices DEF CostInv

\* The receipts that are put carry what the passage spent, all of them all of it.
LEMMA PutBooks ==
    ASSUME FareInv, CostInv, pm # Nil, Straight, pm.receipts # << >>, NEW k \in Gen, k = pm.gen,
           NEW i \in 0..Len(pm.receipts), NEW a, a = [acc EXCEPT !.rows = @ \cup {pm.receipts[j] : j \in 1..i}]
    PROVE  /\ DOMAIN a = {"rows", "rec", "arch"} /\ a.rec = acc.rec /\ a.arch = acc.arch /\ Books(a, pg.spent)
           /\ \A j \in Gen : j # k => RowsOf(a, j) = RowsOf(acc, j)
           /\ RowsOf(a, k) \subseteq Range(pm.receipts)
           /\ i = Len(pm.receipts) => Booked(a, k) = pg.spent[k]
<1>1. /\ pm \in Passages /\ Books(acc, pg.spent) /\ DOMAIN acc = {"rows", "rec", "arch"} /\ ReceiptsTrue
      /\ Plain(pm) /\ pm.cost = pg.spent[k] /\ PlainCosts(pm, acc, pg.had)
    BY MissionGen, AccFields DEF Straight, Plain, CostInv, MissionBooked, MissionCosts, FareInv, MissionTrue
<1>2. PICK S : S = Range(pm.receipts)
    OBVIOUS
<1>3. PICK N : N = {pm.receipts[j] : j \in 1..i}
    OBVIOUS
<1>4. pm.receipts \in Seq(Fares) /\ Len(pm.receipts) \in Nat /\ DOMAIN pm.receipts = 1..Len(pm.receipts)
    BY <1>1 DEF Passages
<1>5. N \subseteq S /\ (i = Len(pm.receipts) => N = S)
    BY <1>2, <1>3, <1>4 DEF Range
<1>6. ASSUME NEW r \in S PROVE r.gen = k /\ r.cost \in Nat /\ \A j \in Gen : r.id \notin Marker(j)
  <2>1. PICK x \in DOMAIN pm.receipts : r = pm.receipts[x]
      BY <1>2 DEF Range
  <2>2. r \in Fares /\ r.gen = k
      BY <1>1, <1>4, <2>1 DEF ReceiptsTrue
  <2>3. r.id \in {"fare"} \X (SUBSET Group) \X {1, 2} /\ r.cost \in Nat
      BY <2>2 DEF Fares
  <2>4. PICK g, n : r.id = <<"fare", g, n>>
      BY <2>3
  <2>5. \A j \in Gen : r.id \notin Marker(j)
    <3>1. ASSUME NEW l \in Gen PROVE r.id \notin Marker(l)
      <4>1. <<"fare", g, n>> \notin Marker(l)
        <5>1. <<"mark", l>>[1] = "mark" /\ <<"recovery", l>>[1] = "recovery" /\ <<"fare", g, n>>[1] = "fare"
            OBVIOUS
        <5>2. QED
            BY <5>1 DEF Marker
      <4>2. QED
          BY <2>4, <4>1
    <3>2. QED
        BY <3>1
  <2>6. QED
      BY <2>2, <2>3, <2>5
<1>7. Costed(S)
  <2>1. IsFiniteSet(S)
    <3>1. PICK n \in Nat : n = Len(pm.receipts)
        BY <1>4
    <3>2. IsFiniteSet(1..n)
      <4>1. 1 \in Int /\ n \in Int
          OBVIOUS
      <4>2. QED
          BY <4>1, FS_Interval
    <3>3. PICK f : f = pm.receipts
        OBVIOUS
    <3>4. DOMAIN f = 1..n /\ S = {f[j] : j \in 1..n}
        BY <1>2, <1>4, <3>1, <3>3 DEF Range
    <3>5. f = [j \in 1..n |-> f[j]]
        BY <1>4, <3>1, <3>3
    <3>6. f \in Surjection(1..n, S)
        BY <3>4, <3>5 DEF Surjection
    <3>7. QED
        BY <3>2, <3>6, FS_Surjection
  <2>2. QED
      BY <1>6, <2>1 DEF Costed
<1>8. DOMAIN a = {"rows", "rec", "arch"} /\ a.rec = acc.rec /\ a.arch = acc.arch /\ a.rows = acc.rows \cup N
    BY <1>1, <1>3
<1>9. RowsOf(acc, k) \subseteq S /\ acc.arch[k] = Nil /\ Sum(S) = pg.spent[k]
    BY <1>1, <1>2 DEF PlainCosts
<1>10. /\ RowsOf(a, k) = RowsOf(acc, k) \cup N
       /\ \A j \in Gen : j # k => RowsOf(a, j) = RowsOf(acc, j)
    BY <1>5, <1>6, <1>8 DEF RowsOf
<1>11. RowsOf(a, k) \subseteq S
    BY <1>5, <1>9, <1>10
<1>12. Books(a, pg.spent)
  <2>1. Costed(acc.rows) /\ acc.arch \in [Gen -> Nat \cup {Nil}] /\ pg.spent \in [Gen -> Nat]
        /\ \A r \in acc.rows, j \in Gen : r.id \in Marker(j) => r.gen = j
      BY <1>1 DEF Books
  <2>2. Costed(a.rows)
    <3>1. Costed(N)
        BY <1>5, <1>7, CostedPart
    <3>2. IsFiniteSet(acc.rows \cup N)
        BY <2>1, <3>1, FS_Union DEF Costed
    <3>3. QED
        BY <1>8, <2>1, <3>1, <3>2 DEF Costed
  <2>3. \A r \in a.rows, j \in Gen : r.id \in Marker(j) => r.gen = j
      BY <1>5, <1>6, <1>8, <2>1
  <2>4. Sum(RowsOf(a, k)) <= pg.spent[k]
      BY <1>7, <1>9, <1>11, SumLess
  <2>5. \A r \in RowsOf(a, k) : r.id \notin Marker(k)
      BY <1>6, <1>11
  <2>6. GenOK(RowsOf(a, k), a.arch[k], pg.spent[k], k)
      BY <1>8, <1>9, <2>1, <2>4, <2>5 DEF GenOK
  <2>7. QED
      BY <1>1, <1>8, <1>10, <2>1, <2>2, <2>3, <2>6, BooksChange
<1>13. i = Len(pm.receipts) => Booked(a, k) = pg.spent[k]
    BY <1>5, <1>9, <1>10, <1>11 DEF Booked
<1>14. QED
    BY <1>2, <1>8, <1>10, <1>11, <1>12, <1>13

\* The receipts are put, some of them or all.
LEMMA PutCosts ==
    ASSUME FareInv, CostInv, PutReceipts
    PROVE  CostInv'
<1> DEFINE n == Len(pm.receipts)
           bad == {i \in 1..n : Taken(acc, pm.receipts[i])}
           put(i) == [acc EXCEPT !.rows = @ \cup {pm.receipts[j] : j \in 1..i}]
<1>1. pm # Nil /\ ~pm.q /\ Straight /\ Plain(pm) /\ pm.unknown = Nil /\ pm.receipts # << >>
    BY DEF PutReceipts, Idle, Driven, Straight, Plain
<1>2. PICK k \in Gen : k = pm.gen /\ k <= pg.gen /\ GenTrue(k) /\ ~(k > pg.gen)
    BY <1>1, MissionGen
<1>3. /\ pm \in Passages /\ MissionCosts(pm, acc, pg.spent, pg.again, pg.had) /\ ~Closing /\ acc.rec[k] = Nil
    BY <1>1, <1>2, NotClosing, MissionGen DEF CostInv, MissionBooked
<1>4. n \in Nat
    BY <1>3 DEF Passages
<1>5. CASE bad # {}
  <2>1. bad \in SUBSET Nat /\ bad \subseteq 1..n
      BY <1>4
  <2>2. QuarantinePassage(pm, put(Min(bad) - 1)) /\ UNCHANGED <<pw, evs>>
      BY <1>5 DEF PutReceipts
  <2> HIDE DEF bad
  <2>3. Min(bad) \in bad
    <3>1. \E j \in bad : \A l \in bad : j <= l
        BY <1>5, <2>1, LeastNumber
    <3>2. QED
        BY <3>1 DEF Min
  <2>4. PICK i \in 0..n : i = Min(bad) - 1
    <3>1. PICK l \in 1..n : l = Min(bad)
        BY <2>1, <2>3
    <3>2. l - 1 \in 0..n
        BY <1>4
    <3>3. QED
        BY <3>1, <3>2
  <2>5. PICK a : a = put(i)
      OBVIOUS
  <2>6. /\ DOMAIN a = {"rows", "rec", "arch"} /\ a.rec = acc.rec /\ a.arch = acc.arch /\ Books(a, pg.spent)
        /\ \A j \in Gen : j # k => RowsOf(a, j) = RowsOf(acc, j)
      BY <1>1, <1>2, <2>5, PutBooks
  <2>7. QuarantinePassage(pm, a)
      BY <2>2, <2>4, <2>5
  <2>8. QED
      BY <1>1, <1>2, <1>3, <2>2, <2>6, <2>7, QuarantineCosts
<1>6. CASE bad = {}
  <2>1. PICK i \in 0..n, faulty \in BOOLEAN :
            /\ (~faulty => i = n) /\ pg' = [pg EXCEPT !.faults = Faults(faulty)]
            /\ acc' = put(i)
            /\ pm' = IF faulty THEN pm ELSE Nil
            /\ UNCHANGED <<pw, evs>>
      BY <1>6 DEF PutReceipts
  <2>2. /\ acc'.rec = acc.rec /\ acc'.arch = acc.arch /\ Books(acc', pg.spent)
        /\ \A j \in Gen : j # k => RowsOf(acc', j) = RowsOf(acc, j)
        /\ RowsOf(acc', k) \subseteq Range(pm.receipts)
        /\ i = n => Booked(acc', k) = pg.spent[k]
    <3>1. PICK a : a = put(i)
        OBVIOUS
    <3>2. acc' = a
        BY <2>1, <3>1
    <3>3. QED
        BY <1>1, <1>2, <3>1, <3>2, PutBooks
  <2>3. /\ pg'.gen = pg.gen /\ pg'.spent = pg.spent /\ pg'.had = pg.had /\ pg'.again = pg.again
      BY <2>1 DEF FareInv, BookTypes
  <2>4. Elsewhere(k) /\ Books(acc, pg.spent)'
      BY <2>2, <2>3 DEF Elsewhere
  <2>5. Typed' /\ Company'
      BY <2>1 DEF CostInv, Typed, Company, TripOf
  <2>6. CASE ~faulty
    <3>1. pm' = Nil /\ MissionBooked'
        BY <2>1, <2>6 DEF MissionBooked
    <3>2. GenTrue(k)'
        BY <1>2, <1>3, <2>1, <2>2, <2>3, <2>6 DEF GenTrue
    <3>3. QED
        BY <1>1, <1>2, <2>4, <2>5, <3>1, <3>2, GensKept DEF CostInv
  <2>7. CASE faulty
    <3>1. pm' = pm
        BY <2>1, <2>7
    <3>2. ApartCosts(pm, acc', pg.spent, pg.again)
        BY <1>1, <1>2, <1>3, <2>2 DEF MissionCosts, ApartCosts, Plain, PlainCosts
    <3>3. PlainCosts(pm, acc', pg.had)
        BY <1>1, <1>2, <1>3, <2>2 DEF MissionCosts, PlainCosts
    <3>4. ~Closing'
        BY <1>1, <1>2, <1>3, <2>2, <3>1 DEF Closing
    <3>5. MissionBooked'
        BY <1>3, <2>3, <3>1, <3>2, <3>3, <3>4 DEF MissionBooked, MissionCosts
    <3>6. GenTrue(k)'
        BY <1>1, <1>2, <1>3, <2>2, <2>3, <3>1 DEF GenTrue, MissionOf
    <3>7. QED
        BY <1>1, <1>2, <2>4, <2>5, <3>1, <3>5, <3>6, GensKept DEF CostInv
  <2>8. QED
      BY <2>6, <2>7
<1>7. QED
    BY <1>5, <1>6

\* A completion without fares books all that its passage spent.
LEMMA RestBooks ==
    ASSUME NEW a, NEW spent, Books(a, spent), DOMAIN a = {"rows", "rec", "arch"}, NEW k \in Gen, a.arch[k] = Nil,
           NEW r, r = a.rec[k], r.gen = k, r.cost = spent[k],
           RowsOf(a, k) # {} => RowsOf(a, k) = {RestRow(r)}, HasRest(a, k) => Rested(a, k),
           r.st = "open" \/ Rested(a, k), NEW b, b = RestSettled(a, k)
    PROVE  /\ DOMAIN b = DOMAIN a /\ b.rec = a.rec /\ b.arch = a.arch /\ Books(b, spent)
           /\ \A j \in Gen : j # k => RowsOf(b, j) = RowsOf(a, j)
           /\ RowsOf(b, k) = {RestRow(r)} /\ Rested(b, k) /\ Booked(b, k) = spent[k]
<1>1. PICK x : x = RestRow(r)
    OBVIOUS
<1>2. x.id = <<"rest", k>> /\ x.gen = k /\ x.cost = spent[k] /\ spent[k] \in Nat
    BY <1>1, RowsCosted DEF RestRow
<1>3. CASE Rested(a, k)
  <2>1. b = a
      BY <1>3 DEF RestSettled, HasRest, Rested, RowsOf
  <2>2. RowsOf(b, k) = {x}
      BY <1>1, <1>3, <2>1 DEF Rested
  <2>3. Booked(b, k) = spent[k]
      BY <1>2, <2>2, SumOne DEF Booked
  <2>4. QED
      BY <1>1, <1>3, <2>1, <2>2, <2>3
<1>4. CASE ~Rested(a, k)
  <2>1. b = [a EXCEPT !.rows = @ \cup {x}]
      BY <1>1, <1>4 DEF RestSettled
  <2>2. DOMAIN b = DOMAIN a /\ b.rows = a.rows \cup {x} /\ b.rec = a.rec /\ b.arch = a.arch
      BY <2>1
  <2>3. RowsOf(a, k) = {}
      BY <1>1, <1>2, <1>4 DEF Rested
  <2>4. x \notin a.rows
      BY <1>2, <2>3 DEF RowsOf
  <2>5. Sum(RowsOf(a, k)) + x.cost <= spent[k] /\ Sum(RowsOf(a, k)) + x.cost = spent[k]
      BY <1>2, <2>3, SumNone
  <2>6. ASSUME NEW j \in Gen PROVE x.id \notin Marker(j)
    <3>1. <<"rest", k>> \notin Marker(j)
        BY Markers
    <3>2. QED
        BY <1>2, <3>1
  <2>7. /\ Books(b, spent) /\ Sum(RowsOf(b, k)) = Sum(RowsOf(a, k)) + x.cost
        /\ RowsOf(b, k) = RowsOf(a, k) \cup {x}
        /\ \A j \in Gen : j # k => RowsOf(b, j) = RowsOf(a, j)
      BY <1>2, <2>2, <2>4, <2>5, <2>6, BookRow
  <2>8. RowsOf(b, k) = {x}
      BY <2>3, <2>7
  <2>9. Rested(b, k) /\ Booked(b, k) = spent[k]
      BY <1>2, <2>5, <2>7, <2>8 DEF Rested, Booked
  <2>10. QED
      BY <1>1, <2>2, <2>7, <2>8, <2>9
<1>5. QED
    BY <1>3, <1>4

\* What the books say of the completion of a plain mission.
LEMMA RestFacts ==
    ASSUME FareInv, CostInv, NEW k \in Gen
    PROVE  /\ acc.rec[k] # Nil => acc.rec[k].gen = k
           /\ HasRest(acc, k) => Rested(acc, k) /\ acc.rec[k] # Nil
           /\ acc.rec[k] # Nil /\ ~(MissionOf(k) /\ Plain(pm)) => Rested(acc, k)
           /\ MissionOf(k) /\ Plain(pm) /\ acc.rec[k] # Nil =>
                 /\ acc.arch[k] = Nil /\ acc.rec[k].cost = pg.spent[k] /\ pm.receipts = << >>
                 /\ RowsOf(acc, k) # {} => RowsOf(acc, k) = {RestRow(acc.rec[k])}
                 /\ acc.rec[k].st = "open" \/ Rested(acc, k)
                 /\ ~Waits => Rested(acc, k)
<1>1. RowsOK(acc, pg.had, pg.gen) /\ GenTrue(k)
    BY DEF FareInv, RowsTrue, CostInv
<1>2. acc.rec[k] # Nil => acc.rec[k].gen = k
    BY <1>1 DEF RowsOK, Batch
<1>3. HasRest(acc, k) => acc.rec[k] # Nil
    BY <1>1 DEF RowsOK, HasRest
<1>4. acc.rec[k] # Nil => Rested(acc, k) \/ (MissionOf(k) /\ Plain(pm) /\ Waits /\ acc.rec[k].st = "open" /\ ~HasRest(acc, k))
    BY <1>1 DEF GenTrue
<1>5. MissionOf(k) /\ Plain(pm) /\ acc.rec[k] # Nil =>
          /\ acc.arch[k] = Nil /\ acc.rec[k].cost = pg.spent[k] /\ pm.receipts = << >>
          /\ RowsOf(acc, k) # {} => RowsOf(acc, k) = {RestRow(acc.rec[k])}
    BY DEF CostInv, MissionBooked, MissionCosts, PlainCosts, MissionOf
<1>6. QED
    BY <1>2, <1>3, <1>4, <1>5

\* A mission completes without fares.
LEMMA CompleteCosts ==
    ASSUME FareInv, CostInv, Completes
    PROVE  CostInv'
<1>1. pm # Nil /\ ~pm.q /\ Plain(pm) /\ Straight /\ pm.act = Nil /\ pm.groups # {} /\ pm.receipts = << >>
    BY DEF Completes, Idle, Driven, Plain, Straight
<1>2. PICK k \in Gen : k = pm.gen /\ k <= pg.gen /\ GenTrue(k) /\ ~(k > pg.gen) /\ MissionOf(k)
    BY <1>1, MissionGen DEF MissionOf
<1>3. /\ pm \in Passages /\ MissionCosts(pm, acc, pg.spent, pg.again, pg.had) /\ (Closing => HoldEmptied)
      /\ Books(acc, pg.spent) /\ DOMAIN acc = {"rows", "rec", "arch"} /\ DOMAIN acc.rec = Gen
    BY <1>1, MissionGen, AccFields DEF CostInv, MissionBooked, FareInv, RowsTrue, RowsOK
<1>4. pm.cost = pg.spent[k] /\ PlainCosts(pm, acc, pg.had)
    BY <1>1, <1>2, <1>3 DEF MissionCosts
<1>5. CASE ~Waits
  <2>1. QuarantinePassage(pm, acc) /\ UNCHANGED <<pw, evs>>
      BY <1>5 DEF Completes
  <2>2. ASSUME acc.rec[k] # Nil PROVE Rested(acc, k) /\ Booked(acc, k) = pg.spent[k]
    <3>1. /\ Rested(acc, k) /\ acc.rec[k].cost = pg.spent[k]
          /\ (RowsOf(acc, k) # {} => RowsOf(acc, k) = {RestRow(acc.rec[k])})
        BY <1>1, <1>2, <1>5, <2>2, RestFacts
    <3>2. PICK x : x = RestRow(acc.rec[k])
        OBVIOUS
    <3>3. RowsOf(acc, k) = {x} /\ x.cost = pg.spent[k] /\ pg.spent[k] \in Nat
        BY <1>3, <3>1, <3>2, RowsCosted DEF Rested, RestRow
    <3>4. QED
        BY <3>1, <3>3, SumOne DEF Booked
  <2>3. QED
      BY <1>1, <1>2, <1>3, <2>1, <2>2, QuarantineCosts
<1>6. CASE Waits
  <2>1. PICK u : u = [gen |-> pm.gen, gr |-> pm.groups, cost |-> pm.cost, st |-> "open", done |-> snap.wait.at,
                      start |-> Min({pw.bt[g] : g \in pm.groups})]
      OBVIOUS
  <2>2. PICK m : m = IF pm.unknown = Nil THEN [pm EXCEPT !.unknown = u] ELSE pm
      OBVIOUS
  <2>3. PICK a : a = ArchiveRow(acc, m)
      OBVIOUS
  <2>4. PICK b : b = RestSettled(a, k)
      OBVIOUS
  <2>5. /\ m.gen = k /\ m.cost = pg.spent[k] /\ ~m.q /\ ~m.recovery /\ m.extra = pm.extra /\ m.groups = pm.groups
        /\ m.receipts = << >> /\ m.act = Nil /\ (pm.unknown = Nil => m.unknown = u) /\ (pm.unknown # Nil => m = pm)
      BY <1>1, <1>2, <1>3, <1>4, <2>2 DEF Passages, Plain
  <2>6. u.gen = k /\ u.cost = pg.spent[k] /\ u.st = "open" /\ u \in Archive /\ u # Nil
    <3>1. Batch(u, pm.gen, pg.had)
        BY <1>1, <1>6, <2>1, EmptiedBatch
    <3>2. QED
        BY <1>2, <1>4, <2>1, <3>1, PassengersNil DEF Batch
  <2>7. m.unknown.gen = k /\ m.unknown.cost = pg.spent[k] /\ m.unknown.st = "open"
    <3>1. pm.unknown # Nil => pm.unknown.gen = k /\ pm.unknown.cost = pg.spent[k] /\ pm.unknown.st = "open"
        BY <1>1, <1>2, <1>4 DEF FareInv, UnknownTrue, Batch, PlainCosts
    <3>2. QED
        BY <2>5, <2>6, <3>1
  <2>8. PICK i \in 1..5 :
            /\ pg' = [pg EXCEPT !.faults = Faults(i < 5)]
            /\ acc' = (CASE i = 1 -> acc [] i = 2 -> a [] OTHER -> b)
            /\ snap' = IF i < 4 THEN snap ELSE Released(k)
            /\ pm' = IF i < 5 THEN m ELSE Nil
            /\ UNCHANGED <<pw, evs>>
    <3>1. \E i \in 1..5 :
            /\ pg' = [pg EXCEPT !.faults = Faults(i < 5)]
            /\ acc' = (CASE i = 1 -> acc [] i = 2 -> ArchiveRow(acc, m) [] OTHER -> RestSettled(ArchiveRow(acc, m), m.gen))
            /\ snap' = IF i < 4 THEN snap ELSE Released(m.gen)
            /\ pm' = IF i < 5 THEN m ELSE Nil
            /\ UNCHANGED <<pw, evs>>
        BY <1>6, <2>1, <2>2 DEF Completes
    <3>2. QED
        BY <2>3, <2>4, <2>5, <3>1
  <2>9. /\ DOMAIN a = {"rows", "rec", "arch"} /\ a.rows = acc.rows /\ a.arch = acc.arch
        /\ a.rec[k] = (IF acc.rec[k] = Nil THEN m.unknown ELSE acc.rec[k]) /\ \A j \in Gen : j # k => a.rec[j] = acc.rec[j]
      BY <1>3, <2>3, <2>5 DEF ArchiveRow
  <2>10. \A j \in Gen : RowsOf(a, j) = RowsOf(acc, j)
      BY <2>9 DEF RowsOf
  <2>11. Books(a, pg.spent)
      BY <1>3, <2>9, <2>10 DEF Books
  <2>12. /\ a.rec[k].gen = k /\ a.rec[k].cost = pg.spent[k] /\ a.arch[k] = Nil
         /\ (RowsOf(a, k) # {} => RowsOf(a, k) = {RestRow(a.rec[k])})
         /\ (HasRest(a, k) => Rested(a, k) /\ acc.rec[k] # Nil)
         /\ (a.rec[k].st = "open" \/ Rested(a, k))
    <3>1. a.arch[k] = Nil /\ (RowsOf(acc, k) # {} => acc.rec[k] # Nil /\ RowsOf(acc, k) = {RestRow(acc.rec[k])})
        BY <1>1, <1>2, <1>4, <2>9 DEF PlainCosts
    <3>2. /\ acc.rec[k] # Nil => acc.rec[k].gen = k /\ acc.rec[k].cost = pg.spent[k]
          /\ HasRest(acc, k) => Rested(acc, k) /\ acc.rec[k] # Nil
          /\ acc.rec[k] # Nil => acc.rec[k].st = "open" \/ Rested(acc, k)
        BY <1>1, <1>2, RestFacts
    <3>3. HasRest(a, k) = HasRest(acc, k) /\ Rested(a, k) = Rested(acc, k)
        BY <2>9, <2>10 DEF HasRest, Rested
    <3>4. QED
        BY <2>7, <2>9, <2>10, <3>1, <3>2, <3>3
  <2>13. /\ DOMAIN b = DOMAIN a /\ b.rec = a.rec /\ b.arch = a.arch /\ Books(b, pg.spent)
         /\ \A j \in Gen : j # k => RowsOf(b, j) = RowsOf(a, j)
         /\ RowsOf(b, k) = {RestRow(a.rec[k])} /\ Rested(b, k) /\ Booked(b, k) = pg.spent[k]
    <3>1. PICK r : r = a.rec[k]
        OBVIOUS
    <3>2. r.gen = k /\ r.cost = pg.spent[k] /\ (r.st = "open" \/ Rested(a, k)) /\ (RowsOf(a, k) # {} => RowsOf(a, k) = {RestRow(r)})
        BY <2>12, <3>1
    <3>3. QED
        BY <2>4, <2>9, <2>11, <2>12, <3>1, <3>2, RestBooks
  <2>14. acc' = acc \/ acc' = a \/ acc' = b
      BY <2>8
  <2>15. /\ acc'.arch = acc.arch /\ Books(acc', pg.spent)
         /\ \A j \in Gen : j # k => RowsOf(acc', j) = RowsOf(acc, j) /\ acc'.rec[j] = acc.rec[j]
      BY <1>3, <2>9, <2>10, <2>11, <2>13, <2>14
  <2>16. /\ acc'.rec[k] # Nil => acc'.rec[k].cost = pg.spent[k]
         /\ RowsOf(acc', k) # {} => acc'.rec[k] # Nil /\ RowsOf(acc', k) = {RestRow(acc'.rec[k])}
    <3>1. CASE acc' = acc
        BY <1>1, <1>2, <1>4, <3>1 DEF PlainCosts
    <3>2. a.rec[k] # Nil
        BY <2>5, <2>6, <2>9
    <3>3. QED
        BY <2>12, <2>13, <2>14, <3>1, <3>2
  <2>17. acc'.rec[k] # Nil => Rested(acc', k) \/ (i < 4 /\ acc'.rec[k].st = "open" /\ ~HasRest(acc', k))
    <3>1. CASE i = 1
      <4>1. acc' = acc
          BY <2>8, <3>1
      <4>2. QED
          BY <1>2, <3>1, <4>1 DEF GenTrue
    <3>2. CASE i = 2
      <4>1. acc' = a
          BY <2>8, <3>2
      <4>2. QED
          BY <2>12, <3>2, <4>1
    <3>3. CASE i # 1 /\ i # 2
      <4>1. acc' = b
          BY <2>8, <3>3
      <4>2. QED
          BY <2>13, <4>1
    <3>4. QED
        BY <3>1, <3>2, <3>3
  <2>18. i = 5 => Booked(acc', k) = pg.spent[k] /\ Rested(acc', k)
      BY <2>8, <2>13
  <2>19. /\ pg'.gen = pg.gen /\ pg'.spent = pg.spent /\ pg'.had = pg.had /\ pg'.again = pg.again
      BY <2>8 DEF FareInv, BookTypes
  <2>20. Elsewhere(k) /\ Books(acc, pg.spent)'
      BY <2>15, <2>19 DEF Elsewhere
  <2>21. m \in Passages
    <3>1. [pm EXCEPT !.unknown = u] \in Passages
        BY <1>3, <2>6 DEF Passages
    <3>2. QED
        BY <1>3, <2>2, <3>1
  <2>22. CASE i = 5
    <3>1. pm' = Nil /\ ~MissionOf(k)'
        BY <2>8, <2>22 DEF MissionOf
    <3>2. Typed' /\ Company' /\ MissionBooked'
        BY <2>8, <3>1 DEF CostInv, Typed, Company, MissionBooked
    <3>3. GenTrue(k)'
        BY <1>2, <2>18, <2>19, <2>22 DEF GenTrue
    <3>4. QED
        BY <1>1, <1>2, <2>20, <3>1, <3>2, <3>3, GensKept DEF CostInv
  <2>23. CASE i < 5
    <3>1. pm' = m /\ pm' # Nil
        BY <2>8, <2>21, <2>23, PassengersNil
    <3>2. Typed' /\ Company'
        BY <1>1, <2>5, <2>8, <2>21, <3>1 DEF CostInv, Typed, Company, TripOf
    <3>3. ApartCosts(m, acc', pg.spent, pg.again)
      <4>1. acc'.arch[k] = Nil
          BY <1>2, <1>4, <2>15 DEF PlainCosts
      <4>2. QED
          BY <2>5, <4>1 DEF ApartCosts
    <3>4. PlainCosts(m, acc', pg.had)
      <4>1. m.unknown # Nil
          BY <2>5, <2>6
      <4>2. QED
          BY <1>2, <1>4, <2>5, <2>7, <2>15, <2>16, <4>1 DEF PlainCosts
    <3>5. HoldEmptied'
      <4>1. HoldEmptied
        <5>1. CASE pm.unknown # Nil
            BY <1>1, <1>3, <5>1 DEF Closing
        <5>2. CASE pm.unknown = Nil
          <6>1. pw.ship = "port" /\ pw.port > pm.trip /\ Aboard = {}
              BY <5>2 DEF Completes, Arrived, EmptyHold
          <6>2. AtHome \/ Away
              BY <1>1 DEF FareInv, MissionTrue, GroupsTrue
          <6>3. pw.port \in Nat /\ pm.trip \in Nat
              BY <1>3, WorldTypes DEF Passages
          <6>4. Open = {}
              BY <6>1, <6>2, <6>3 DEF AtHome, Away
          <6>5. QED
              BY <1>1, <6>1, <6>4 DEF HoldEmptied
        <5>3. QED
            BY <5>1, <5>2
      <4>2. QED
          BY <2>5, <2>8, <3>1, <4>1 DEF HoldEmptied, Open, Aboard, Coming
    <3>6. MissionBooked'
        BY <2>5, <2>19, <3>1, <3>3, <3>4, <3>5 DEF MissionBooked, MissionCosts
    <3>7. GenTrue(k)'
      <4>1. MissionOf(k)' /\ Plain(pm')
          BY <2>5, <3>1 DEF MissionOf, Plain
      <4>2. i < 4 => Waits'
          BY <1>2, <1>6, <2>5, <2>8, <3>1 DEF Waits
      <4>3. QED
          BY <1>2, <2>17, <2>19, <4>1, <4>2 DEF GenTrue
    <3>8. QED
        BY <1>1, <1>2, <2>5, <2>20, <3>1, <3>2, <3>6, <3>7, GensKept DEF CostInv
  <2>24. QED
      BY <2>22, <2>23
<1>7. QED
    BY <1>5, <1>6

-----------------------------------------------------------------------------
(* Completions that are looked at later *)

\* The store c is that of now with the completion of the passage k booked.
Settled(c, k) ==
    /\ c.arch = acc.arch /\ Books(c, pg.spent)
    /\ \A j \in Gen : j # k => RowsOf(c, j) = RowsOf(acc, j) /\ c.rec[j] = acc.rec[j]
    /\ acc.rec[k] # Nil /\ c.rec[k] # Nil /\ c.rec[k].gen = k /\ c.rec[k].cost = acc.rec[k].cost
    /\ Rested(c, k) /\ (Recovered(c, k) <=> Recovered(acc, k))
    /\ Booked(c, k) = IF MissionOf(k) /\ Plain(pm) THEN pg.spent[k] ELSE Booked(acc, k)

\* The costs of a completion without fares are booked, once.
LEMMA SettledRest ==
    ASSUME FareInv, CostInv, NEW k \in Gen, acc.rec[k] # Nil, NEW b, b = RestSettled(acc, k)
    PROVE  /\ Settled(b, k) /\ b.rec = acc.rec /\ RowsOK(b, pg.had, pg.gen)
           /\ MissionOf(k) /\ Plain(pm) => RowsOf(b, k) = {RestRow(b.rec[k])}
<1>1. RowsOK(acc, pg.had, pg.gen) /\ Books(acc, pg.spent) /\ DOMAIN acc = {"rows", "rec", "arch"}
    BY AccFields DEF FareInv, RowsTrue
<1>2. RowsOK(b, pg.had, pg.gen) /\ b.rec = acc.rec
    BY <1>1, RestKept
<1>3. acc.rec[k].gen = k
    BY RestFacts
<1>4. CASE MissionOf(k) /\ Plain(pm)
  <2>1. PICK r : r = acc.rec[k]
      OBVIOUS
  <2>2. /\ acc.arch[k] = Nil /\ r.gen = k /\ r.cost = pg.spent[k]
        /\ RowsOf(acc, k) # {} => RowsOf(acc, k) = {RestRow(r)}
        /\ HasRest(acc, k) => Rested(acc, k)
        /\ r.st = "open" \/ Rested(acc, k)
      BY <1>4, <2>1, RestFacts
  <2>3. /\ DOMAIN b = DOMAIN acc /\ b.arch = acc.arch /\ Books(b, pg.spent)
        /\ \A j \in Gen : j # k => RowsOf(b, j) = RowsOf(acc, j)
        /\ RowsOf(b, k) = {RestRow(r)} /\ Rested(b, k) /\ Booked(b, k) = pg.spent[k]
      BY <1>1, <2>1, <2>2, RestBooks
  <2>4. ~Recovered(acc, k) /\ ~Recovered(b, k)
    <3>1. \A c \in {acc, b} : Books(c, pg.spent) /\ c.arch[k] = Nil
        BY <1>1, <2>2, <2>3
    <3>2. ASSUME NEW c \in {acc, b} PROVE ~Recovered(c, k)
      <4>1. GenOK(RowsOf(c, k), c.arch[k], pg.spent[k], k)
          BY <3>1 DEF Books
      <4>2. \A x \in RowsOf(c, k) : x.id \notin Marker(k)
          BY <3>1, <4>1 DEF GenOK
      <4>3. \A x \in c.rows : x.id \in Marker(k) => x.gen = k
          BY <3>1 DEF Books
      <4>4. <<"recovery", k>> \in Marker(k)
          BY DEF Marker
      <4>5. QED
          BY <4>2, <4>3, <4>4 DEF Recovered, RowsOf
    <3>3. QED
        BY <3>2
  <2>5. QED
      BY <1>2, <1>3, <1>4, <2>1, <2>3, <2>4 DEF Settled
<1>5. CASE ~(MissionOf(k) /\ Plain(pm))
  <2>1. Rested(acc, k)
      BY <1>5, RestFacts
  <2>2. b = acc
      BY <2>1 DEF RestSettled, HasRest, Rested, RowsOf
  <2>3. QED
      BY <1>1, <1>2, <1>3, <1>5, <2>1, <2>2 DEF Settled
<1>6. QED
    BY <1>4, <1>5

\* Closing the record of a completion books nothing.
LEMMA SettledClosed ==
    ASSUME NEW k \in Gen, NEW b, Settled(b, k), DOMAIN b = {"rows", "rec", "arch"}, DOMAIN b.rec = Gen, b.rec[k] \in Archive,
           NEW st \in {"resolved", "quarantined", "expired"}, NEW c, c = [b EXCEPT !.rec[k].st = st]
    PROVE  Settled(c, k) /\ RestRow(c.rec[k]) = RestRow(b.rec[k]) /\ RowsOf(c, k) = RowsOf(b, k)
<1>1. PICK u : u = [b.rec[k] EXCEPT !.st = st]
    OBVIOUS
<1>2. c.rows = b.rows /\ c.arch = b.arch /\ c.rec[k] = u /\ \A j \in Gen : j # k => c.rec[j] = b.rec[j]
    BY <1>1
<1>3. u.gen = b.rec[k].gen /\ u.cost = b.rec[k].cost /\ u \in Archive /\ u # Nil
  <2>1. u \in Archive
      BY <1>1 DEF Archive
  <2>2. QED
      BY <1>1, <2>1, PassengersNil DEF Archive
<1>4. \A j \in Gen : RowsOf(c, j) = RowsOf(b, j)
    BY <1>2 DEF RowsOf
<1>5. Books(c, pg.spent)
    BY <1>2, <1>4 DEF Settled, Books
<1>6. (Rested(c, k) <=> Rested(b, k)) /\ (Recovered(c, k) <=> Recovered(b, k)) /\ Booked(c, k) = Booked(b, k)
    BY <1>2, <1>4 DEF Rested, Recovered, Booked
<1>7. RestRow(u) = RestRow(b.rec[k])
    BY <1>3 DEF RestRow
<1>8. QED
    BY <1>2, <1>3, <1>4, <1>5, <1>6, <1>7 DEF Settled

\* The fares that are found take the place of the unknown completion.
LEMMA SettledSwap ==
    ASSUME NEW k \in Gen, NEW b, Settled(b, k), DOMAIN b = {"rows", "rec", "arch"}, NEW x \in b.rows, NEW row,
           x.id = <<"rest", k>>, \A r \in b.rows : r.id = <<"rest", k>> => r = x, x.gen = k,
           row.id = <<"rest", k>>, row.gen = k, row.cost = x.cost,
           NEW c, c = [b EXCEPT !.rows = (@ \ {x}) \cup {row}]
    PROVE  Settled(c, k)
<1>1. c.rows = (b.rows \ {x}) \cup {row} /\ c.arch = b.arch /\ c.rec = b.rec
    OBVIOUS
<1>2. PICK R, U : R = RowsOf(b, k) /\ U = Unrecovered(R, k)
    OBVIOUS
<1>3. /\ Books(b, pg.spent) /\ Costed(b.rows) /\ Costed(R) /\ Costed(U) /\ GenOK(R, b.arch[k], pg.spent[k], k)
    BY <1>2, RowsCosted DEF Settled, Books
<1>4. row \notin b.rows \ {x}
    OBVIOUS
<1>5. <<"rest", k>> # <<"recovery", k>> /\ <<"rest", k>> # <<"mark", k>> /\ \A j \in Gen : <<"rest", k>> \notin Marker(j)
  <2>1. ASSUME NEW j \in Gen PROVE <<"rest", k>> \notin Marker(j)
      BY Markers
  <2>2. <<"rest", k>>[1] = "rest" /\ <<"recovery", k>>[1] = "recovery" /\ <<"mark", k>>[1] = "mark"
      OBVIOUS
  <2>3. QED
      BY <2>1, <2>2
<1>6. x \in R /\ x \in U /\ row \notin R \ {x} /\ row \notin U \ {x}
    BY <1>2, <1>4, <1>5 DEF RowsOf, Unrecovered
<1>7. /\ RowsOf(c, k) = (R \ {x}) \cup {row}
      /\ Unrecovered(RowsOf(c, k), k) = (U \ {x}) \cup {row}
      /\ \A j \in Gen : j # k => RowsOf(c, j) = RowsOf(b, j)
    BY <1>1, <1>2, <1>5 DEF RowsOf, Unrecovered
<1>8. Costed(c.rows)
    BY <1>1, <1>3, <1>4, SumSwap
<1>9. Sum(RowsOf(c, k)) = Sum(R)
  <2>1. Sum((R \ {x}) \cup {row}) = Sum(R)
      BY <1>3, <1>6, SumSwap
  <2>2. QED
      BY <1>7, <2>1
<1>10. Sum(Unrecovered(RowsOf(c, k), k)) = Sum(U)
  <2>1. Sum((U \ {x}) \cup {row}) = Sum(U)
      BY <1>3, <1>6, SumSwap
  <2>2. QED
      BY <1>7, <2>1
<1>11. GenOK(RowsOf(c, k), c.arch[k], pg.spent[k], k)
  <2>1. PICK Q, arch, spent : Q = RowsOf(c, k) /\ arch = b.arch[k] /\ spent = pg.spent[k]
      OBVIOUS
  <2>2. GenOK(R, arch, spent, k) /\ Sum(Q) = Sum(R) /\ Sum(Unrecovered(Q, k)) = Sum(Unrecovered(R, k))
      BY <1>2, <1>3, <1>9, <1>10, <2>1
  <2>3. Q = (R \ {x}) \cup {row}
      BY <1>7, <2>1
  <2>4. CASE arch = Nil
    <3>1. \A r \in Q : r.id \notin Marker(k)
        BY <1>5, <2>2, <2>3, <2>4 DEF GenOK
    <3>2. Sum(Q) <= spent /\ spent \in Nat
        BY <2>2, <2>4 DEF GenOK
    <3>3. QED
        BY <1>1, <2>1, <2>4, <3>1, <3>2 DEF GenOK
  <2>5. CASE arch # Nil
    <3>1. \E r \in Q : r.id = <<"mark", k>>
        BY <1>5, <2>2, <2>3, <2>5 DEF GenOK
    <3>2. \A r \in Q : r.id = <<"recovery", k>> => r \in R
        BY <1>5, <2>3
    <3>3. \A r, y \in Q : r.id = <<"recovery", k>> /\ y.id = r.id => r = y /\ arch + r.cost <= spent
        BY <2>2, <2>5, <3>2 DEF GenOK
    <3>4. Sum(Unrecovered(Q, k)) = arch /\ arch <= spent /\ arch \in Nat \cup {Nil} /\ spent \in Nat
        BY <2>2, <2>5 DEF GenOK
    <3>5. GenOK(Q, arch, spent, k)
        BY <2>5, <3>1, <3>3, <3>4 DEF GenOK
    <3>6. QED
        BY <1>1, <2>1, <3>5
  <2>6. QED
      BY <1>1, <2>1, <2>4, <2>5
<1>12. \A r \in c.rows, j \in Gen : r.id \in Marker(j) => r.gen = j
    BY <1>1, <1>3, <1>5 DEF Books
<1>13. Books(c, pg.spent)
  <2>1. c.arch \in [Gen -> Nat \cup {Nil}] /\ pg.spent \in [Gen -> Nat]
      BY <1>1, <1>3 DEF Books
  <2>2. \A j \in Gen : j # k => RowsOf(c, j) = RowsOf(b, j) /\ c.arch[j] = b.arch[j] /\ pg.spent[j] = pg.spent[j]
      BY <1>1, <1>7
  <2>3. QED
      BY <1>3, <1>8, <1>11, <1>12, <2>1, <2>2, BooksChange
<1>14. Rested(c, k) /\ (Recovered(c, k) <=> Recovered(b, k)) /\ Booked(c, k) = Booked(b, k)
    BY <1>1, <1>2, <1>5, <1>7, <1>9 DEF Rested, Recovered, Booked
<1>15. QED
    BY <1>1, <1>7, <1>13, <1>14 DEF Settled

\* A completion whose fares are found.
LEMMA SettledResolved ==
    ASSUME NEW k \in Gen, NEW b, Settled(b, k), RowsOK(b, pg.had, pg.gen), b.rec[k].st = "open"
    PROVE  Settled(Resolved(b, k), k)
<1>1. /\ DOMAIN b = {"rows", "rec", "arch"} /\ DOMAIN b.rec = Gen /\ b.rec[k] \in Archive /\ b.rec[k].gen = k
    BY DEF RowsOK, Settled, Batch
<1>2. PICK r : r = b.rec[k]
    OBVIOUS
<1>3. PICK E : E = ReceiptTerminal(r)
    OBVIOUS
<1>4. PICK x : x = RestRow(r)
    OBVIOUS
<1>5. PICK row : row = [x EXCEPT !.ev = {<<e.gs, e.n>> : e \in E}, !.known = TRUE]
    OBVIOUS
<1>6. x.id = <<"rest", k>> /\ x.gen = k /\ row.id = <<"rest", k>> /\ row.gen = k /\ row.cost = x.cost
    BY <1>1, <1>2, <1>4, <1>5 DEF RestRow
<1>7. x \in b.rows /\ \A y \in b.rows : y.id = <<"rest", k>> => y = x
  <2>1. \A y \in b.rows : y.id = <<"rest", k>> => y = x
      BY <1>2, <1>4 DEF RowsOK
  <2>2. \E y \in b.rows : y.id = <<"rest", k>>
      BY DEF Settled, Rested, RowsOf
  <2>3. QED
      BY <2>1, <2>2
<1>8. PICK d : d = [b EXCEPT !.rows = (@ \ {x}) \cup {row}]
    OBVIOUS
<1>9. Settled(d, k) /\ DOMAIN d = {"rows", "rec", "arch"} /\ d.rec = b.rec
    BY <1>1, <1>6, <1>7, <1>8, SettledSwap
<1>10. \/ Resolved(b, k) = b
       \/ Resolved(b, k) = [b EXCEPT !.rec[k].st = "quarantined"]
       \/ Resolved(b, k) = [b EXCEPT !.rows = (@ \ {x}) \cup {row}, !.rec[k].st = "resolved"]
    BY <1>2, <1>3, <1>4, <1>5 DEF Resolved
<1>11. [b EXCEPT !.rows = (@ \ {x}) \cup {row}, !.rec[k].st = "resolved"] = [d EXCEPT !.rec[k].st = "resolved"]
    BY <1>1, <1>8
<1>12. Settled([d EXCEPT !.rec[k].st = "resolved"], k) /\ Settled([b EXCEPT !.rec[k].st = "quarantined"], k)
    BY <1>1, <1>9, SettledClosed
<1>13. QED
    BY <1>10, <1>11, <1>12

\* A completion is booked while another mission, or none, or its own is there.
LEMMA SettleCosts ==
    ASSUME FareInv, FareInv', CostInv, NEW k \in Gen, Settled(acc', k), UNCHANGED <<pw, evs>>,
           pg'.gen = pg.gen, pg'.spent = pg.spent, pg'.had = pg.had, pg'.again = pg.again,
           pm' = pm \/ (MissionOf(k) /\ pm' = Nil),
           pm' = pm /\ MissionOf(k) /\ Plain(pm) => RowsOf(acc', k) = {RestRow(acc'.rec[k])},
           pm # Nil /\ pm' = pm /\ pm.gen # k /\ Waits => Waits'
    PROVE  CostInv'
<1>1. /\ acc'.arch = acc.arch /\ Books(acc', pg.spent)
      /\ \A j \in Gen : j # k => RowsOf(acc', j) = RowsOf(acc, j) /\ acc'.rec[j] = acc.rec[j]
      /\ acc.rec[k] # Nil /\ acc'.rec[k] # Nil /\ acc'.rec[k].cost = acc.rec[k].cost
      /\ Rested(acc', k) /\ (Recovered(acc', k) <=> Recovered(acc, k))
      /\ Booked(acc', k) = IF MissionOf(k) /\ Plain(pm) THEN pg.spent[k] ELSE Booked(acc, k)
    BY DEF Settled
<1>2. Books(acc, pg.spent) /\ \A j \in Gen : GenTrue(j)
    BY DEF CostInv
<1>3. Books(acc, pg.spent)' /\ Typed' /\ Company'
    BY <1>1 DEF CostInv, Typed, Company, TripOf
<1>4. ASSUME NEW j \in Gen, j # k
      PROVE  /\ Booked(acc', j) = Booked(acc, j) /\ (Rested(acc', j) <=> Rested(acc, j))
             /\ \A x : x.id = <<"recovery", j>> => (x \in acc'.rows <=> x \in acc.rows)
             /\ (Recovered(acc', j) <=> Recovered(acc, j))
  <2>1. RowsOf(acc', j) = RowsOf(acc, j)
      BY <1>1, <1>4
  <2>2. ASSUME NEW x, x.id = <<"recovery", j>> PROVE x \in acc'.rows <=> x \in acc.rows
    <3>1. <<"recovery", j>> \in Marker(j)
        BY DEF Marker
    <3>2. x \in acc'.rows \/ x \in acc.rows => x.gen = j
        BY <1>1, <1>2, <2>2, <3>1 DEF Books
    <3>3. QED
        BY <2>1, <3>2 DEF RowsOf
  <2>3. Recovered(acc', j) <=> Recovered(acc, j)
      BY <2>2 DEF Recovered
  <2>4. QED
      BY <2>1, <2>2, <2>3 DEF Booked, Rested
<1>5. ASSUME NEW j \in Gen, j # k, acc.rec[j] # Nil, acc.rec[j].st = "open", HasRest(acc', j) PROVE HasRest(acc, j)
  <2>1. RowsOK(acc', pg'.had, pg'.gen) /\ acc'.rec[j] = acc.rec[j] /\ RowsOf(acc', j) = RowsOf(acc, j)
      BY <1>1, <1>5 DEF FareInv, RowsTrue
  <2>2. PICK x \in acc'.rows : x.id = <<"rest", j>>
      BY <1>5 DEF HasRest
  <2>3. x = RestRow(acc.rec[j]) /\ acc.rec[j].gen = j
      BY <1>5, <2>1, <2>2 DEF RowsOK, Batch
  <2>4. x.gen = j
      BY <2>3 DEF RestRow
  <2>5. QED
      BY <2>1, <2>2, <2>4 DEF RowsOf, HasRest
<1>6. MissionBooked'
  <2>1. CASE pm' = Nil
      BY <2>1 DEF MissionBooked
  <2>2. CASE pm' # Nil
    <3>1. pm' = pm /\ pm # Nil
        BY <2>2
    <3>2. PICK l \in Gen : l = pm.gen
        BY <3>1, MissionGen
    <3>3. MissionCosts(pm, acc, pg.spent, pg.again, pg.had) /\ (Closing => HoldEmptied)
        BY <3>1 DEF CostInv, MissionBooked
    <3>4. HoldEmptied => HoldEmptied'
        BY <3>1 DEF HoldEmptied, Open, Aboard, Coming
    <3>5. CASE l # k
      <4>1. /\ acc'.arch[l] = acc.arch[l] /\ acc'.rec[l] = acc.rec[l] /\ RowsOf(acc', l) = RowsOf(acc, l)
            /\ Booked(acc', l) = Booked(acc, l) /\ (Recovered(acc', l) <=> Recovered(acc, l))
          BY <1>1, <1>4, <3>5
      <4>2. \A e : RecoveryRow(l, e) \in acc'.rows <=> RecoveryRow(l, e) \in acc.rows
        <5>1. \A e : RecoveryRow(l, e).id = <<"recovery", l>>
            BY DEF RecoveryRow
        <5>2. QED
            BY <1>4, <3>5, <5>1
      <4>3. ApartCosts(pm, acc', pg.spent, pg.again)
          BY <3>2, <3>3, <4>1, <4>2 DEF MissionCosts, ApartCosts
      <4>4. Plain(pm) => PlainCosts(pm, acc', pg.had)
          BY <3>2, <3>3, <4>1 DEF MissionCosts, PlainCosts
      <4>5. Closing' => Closing
          BY <3>1, <3>2, <4>1 DEF Closing
      <4>6. QED
          BY <3>1, <3>3, <3>4, <4>3, <4>4, <4>5 DEF MissionBooked, MissionCosts
    <3>6. CASE l = k
      <4>1. Closing /\ ~pm.recovery /\ MissionOf(k)
          BY <1>1, <3>1, <3>2, <3>3, <3>6 DEF Closing, MissionCosts, ApartCosts, MissionOf
      <4>2. CASE Plain(pm)
        <5>1. PlainCosts(pm, acc, pg.had) /\ acc.arch[k] = Nil /\ pm.unknown # Nil /\ pm.receipts = << >>
            BY <1>1, <3>2, <3>3, <3>6, <4>2 DEF MissionCosts, PlainCosts
        <5>2. ApartCosts(pm, acc', pg.spent, pg.again)
            BY <1>1, <3>2, <3>6, <4>1, <4>2, <5>1 DEF ApartCosts, Plain
        <5>3. RowsOf(acc', k) = {RestRow(acc'.rec[k])}
            BY <3>1, <4>1, <4>2
        <5>4. PlainCosts(pm, acc', pg.had)
            BY <1>1, <3>2, <3>6, <5>1, <5>3 DEF PlainCosts
        <5>5. QED
            BY <3>1, <3>3, <3>4, <4>1, <5>2, <5>4 DEF MissionBooked, MissionCosts
      <4>3. CASE ~Plain(pm)
        <5>1. ApartCosts(pm, acc', pg.spent, pg.again)
            BY <1>1, <3>2, <3>3, <3>6, <4>1, <4>3 DEF MissionCosts, ApartCosts
        <5>2. QED
            BY <3>1, <3>3, <3>4, <4>1, <4>3, <5>1 DEF MissionBooked, MissionCosts
      <4>4. QED
          BY <4>2, <4>3
    <3>7. QED
        BY <3>5, <3>6
  <2>3. QED
      BY <2>1, <2>2
<1>7. ASSUME NEW j \in Gen PROVE GenTrue(j)'
  <2>1. GenTrue(j) /\ acc'.arch = acc.arch /\ (MissionOf(j)' => MissionOf(j) /\ pm' = pm)
      BY <1>1, <1>2, PassengersNil DEF MissionOf
  <2>2. CASE j # k
    <3>1. MissionOf(j) => MissionOf(j)'
        BY <2>2 DEF MissionOf
    <3>2. ASSUME acc'.rec[j] # Nil
          PROVE  Rested(acc', j) \/ (MissionOf(j)' /\ Plain(pm') /\ Waits' /\ acc'.rec[j].st = "open" /\ ~HasRest(acc', j))
      <4>1. acc.rec[j] # Nil /\ acc'.rec[j] = acc.rec[j]
          BY <1>1, <2>2, <3>2
      <4>2. CASE Rested(acc, j)
          BY <1>4, <2>2, <4>2
      <4>3. CASE ~Rested(acc, j)
        <5>1. MissionOf(j) /\ Plain(pm) /\ Waits /\ acc.rec[j].st = "open" /\ ~HasRest(acc, j)
            BY <2>1, <4>1, <4>3 DEF GenTrue
        <5>2. MissionOf(j)' /\ pm' = pm /\ pm # Nil /\ pm.gen # k
            BY <2>1, <2>2, <3>1, <5>1 DEF MissionOf
        <5>3. Waits' /\ ~HasRest(acc', j)
            BY <1>5, <2>2, <4>1, <5>1, <5>2
        <5>4. QED
            BY <4>1, <5>1, <5>2, <5>3
      <4>4. QED
          BY <4>2, <4>3
    <3>3. QED
        BY <1>4, <2>1, <2>2, <3>1, <3>2 DEF GenTrue
  <2>3. CASE j = k
    <3>1. ASSUME k <= pg.gen, ~MissionOf(k)', pg.had[k] # {}, k \notin pg.again PROVE Booked(acc', k) = pg.spent[k]
      <4>1. CASE ~MissionOf(k)
          BY <1>1, <2>1, <2>3, <3>1, <4>1 DEF GenTrue
      <4>2. CASE MissionOf(k)
        <5>1. pm # Nil /\ pm.gen = k
            BY <4>2 DEF MissionOf
        <5>2. ApartCosts(pm, acc, pg.spent, pg.again)
            BY <5>1 DEF CostInv, MissionBooked, MissionCosts
        <5>3. CASE Plain(pm)
            BY <1>1, <4>2, <5>3
        <5>4. CASE ~Plain(pm)
          <6>1. pm.q
              BY <1>1, <5>1, <5>2, <5>4 DEF ApartCosts, Plain
          <6>2. Booked(acc, k) = pg.spent[k]
              BY <1>1, <3>1, <5>1, <5>2, <6>1 DEF ApartCosts
          <6>3. QED
              BY <1>1, <5>4, <6>2
        <5>5. QED
            BY <5>3, <5>4
      <4>3. QED
          BY <4>1, <4>2
    <3>2. QED
        BY <1>1, <2>1, <2>3, <3>1 DEF GenTrue
  <2>4. QED
      BY <2>2, <2>3
<1>8. QED
    BY <1>3, <1>6, <1>7 DEF CostInv

\* The archive of completions is looked at.
LEMMA LaterCosts ==
    ASSUME FareInv, FareInv', CostInv, NEW k \in Gen, ScanReceipt(k) \/ ReceiptExpires(k)
    PROVE  CostInv'
<1>1. acc.rec[k] # Nil /\ acc.rec[k].st = "open"
    BY DEF ScanReceipt, ReceiptExpires
<1>2. PICK b : b = RestSettled(acc, k)
    OBVIOUS
<1>3. /\ Settled(b, k) /\ b.rec = acc.rec /\ RowsOK(b, pg.had, pg.gen)
      /\ MissionOf(k) /\ Plain(pm) => RowsOf(b, k) = {RestRow(b.rec[k])}
    BY <1>1, <1>2, SettledRest
<1>4. CASE ScanReceipt(k)
  <2>1. PICK i \in 1..3 :
            /\ pg' = [pg EXCEPT !.faults = Faults(i < 3)]
            /\ acc' = IF i = 3 THEN Resolved(b, k) ELSE b
            /\ pm' = IF MissionOf(k) /\ i = 3 THEN Nil ELSE pm
            /\ snap' = IF i = 1 THEN snap ELSE Swept(Released(k), IF MissionOf(k) /\ i = 3 THEN Nil ELSE pm)
            /\ UNCHANGED <<pw, evs>>
      BY <1>2, <1>4 DEF ScanReceipt
  <2>2. pg'.gen = pg.gen /\ pg'.spent = pg.spent /\ pg'.had = pg.had /\ pg'.again = pg.again
      BY <2>1 DEF FareInv, BookTypes
  <2>3. Settled(acc', k)
      BY <1>1, <1>3, <2>1, SettledResolved
  <2>4. pm' = pm \/ (MissionOf(k) /\ pm' = Nil)
      BY <2>1
  <2>5. pm' = pm /\ MissionOf(k) /\ Plain(pm) => RowsOf(acc', k) = {RestRow(acc'.rec[k])}
    <3>1. pm' = pm /\ MissionOf(k) => i # 3
        BY <2>1 DEF MissionOf
    <3>2. QED
        BY <1>3, <2>1, <3>1
  <2>6. ASSUME pm # Nil, pm' = pm, pm.gen # k, Waits PROVE Waits'
    <3>1. snap' = snap \/ snap' = Swept(Released(k), pm)
        BY <2>1, <2>6 DEF MissionOf
    <3>2. snap.wait # Nil /\ snap.wait.gen = pm.gen
        BY <2>6 DEF Waits
    <3>3. Released(k).wait = snap.wait
        BY <2>6, <3>2 DEF Released
    <3>4. Swept(Released(k), pm) = Released(k)
        BY <2>6, <3>2, <3>3 DEF Swept
    <3>5. snap'.wait = snap.wait
        BY <3>1, <3>3, <3>4
    <3>6. QED
        BY <2>6, <3>2, <3>5 DEF Waits
  <2>7. QED
      BY <2>1, <2>2, <2>3, <2>4, <2>5, <2>6, SettleCosts
<1>5. CASE ReceiptExpires(k)
  <2>1. acc' = [b EXCEPT !.rec[k].st = "expired"] /\ snap' = Swept(snap, pm) /\ UNCHANGED <<pw, evs, pm, pg>>
      BY <1>2, <1>5 DEF ReceiptExpires
  <2>2. DOMAIN b = {"rows", "rec", "arch"} /\ DOMAIN b.rec = Gen /\ b.rec[k] \in Archive
      BY <1>1, <1>3 DEF RowsOK, Batch
  <2>3. Settled(acc', k) /\ RestRow(acc'.rec[k]) = RestRow(b.rec[k]) /\ RowsOf(acc', k) = RowsOf(b, k)
      BY <1>3, <2>1, <2>2, SettledClosed
  <2>4. Waits => Waits'
      BY <2>1 DEF Swept, Waits
  <2>5. QED
      BY <1>3, <2>1, <2>3, <2>4, SettleCosts
<1>6. QED
    BY <1>4, <1>5

-----------------------------------------------------------------------------
(* The costs of a passage *)

\* Every step keeps the books of every passage true.
LEMMA CostStep == FareInv /\ FareInv' /\ CostInv /\ [PassengersNext]_pvars => CostInv'
<1>1. SUFFICES ASSUME FareInv, FareInv', CostInv, [PassengersNext]_pvars PROVE CostInv'
    OBVIOUS
<1>2. CASE UNCHANGED pvars
    BY <1>1, <1>2, WaitCosts
<1>3. CASE \/ \E g \in Coming : Boards(g)
           \/ OfferCloses \/ OtherOffer \/ Arrives \/ Sinks \/ Repeats \/ Recorded
    BY <1>1, <1>3, ShipCosts
<1>4. CASE SyncAboard \/ \E g \in Coming : SyncBoarded(g)
    BY <1>1, <1>4, SyncCosts
<1>5. CASE \/ Concludes \/ ReconcileOffer \/ ReconcileCancel \/ ReconcileDepart
           \/ ServerActs \/ RequestLost \/ ServerRefuses
    BY <1>1, <1>5, AnswerCosts
<1>6. CASE RequestDamaged
    BY <1>1, <1>6, DamagedCosts
<1>7. CASE RetireQuarantinedAction \/ DriveQuarantined \/ DriveRecovery
    BY <1>1, <1>7, RetireCosts, DriveCosts, RecoveryCosts
<1>8. CASE ConsiderPassage \/ RecoverPassage
    BY <1>1, <1>8, AdmissionCosts
<1>9. CASE SyncReceipts \/ PutReceipts
    BY <1>1, <1>9, ReceiptCosts, PutCosts
<1>10. CASE BeginWait \/ CaptureStale \/ SweepWait
    BY <1>1, <1>10, WaitCosts
<1>11. CASE Completes
    BY <1>1, <1>11, CompleteCosts
<1>12. ASSUME NEW k \in Gen, ScanReceipt(k) \/ ReceiptExpires(k) PROVE CostInv'
    BY <1>1, <1>12, LaterCosts
<1>13. CASE \/ AdoptOffer \/ CancelUnsafe \/ BetterPlan \/ CancelToSail \/ CloseOut \/ OfferEnded
            \/ PostOffer \/ QuoteFails \/ Reprice
    BY <1>1, <1>13, HomeCosts
<1>14. CASE Depart
    BY <1>1, <1>14, DepartCosts
<1>15. QED
    BY <1>1, <1>2, <1>3, <1>4, <1>5, <1>6, <1>7, <1>8, <1>9, <1>10, <1>11, <1>12, <1>13, <1>14 DEF PassengersNext

\* The settlements of a passage never carry more than it spent, and all of it
\* once its mission is gone, for any number of passages, offers and faults
\* (PassengerSettlementCosts, archiveQuarantinedPassage).
THEOREM PassageCostedOnceHolds == PassengersSpec => []PassageCostedOnce
<1>1. PassengersInit => FareInv /\ CostInv
    BY InitFare, InitCosts
<1>2. FareInv /\ CostInv /\ [PassengersNext]_pvars => (FareInv /\ CostInv)'
    BY FareStep, CostStep
<1>3. FareInv /\ CostInv => PassageCostedOnce
    BY CostsOnce
<1>4. QED
    BY <1>1, <1>2, <1>3, PTL DEF PassengersSpec
=============================================================================
